---------------------------- MODULE ReceiptPoll ----------------------------
(***************************************************************************)
(* Read receipts: the fetches of a message's image as the pixel service    *)
(* records them in its key-value store, and the poll that collects them    *)
(* behind a watermark.                                                     *)
(*                                                                         *)
(*   packages/pixel-service/src/worker.mjs        createHandler            *)
(*   packages/pixel-service/src/cloudflare.mjs    kvStore                  *)
(*   apps/desktop/electron/receipts/poller.ts     ReceiptPoller            *)
(*   apps/desktop/electron/receipts/service.ts    events                   *)
(*   packages/store/src/queries/receipts.ts       events and watermark     *)
(*                                                                         *)
(* An event is a message and the time of its fetch.  Grades, user agents,  *)
(* the backoff and the thirty days after which a message is no longer      *)
(* asked about are left out.                                               *)
(***************************************************************************)
EXTENDS Naturals, FiniteSets, FiniteSetsExt

CONSTANTS
  Tokens,
  Own,       \* The messages armed by this machine; others share the service.
  ListMax,   \* Keys one kv.list answers (1000).
  Cap,       \* Events kept of a message (50).
  MaxClock,  \* Bound: times.
  MaxHits,   \* Bound: fetches of images.
  MaxFails   \* Bound: polls that fail.

VARIABLES
  clock,
  hits,       \* The fetches the service is recording, with what each has read.
  ev,         \* ev:<token>, as the set of its times.
  idx,        \* idx:<at>:<token>
  stored,     \* read_receipt_events
  watermark,
  poll,       \* What the poll is at, or Off.
  known,      \* History: every event the service ever had.
  missed,     \* History: events overwritten, or recorded too late.
  spent       \* hits, fails

vars == <<clock, hits, ev, idx, stored, watermark, poll, known, missed, spent>>

Off == [step |-> "off", since |-> 0, tokens |-> {}, events |-> {}]
Spends(what, most) == spent[what] < most /\ spent' = [spent EXCEPT ![what] = @ + 1]

Times(E) == {e[2] : e \in E}

(* The newest time of an answer; 0 when it is empty. *)
NewestOf(E) == Max({0} \cup Times(E))

Init ==
  /\ clock = 1
  /\ hits = {}
  /\ ev = [t \in Tokens |-> {}]
  /\ idx = {}
  /\ stored = {} /\ watermark = 0
  /\ poll = Off
  /\ known = {} /\ missed = {}
  /\ spent = [hits |-> 0, fails |-> 0]

-----------------------------------------------------------------------------
(* The service: a fetch is recorded in three awaits. *)

Tick ==
  /\ clock < MaxClock /\ clock' = clock + 1
  /\ UNCHANGED <<hits, ev, idx, stored, watermark, poll, known, missed, spent>>

(* GET /p/<token>.gif: the time is taken. *)
Hit(t) ==
  /\ Spends("hits", MaxHits)
  /\ Cardinality(ev[t]) < Cap
  /\ hits' = hits \cup {[token |-> t, at |-> clock, list |-> {}, step |-> "read"]}
  /\ UNCHANGED <<clock, ev, idx, stored, watermark, poll, known, missed>>

Goes(h, step, list) == hits' = (hits \ {h}) \cup {[h EXCEPT !.step = step, !.list = list]}

(* record: the list of the message is read. *)
Reads(h) ==
  /\ h.step = "read" /\ Goes(h, "put", ev[h.token])
  /\ UNCHANGED <<clock, ev, idx, stored, watermark, poll, known, missed, spent>>

(* It goes back with one more, over whatever was put there meanwhile. *)
Puts(h) ==
  /\ h.step = "put" /\ Goes(h, "index", {})
  /\ ev' = [ev EXCEPT ![h.token] = h.list \cup {h.at}]
  /\ missed' = missed \cup {<<h.token, at>> : at \in ev[h.token] \ ev'[h.token]}
  /\ known' = known \cup {<<h.token, h.at>>}
  /\ UNCHANGED <<clock, idx, stored, watermark, poll, spent>>

(* A later fetch was recorded before, or a poll has listed the keys. *)
TooLate(h) ==
  \/ poll.step = "reads"
  \/ \E e \in known : e[2] >= h.at /\ e # <<h.token, h.at>>

(* Then the key since looks for. *)
Indexes(h) ==
  /\ h.step = "index" /\ hits' = hits \ {h}
  /\ idx' = idx \cup {<<h.token, h.at>>}
  /\ missed' = IF TooLate(h) THEN missed \cup {<<h.token, h.at>>} ELSE missed
  /\ UNCHANGED <<clock, ev, stored, watermark, poll, known, spent>>

(* Recording is best effort by design. *)
Dropped(h) ==
  /\ hits' = hits \ {h}
  /\ UNCHANGED <<clock, ev, idx, stored, watermark, poll, known, missed, spent>>

(* kv.list: the oldest keys, and no cursor. *)
Listed ==
  {k \in idx : Cardinality({o \in idx : o[2] < k[2]}) < ListMax}

(* since: the keys first, *)
Lists ==
  /\ poll.step = "asked"
  /\ poll' = [poll EXCEPT !.step = "reads", !.tokens = {k[1] : k \in {l \in Listed : l[2] > poll.since}}]
  /\ UNCHANGED <<clock, hits, ev, idx, stored, watermark, known, missed, spent>>

(* then every newer event of their messages, one message after the other. *)
ReadsEvents(t) ==
  /\ poll.step = "reads" /\ t \in poll.tokens
  /\ poll' = [poll EXCEPT !.tokens = @ \ {t},
                          !.events = @ \cup {<<t, at>> : at \in {a \in ev[t] : a > poll.since}}]
  /\ UNCHANGED <<clock, hits, ev, idx, stored, watermark, known, missed, spent>>

Answers ==
  /\ poll.step = "reads" /\ poll.tokens = {}
  /\ poll' = [poll EXCEPT !.step = "answered"]
  /\ UNCHANGED <<clock, hits, ev, idx, stored, watermark, known, missed, spent>>

-----------------------------------------------------------------------------
(* The app. *)

(* poke, run: every two minutes, one at a time, from the watermark. *)
Poll ==
  /\ poll = Off
  /\ poll' = [Off EXCEPT !.step = "asked", !.since = watermark]
  /\ UNCHANGED <<clock, hits, ev, idx, stored, watermark, known, missed, spent>>

(* recordReceiptEvents: what this machine did not arm is dropped. *)
Kept(E) == {e \in E : e[1] \in Own}

(* A fault: the watermark is the time of the poll. *)
FaultyForward(E) == clock

(* setReceiptWatermark: forward only. *)
Forward(E) == Max({watermark, NewestOf(E)})

Lands ==
  /\ poll.step = "answered"
  /\ stored' = stored \cup Kept(poll.events)
  /\ watermark' = Forward(poll.events)
  /\ poll' = Off
  /\ UNCHANGED <<clock, hits, ev, idx, known, missed, spent>>

(* Eight seconds, an answer that is not one, a restart: asked again. *)
Fails ==
  /\ poll # Off /\ Spends("fails", MaxFails)
  /\ poll' = Off
  /\ UNCHANGED <<clock, hits, ev, idx, stored, watermark, known, missed>>

Next ==
  \/ Tick
  \/ \E t \in Tokens : Hit(t)
  \/ \E h \in hits : Reads(h) \/ Puts(h) \/ Indexes(h) \/ Dropped(h)
  \/ Poll \/ Lists \/ Answers \/ Lands \/ Fails
  \/ \E t \in Tokens : ReadsEvents(t)

Polling == Poll \/ Lists \/ (\E t \in Tokens : ReadsEvents(t)) \/ Answers \/ Lands

Spec == Init /\ [][Next]_vars /\ WF_vars(Polling)

-----------------------------------------------------------------------------
(* Properties. *)

Recorded == {e \in idx : e[2] \in ev[e[1]]}

(* Every recorded fetch of a message of ours is collected, though polls    *)
(* fail, fetches go on while a poll is on its way and other machines share *)
(* the service; but for those a fetch at the same time overwrote, those    *)
(* recorded after a later one, and those recorded while a poll was reading *)
(* what it had listed.                                                     *)
Collected == <>[](Kept(Recorded \ missed) \subseteq stored)

(* The same without exceptions: "only to an event actually written, so a   *)
(* page that fails halfway is asked for again" (poller.ts:11).             *)
NothingPassedOver == \A e \in Kept(Recorded) : e[2] <= watermark => e \in stored

(* "Every fetch must reach us, or a second open would be invisible"        *)
(* (worker.mjs:31)                                                         *)
NothingOverwritten == [][\A t \in Tokens : ev[t] \subseteq ev'[t]]_vars
=============================================================================
