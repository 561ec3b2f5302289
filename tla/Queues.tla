------------------------------ MODULE Queues ------------------------------
(***************************************************************************)
(* Where a thread waits for the user: the inbox, Daily 0, Weekly 0, Later, *)
(* a snooze or a reminder, and what moves it from one to the other: the    *)
(* keys, the ten second tick, mail that lands, and the first activity of a *)
(* new day or week.                                                        *)
(*                                                                         *)
(*   packages/store/src/queries/queues.ts      the three queues            *)
(*   packages/store/src/day-boundary.ts        when a day and a week begin *)
(*   packages/store/src/queries/scheduler.ts   snoozes and reminders       *)
(*   apps/desktop/electron/rollover.ts         applyActivity               *)
(*   apps/desktop/electron/scheduler.ts        tick                        *)
(*   apps/desktop/electron/ipc/threads.ts      what the keys call          *)
(*                                                                         *)
(* A unit of time is long compared to the hour an activity may be late and *)
(* to the ten seconds of a tick.  Of a thread's messages there are the     *)
(* date of the newest inbound one and of the newest of all.  How a label   *)
(* change travels to Gmail is in Outbox and LabelSync; here it is done.    *)
(* The log of clears feeds a counter and nothing else, and is left out.    *)
(***************************************************************************)
EXTENDS Integers

CONSTANTS
  Threads,
  Day,       \* A day, in units.
  Four,      \* 4:00, in units after midnight.
  Gap,       \* DAY_GAP_MS.
  Week,      \* WEEK_MS, and the length of a calendar week.
  Waits,     \* How far ahead a snooze or a reminder is set.
  First,     \* The time at which the program is first started.
  MaxClock,  \* Bound: the last moment of a behaviour.
  MaxBack,   \* Bound: how far the clock is ever set back.
  MaxMoves,  \* Bound: keys pressed and changes made by Gmail or the classifier.
  MaxGone    \* Bound: threads whose last message is deleted in Gmail.

QueuesAssumption ==
  /\ Day \in Nat \ {0} /\ Four \in 0 .. Day - 1 /\ Gap \in Nat \ {0}
  /\ Week \in Nat \ {0} /\ Waits \subseteq Nat \ {0}
  /\ First \in Nat /\ MaxClock \in Nat /\ First <= MaxClock /\ MaxBack \in Nat /\ MaxBack + 1 < Week
  /\ First > Week + Day + MaxBack + 1
  /\ MaxMoves \in Nat /\ MaxGone \in Nat

VARIABLES
  clock,      \* Date.now().
  peak,       \* History: the greatest clock there was.
  dayStart, weekStart, lastActive,  \* The settings dayStartAt, weekStartAt, lastActiveAt.
  here,       \* here[t]: is there a row of threads?
  mail,       \* mail[t]: last_inbound_at, 0 is null.
  last,       \* last[t]: last_message_at.
  inbox,      \* inbox[t]: in_inbox.
  junk,       \* junk[t]: TRASH or SPAM.
  important,  \* important[t]: classifications.split = 'important'.
  item,       \* item[t]: the row of queue_items: queue and added_at.
  snooze,     \* snooze[t]: wake_at of the pending snooze, or 0.
  reminder,   \* reminder[t]: the pending reminder: when it is due and what it looks behind.
  fired,      \* fired[t]: resolved_at of the latest fired reminder, and what it looked behind.
  sendDue,    \* Is a message due to be released?
  moves, gone \* Counters.

days == <<dayStart, weekStart, lastActive>>
row == <<here, mail, last, inbox, junk, important>>
vars == <<clock, peak, dayStart, weekStart, lastActive, here, mail, last, inbox, junk, important,
          item, snooze, reminder, fired, sendDue, moves, gone>>

NoItem == [queue |-> "unset", at |-> 0]
NoReminder == [due |-> 0, since |-> 0]
Later(a, b) == IF a > b THEN a ELSE b

-----------------------------------------------------------------------------
(* Days and weeks. *)

(* The most recent 4:00, and the most recent first 4:00 of a week.         *)
DayBoundaryBefore(t) == t - ((t - Four) % Day)
WeekBoundaryBefore(t) == t - ((t - Four) % Week)
SameDate(s, t) == s \div Day = t \div Day

GapAcrossDate(now) == now - lastActive >= Gap /\ ~SameDate(now, lastActive)
CrossedFour(now) == lastActive < DayBoundaryBefore(now)
NewDay(now) == GapAcrossDate(now) \/ CrossedFour(now)

NewWeek(now) == lastActive < WeekBoundaryBefore(now)
NextDayStart == lastActive

-----------------------------------------------------------------------------
(* The queue a thread is in. *)

Asleep(t) == snooze[t] # 0

(* Automatic members of Daily 0: important mail newer than the day. *)
Automatic(t, start) ==
  /\ inbox[t] /\ important[t] /\ mail[t] > start
  /\ item[t].queue = "unset" \/ item[t].at < mail[t]

(* effectiveQueueSql *)
QueueAt(t, start) ==
  IF ~here[t] \/ junk[t] \/ Asleep(t) THEN "no"
  ELSE IF item[t].queue \in {"daily", "weekly", "later"} THEN item[t].queue
  ELSE IF Automatic(t, start) THEN "daily" ELSE "no"

Queue(t) == QueueAt(t, dayStart)

-----------------------------------------------------------------------------

(* The program has been started for the first time, which is the first     *)
(* activity it records: it opens a day and a week, with nothing to move.   *)
(* The first backfill has brought some of the threads, as important mail.  *)
Init ==
  /\ clock = First /\ peak = First
  /\ dayStart = DayBoundaryBefore(First)
  /\ weekStart = WeekBoundaryBefore(First)
  /\ lastActive = First
  /\ here \in [Threads -> BOOLEAN] /\ inbox = here /\ important = here
  /\ mail = [t \in Threads |-> IF here[t] THEN First ELSE 0] /\ last = mail
  /\ junk = [t \in Threads |-> FALSE]
  /\ item = [t \in Threads |-> NoItem]
  /\ snooze = [t \in Threads |-> 0]
  /\ reminder = [t \in Threads |-> NoReminder]
  /\ fired = [t \in Threads |-> [at |-> 0, since |-> 0]]
  /\ sendDue = FALSE /\ moves = 0 /\ gone = 0

Move == moves < MaxMoves /\ moves' = moves + 1

(* setQueue *)
SetQueue(t, queue, now) == item' = [item EXCEPT ![t] = [queue |-> queue, at |-> now]]

-----------------------------------------------------------------------------
(* Keys.  mutate refuses a thread that is no longer in the store.          *)

(* toggleQueue: D and W. *)
ToggleQueue(t, queue) ==
  /\ here[t] /\ Move
  /\ SetQueue(t, IF Queue(t) = queue THEN "none" ELSE queue, clock)
  /\ UNCHANGED <<clock, peak, days, row, snooze, reminder, fired, sendDue, gone>>

(* archive, trash: E and #.  Both take the thread out of its queue; neither *)
(* looks at a snooze or a reminder.                                         *)
Archive(t, toTrash) ==
  /\ here[t] /\ Move
  /\ item' = [item EXCEPT ![t] = NoItem]
  /\ inbox' = [inbox EXCEPT ![t] = FALSE]
  /\ junk' = [junk EXCEPT ![t] = @ \/ toTrash]
  /\ UNCHANGED <<clock, peak, days, here, mail, last, important, snooze, reminder, fired, sendDue, gone>>

(* moveToInbox *)
MoveToInbox(t) ==
  /\ here[t] /\ ~junk[t] /\ Move
  /\ inbox' = [inbox EXCEPT ![t] = TRUE]
  /\ UNCHANGED <<clock, peak, days, here, mail, last, junk, important, item, snooze, reminder, fired, sendDue, gone>>

(* createSnooze: H. *)
Snooze(t, wait) ==
  /\ here[t] /\ Move
  /\ clock + wait <= MaxClock
  /\ snooze' = [snooze EXCEPT ![t] = clock + wait]
  /\ inbox' = [inbox EXCEPT ![t] = FALSE]
  /\ item' = [item EXCEPT ![t] = NoItem]
  /\ UNCHANGED <<clock, peak, days, here, mail, last, junk, important, reminder, fired, sendDue, gone>>

(* threads:unsnooze, cancelSnooze: the undo of H.  The queue the snooze    *)
(* took the thread out of is not put back.                                 *)
Unsnooze(t) ==
  /\ here[t] /\ Asleep(t)
  /\ snooze' = [snooze EXCEPT ![t] = 0]
  /\ inbox' = [inbox EXCEPT ![t] = ~junk[t]]
  /\ UNCHANGED <<clock, peak, days, here, mail, last, junk, important, item, reminder, fired, sendDue, moves, gone>>

(* threads:remind: on the last message there is, in place of any other.    *)
Remind(t, wait) ==
  /\ here[t] /\ Move
  /\ clock + wait <= MaxClock
  /\ reminder' = [reminder EXCEPT ![t] = [due |-> clock + wait, since |-> last[t]]]
  /\ UNCHANGED <<clock, peak, days, row, item, snooze, fired, sendDue, gone>>

(* A message is queued, to go out with the tick. *)
QueueSend ==
  /\ ~sendDue /\ Move
  /\ sendDue' = TRUE
  /\ UNCHANGED <<clock, peak, days, row, item, snooze, reminder, fired, gone>>

-----------------------------------------------------------------------------
(* Gmail and the classifier, by way of the sync. *)

(* A message dated d lands in the thread, at once or late.  recomputeThread *)
(* keeps the newest dates and takes the thread out of the junk.             *)
Land(t, d, inbound) ==
  /\ Move
  /\ d \in 1 .. clock
  /\ here' = [here EXCEPT ![t] = TRUE]
  /\ mail' = [mail EXCEPT ![t] = IF inbound THEN Later(@, d) ELSE @]
  /\ last' = [last EXCEPT ![t] = Later(@, d)]
  /\ inbox' = [inbox EXCEPT ![t] = @ \/ inbound]
  /\ junk' = [junk EXCEPT ![t] = FALSE]
  /\ UNCHANGED <<clock, peak, days, important, item, snooze, reminder, fired, sendDue, gone>>

(* Labels changed in Gmail: done, back in the inbox, or spam. *)
Relabel(t) ==
  /\ here[t] /\ Move
  /\ \E i, j \in BOOLEAN :
       /\ <<i, j>> # <<inbox[t], junk[t]>> /\ ~(i /\ j)
       /\ inbox' = [inbox EXCEPT ![t] = i]
       /\ junk' = [junk EXCEPT ![t] = j]
  /\ UNCHANGED <<clock, peak, days, here, mail, last, important, item, snooze, reminder, fired, sendDue, gone>>

(* A verdict or a re-file. *)
File(t) ==
  /\ here[t] /\ Move
  /\ important' = [important EXCEPT ![t] = ~@]
  /\ UNCHANGED <<clock, peak, days, here, mail, last, inbox, junk, item, snooze, reminder, fired, sendDue, gone>>

(* The last message of a thread is deleted: recomputeThread deletes the    *)
(* row, and the rows that refer to it go with it.  Snoozes and reminders   *)
(* refer to nothing and stay.                                              *)
Vanish(t) ==
  /\ here[t]
  /\ gone < MaxGone /\ gone' = gone + 1
  /\ here' = [here EXCEPT ![t] = FALSE]
  /\ mail' = [mail EXCEPT ![t] = 0] /\ last' = [last EXCEPT ![t] = 0]
  /\ inbox' = [inbox EXCEPT ![t] = FALSE] /\ junk' = [junk EXCEPT ![t] = FALSE]
  /\ important' = [important EXCEPT ![t] = FALSE]
  /\ item' = [item EXCEPT ![t] = NoItem]
  /\ UNCHANGED <<clock, peak, days, snooze, reminder, fired, sendDue, moves>>

-----------------------------------------------------------------------------
(* The tick. *)

(* A fault: a snooze is due at its time only. *)
FaultyDueSnoozes == {t \in Threads : snooze[t] = clock}

DueSnoozes == {t \in Threads : snooze[t] \in 1 .. clock}
DueReminders == {t \in Threads : reminder[t].due \in 1 .. clock}

(* setQueue refers to the thread: without one it throws, and the tick ends. *)
Fails(t) == ~here[t]
SnoozesFail == \E t \in DueSnoozes : Fails(t)

(* What comes before the first row that fails, in the order of due.  Rows  *)
(* due together are in the order they were made, which is not kept here.   *)
UntilFailure(rows, due) ==
  LET good == {t \in rows : ~Fails(t)}
      bad == rows \ good
  IN {s \in SUBSET good :
        \A t \in good : /\ (\A b \in bad : due[t] < due[b]) => t \in s
                        /\ t \in s => \A b \in bad : due[t] <= due[b]}

DueAt == [t \in Threads |-> reminder[t].due]

(* hasNewerInbound *)
Answered(t) == mail[t] > reminder[t].since

(* The reminders a tick gets to.  One on a thread that is gone is marked   *)
(* as fired before it fails.                                               *)
Reached ==
  LET bad == {t \in DueReminders : Fails(t)}
  IN IF bad = {} THEN {DueReminders}
     ELSE {s \cup {b} : s \in UntilFailure(DueReminders, DueAt),
                        b \in {c \in bad : \A d \in bad : DueAt[c] <= DueAt[d]}}

(* wakeSnoozes: W, then checkReminders: R, then releaseSends. *)
Tick ==
  /\ DueSnoozes # {} \/ DueReminders # {} \/ sendDue
  /\ \E W \in UntilFailure(DueSnoozes, snooze) :
     \E R \in IF SnoozesFail THEN {{}} ELSE Reached :
       LET F == {t \in R : ~Answered(t)}
           back == W \cup {t \in F : here[t]}
       IN /\ snooze' = [t \in Threads |-> IF t \in W THEN 0 ELSE snooze[t]]
          /\ reminder' = [t \in Threads |-> IF t \in R THEN NoReminder ELSE reminder[t]]
          /\ fired' = [t \in Threads |->
               IF t \in F THEN [at |-> clock, since |-> reminder[t].since] ELSE fired[t]]
          /\ inbox' = [t \in Threads |-> IF t \in back THEN ~junk[t] ELSE inbox[t]]
          /\ item' = [t \in Threads |->
               IF t \in back THEN [queue |-> "daily", at |-> clock] ELSE item[t]]
          /\ sendDue' = (sendDue /\ (SnoozesFail \/ \E t \in R : Fails(t)))
  /\ UNCHANGED <<clock, peak, days, here, mail, last, junk, important, moves, gone>>

(* applyClientReminder: a message sent into a client's thread sets a       *)
(* reminder if none is pending.  The message itself lands with the sync.   *)
ClientReminder(t, wait) ==
  /\ here[t] /\ Move
  /\ reminder[t] = NoReminder
  /\ clock + wait <= MaxClock
  /\ reminder' = [reminder EXCEPT ![t] = [due |-> clock + wait, since |-> clock]]
  /\ last' = [last EXCEPT ![t] = Later(@, clock)]
  /\ UNCHANGED <<clock, peak, days, here, mail, inbox, junk, important, item, snooze, fired, sendDue, gone>>

-----------------------------------------------------------------------------
(* Time, and the first activity after a night. *)

Advance ==
  /\ clock < MaxClock
  /\ clock' = clock + 1
  /\ peak' = Later(peak, clock')
  /\ UNCHANGED <<days, row, item, snooze, reminder, fired, sendDue, moves, gone>>

(* The clock of the machine is set back. *)
SetBack ==
  /\ peak - clock < MaxBack
  /\ clock' = clock - 1
  /\ UNCHANGED <<peak, days, row, item, snooze, reminder, fired, sendDue, moves, gone>>

DayRolls(at) == NewDay(at) /\ dayStart < NextDayStart
WeekRolls(at) == NewWeek(at) /\ weekStart < WeekBoundaryBefore(at)

(* A fault: the members are listed after the day was moved on. *)
FaultyLeftOver(t, at) == QueueAt(t, NextDayStart) = "daily"

(* What is still in Daily 0 when the day ends. *)
LeftOver(t, at) == QueueAt(t, dayStart) = "daily"

(* A week in Weekly 0 is long enough. *)
TooOld(i, at) == i.at <= at - Week

(* rolloverDay, then rolloverWeek. *)
AfterDay(t, at) ==
  IF DayRolls(at) /\ LeftOver(t, at) THEN [queue |-> "weekly", at |-> at] ELSE item[t]
AfterWeek(i, at) ==
  IF WeekRolls(at) /\ i.queue = "weekly" /\ TooOld(i, at)
  THEN [queue |-> "later", at |-> at] ELSE i

(* The last activity, of those reported so far and this one. *)
Recorded(at) == Later(lastActive, at)

(* applyActivity.  What is reported may be up to an hour old.              *)
Activity ==
  \E at \in {clock - 1, clock} :
    /\ item' = [t \in Threads |-> AfterWeek(AfterDay(t, at), at)]
    /\ dayStart' = IF DayRolls(at) THEN NextDayStart ELSE dayStart
    /\ weekStart' = IF WeekRolls(at) THEN WeekBoundaryBefore(at) ELSE weekStart
    /\ lastActive' = Recorded(at)
    /\ UNCHANGED <<clock, peak, row, snooze, reminder, fired, sendDue, moves, gone>>

-----------------------------------------------------------------------------

Key ==
  \/ QueueSend
  \/ \E t \in Threads :
       \/ \E q \in {"daily", "weekly"} : ToggleQueue(t, q)
       \/ \E toTrash \in BOOLEAN : Archive(t, toTrash)
       \/ MoveToInbox(t) \/ Unsnooze(t)
       \/ \E wait \in Waits : Snooze(t, wait) \/ Remind(t, wait)

Elsewhere ==
  \E t \in Threads :
    \/ \E d \in {clock - 1, clock}, inbound \in BOOLEAN : Land(t, d, inbound)
    \/ Relabel(t) \/ File(t) \/ Vanish(t)
    \/ \E wait \in Waits : ClientReminder(t, wait)

Next == Key \/ Elsewhere \/ Tick \/ Advance \/ SetBack \/ Activity

Spec == Init /\ [][Next]_vars

(* The program stays up.  Its tick comes every ten seconds, which is often *)
(* in every unit of time; and time passes, however it is set back.         *)
FairSpec == Spec /\ SF_vars(Tick) /\ WF_vars(Advance) /\ SF_vars(Advance /\ clock' > peak)

-----------------------------------------------------------------------------
(* Properties. *)

Entry == [queue : {"unset", "none", "daily", "weekly", "later"}, at : 0 .. MaxClock]

TypeOK ==
  /\ peak \in First .. MaxClock /\ clock \in peak - MaxBack .. peak
  /\ dayStart \in 0 .. MaxClock /\ weekStart \in 0 .. MaxClock /\ lastActive \in 0 .. MaxClock
  /\ here \in [Threads -> BOOLEAN]
  /\ mail \in [Threads -> 0 .. MaxClock] /\ last \in [Threads -> 0 .. MaxClock]
  /\ inbox \in [Threads -> BOOLEAN] /\ junk \in [Threads -> BOOLEAN]
  /\ important \in [Threads -> BOOLEAN]
  /\ item \in [Threads -> Entry]
  /\ snooze \in [Threads -> 0 .. MaxClock]
  /\ reminder \in [Threads -> [due : 0 .. MaxClock, since : 0 .. MaxClock]]
  /\ fired \in [Threads -> [at : 0 .. MaxClock, since : 0 .. MaxClock]]
  /\ sendDue \in BOOLEAN
  /\ moves \in 0 .. MaxMoves /\ gone \in 0 .. MaxGone

(* Nothing stays in Weekly 0 for a second week: whenever a week has begun, *)
(* what was there a week before it is in Later (rolloverWeek), however     *)
(* late activities are reported and wherever the clock is set back to.     *)
WeeklyIsYoung ==
  \A t \in Threads : item[t].queue = "weekly" => item[t].at > weekStart - Week

(* A day and a week begin behind the last activity: an activity reported   *)
(* late, or under a clock set back, opens neither (detectBoundary).        *)
BeginsBehindActivity == dayStart <= lastActive /\ weekStart <= lastActive

(* Beginning a day or a week drops no thread out of the queues: what was   *)
(* in Daily 0 is in Weekly 0, and the rest is where it was or in Later     *)
(* (rolloverDay, rolloverWeek).                                            *)
NothingDropped ==
  [][\A t \in Threads :
       /\ dayStart' # dayStart /\ Queue(t) = "daily" => Queue(t)' = "weekly"
       /\ weekStart' # weekStart /\ Queue(t) \in {"weekly", "later"} => Queue(t)' \in {"weekly", "later"}]_vars

(* NO_REPLY_BY: does the row of the thread say that nobody replied?        *)
NoReplyShown(t) == here[t] /\ fired[t].at # 0 /\ fired[t].at >= last[t]

(* When the row begins to say so, it is true: nothing inbound is newer     *)
(* than what the reminder was set behind (checkReminders).                 *)
NoReplyIsTrue ==
  [][\A t \in Threads : fired'[t] # fired[t] /\ NoReplyShown(t)' => mail'[t] <= fired'[t].since]_vars

(* A snooze and a reminder come back, if the thread is still there: not at *)
(* a moment when a due one refers to a thread that is gone.                *)
ComesBack ==
  [](\A t \in Threads : Asleep(t) \/ reminder[t] # NoReminder => here[t])
    => \A t \in Threads : (Asleep(t) ~> ~Asleep(t)) /\ (reminder[t] # NoReminder ~> reminder[t] = NoReminder)

(* What the header of scheduler.ts says of every tick: queued sends are    *)
(* released.  A due snooze whose thread is gone throws before, for ever.   *)
SendsLeave == sendDue ~> ~sendDue

(* README: Daily 0 holds every important thread with new mail since the    *)
(* last time on mail the night before.  The first activity of the morning  *)
(* moves the mail of the night to Weekly 0.                                *)
DailyHoldsTheNight ==
  [][\A t \in Threads :
       dayStart' # dayStart /\ inbox[t] /\ important[t] /\ Queue(t) = "daily"
         /\ item[t] = NoItem /\ mail[t] > dayStart' => Queue(t)' = "daily"]_vars

=============================================================================
