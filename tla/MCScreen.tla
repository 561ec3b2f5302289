------------------------------ MODULE MCScreen ------------------------------
(***************************************************************************)
(* Where a thread is, for TLC: the list on screen, with two threads, one   *)
(* of them found by a search, and the queues of the store, with one thread *)
(* and a day of two units, a week of two days.  They share no state here   *)
(* (of the views the list shows two, and none of the queues), so a         *)
(* behaviour is one of one of them, the other standing still: part says    *)
(* whose.                                                                  *)
(***************************************************************************)
EXTENDS Screen

CONSTANTS t1, t2, Queued, Day, Four, Gap, Week, Waits, First, MaxClock, MaxBack, MaxMoves, MaxGone

VARIABLES
  part,
  clock, peak, dayStart, weekStart, lastActive, here, mail, last, inbox, junk, important,
  item, snooze, reminder, fired, sendDue, moves, gone

screen == vars
queues == <<clock, peak, dayStart, weekStart, lastActive, here, mail, last, inbox, junk, important,
            item, snooze, reminder, fired, sendDue, moves, gone>>

Days == INSTANCE Queues WITH Threads <- Queued

ASSUME DaysAssumption == Days!QueuesAssumption
-----------------------------------------------------------------------------
(* What stands still does so in one state. *)
AllInit ==
  /\ Init /\ Days!Init
  /\ \/ part = "screen" /\ \A t \in Queued : here[t]
     \/ part = "queues" /\ \A t \in Threads : store[t].at = "inbox"

AllNext ==
  \/ part = "screen" /\ Next /\ UNCHANGED <<part, queues>>
  \/ part = "queues" /\ Days!Next /\ UNCHANGED <<part, screen>>

AllSpec == AllInit /\ [][AllNext]_<<part, screen, queues>>

-----------------------------------------------------------------------------
(* Queues: beginning a day or a week drops no thread out of the queues. *)
NothingDropped == Days!NothingDropped
=============================================================================
