---------------------------- MODULE ClaudeLogin -----------------------------
(***************************************************************************)
(* Signing the Claude Code CLI in from inside the app                      *)
(* (apps/desktop/electron/ai/signin.ts, ClaudeSignIn, and the handlers of  *)
(* ipc/ai.ts).  A sign-in is the number of its CLI.  The link and the code *)
(* that is pasted are left out: they only end the CLI.                     *)
(***************************************************************************)
EXTENDS Naturals, FiniteSets

CONSTANT MaxStarts  \* Bound: sign-ins.

Logins == 1..MaxStarts

VARIABLES
  cli,       \* A CLI: none, runs, killed (its exit not heard of yet), gone.
  child,     \* this.child, 0 for null.
  timer,     \* this.timer: whose, 0 for null.
  timers,    \* The timers that are set.
  shown,     \* What the app was told last.
  overtaken  \* History: a sign-in began before a killed one's exit was heard of.

vars == <<cli, child, timer, timers, shown, overtaken>>

Init ==
  /\ cli = [n \in Logins |-> "none"] /\ child = 0 /\ timer = 0 /\ timers = {}
  /\ shown = "idle" /\ overtaken = FALSE

(* start *)
Start(n) ==
  /\ child = 0 /\ cli[n] = "none" /\ \A m \in Logins : m < n => cli[m] # "none"
  /\ cli' = [cli EXCEPT ![n] = "runs"]
  /\ child' = n /\ timer' = n /\ timers' = timers \cup {n}
  /\ overtaken' = (overtaken \/ \E m \in Logins : cli[m] = "killed")
  /\ UNCHANGED shown

(* The link is printed. *)
Prints(n) ==
  /\ cli[n] = "runs" /\ shown' = "waiting"
  /\ UNCHANGED <<cli, child, timer, timers, overtaken>>

(* A fault: the killed CLI goes on. *)
FaultyKilled == cli

Killed == IF child = 0 THEN cli ELSE [cli EXCEPT ![child] = "killed"]

(* cancel: asked for, or its time is over. *)
Cancel ==
  /\ timers' = timers \ {timer} /\ timer' = 0
  /\ cli' = Killed /\ child' = 0 /\ shown' = "idle"
  /\ UNCHANGED overtaken

TenMinutes == \E n \in timers :
  /\ timers' = timers \ {n, timer} /\ timer' = 0
  /\ cli' = Killed /\ child' = 0 /\ shown' = "idle"
  /\ UNCHANGED overtaken

(* exit: whichever CLI it is, the slot and the timer are emptied. *)
Exits(n) == \E ok \in BOOLEAN :
  /\ \/ cli[n] = "runs"
     \/ cli[n] = "killed" /\ ~ok
  /\ cli' = [cli EXCEPT ![n] = "gone"]
  /\ child' = 0 /\ timers' = timers \ {timer} /\ timer' = 0
  /\ shown' = IF ok THEN "done" ELSE "failed"
  /\ UNCHANGED overtaken

(* error: there is no such program; the timer stays. *)
NoProgram(n) ==
  /\ cli[n] = "runs" /\ cli' = [cli EXCEPT ![n] = "gone"]
  /\ child' = 0 /\ shown' = "failed"
  /\ UNCHANGED <<timer, timers, overtaken>>

Next ==
  \/ Cancel \/ TenMinutes
  \/ \E n \in Logins : Start(n) \/ Prints(n) \/ Exits(n) \/ NoProgram(n)

Spec == Init /\ [][Next]_vars

-----------------------------------------------------------------------------
(* Properties. *)

(* "One sign-in at a time" (signin.ts:28): the only CLI that runs is the   *)
(* one the pasted code goes to and a cancel kills.  Not so once a sign-in  *)
(* begins before the exit of the one cancelled before it is heard of: that *)
(* exit empties the slot of the new one.                                   *)
OneLogin == ~overtaken => \A n \in Logins : cli[n] = "runs" => child = n
=============================================================================
