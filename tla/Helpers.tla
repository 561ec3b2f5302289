------------------------------- MODULE Helpers ------------------------------
(***************************************************************************)
(* The helpers a packed app brings along: the AI daemon as a LaunchAgent   *)
(* and the text tool in /Applications.                                     *)
(*                                                                         *)
(*   apps/desktop/electron/helpers/plan.ts     what to do                  *)
(*   apps/desktop/electron/helpers/install.ts  doing it                    *)
(*   apps/desktop/electron/ipc/onboarding.ts   the Install button          *)
(*                                                                         *)
(* A version stands for the hash of what the app carries, a place for the  *)
(* paths in a LaunchAgent.  launchd and the disk are external.  The other  *)
(* files (log, states of the button) are left out.                         *)
(***************************************************************************)
EXTENDS Naturals

CONSTANTS
  MaxVersion,  \* Bound: versions of the app.
  MaxFails,    \* Bound: launchctl calls and copies that fail.
  MaxCrashes   \* Bound: how often the app goes away in the middle.

Versions == 1..MaxVersion
Places == {1, 2}
Missing == 0
Other == 3
Actors == {"launch", "button"}

VARIABLES
  bundled, place,  \* The app: its version, where it is.
  agent,           \* The daemon's LaunchAgent on disk: Missing, Other or a place.
  loaded, daemon,  \* launchd: what it loaded (Missing, Other, a place), the version that runs (0 for none).
  started,         \* daemonStarted in helpers-state.json, 0 for null.
  app,             \* The text tool: the version of its executable, and whether all of it is there.
  tool,            \* The text tool runs.
  step,            \* Where each actor is.
  spent,           \* fails, crashes
  seen             \* History: an install was there, two installs met, a crash hit the swap.

vars == <<bundled, place, agent, loaded, daemon, started, app, tool, step, spent, seen>>
machine == <<bundled, place>>
ai == <<agent, loaded, daemon, started>>
text == <<app, tool>>

Nothing == [ver |-> 0, whole |-> FALSE]

Init ==
  /\ bundled = 1 /\ place = 1
  /\ agent = Missing /\ loaded = Missing /\ daemon = 0 /\ started = 0
  /\ app \in {Nothing, [ver |-> 1, whole |-> TRUE]} /\ tool = (app # Nothing)
  /\ step = [a \in Actors |-> "off"]
  /\ spent = [fails |-> 0, crashes |-> 0]
  /\ seen = [installed |-> app # Nothing, met |-> FALSE, swap |-> FALSE]

Goes(a, s) == step' = [step EXCEPT ![a] = s]
Fails == spent.fails < MaxFails /\ spent' = [spent EXCEPT !.fails = @ + 1]
Succeeds == UNCHANGED spent
CodeAt(p) == IF p = place THEN bundled ELSE 0

-----------------------------------------------------------------------------
(* The daemon, at launch. *)

(* daemonAction, with agentOwner *)
DaemonAction ==
  CASE agent = Other -> "leave"
    [] agent \in {Missing} \cup Places /\ agent # place -> "write"
    [] agent = place /\ started = bundled -> "keep"
    [] agent = place /\ started # bundled -> "restart"

(* textNeedsUpdate, or nothing left to do. *)
AfterDaemon == IF app.ver \notin {0, bundled} THEN "stop" ELSE "off"

Launch ==
  /\ step["launch"] = "off" /\ step["button"] = "off"
  /\ Goes("launch", IF DaemonAction = "leave" THEN AfterDaemon ELSE DaemonAction)
  /\ UNCHANGED <<machine, ai, text, spent, seen>>

(* reload: out, and the file is written. *)
Write ==
  /\ step["launch"] = "write" /\ Goes("launch", "bootstrap")
  /\ loaded' = Missing /\ daemon' = 0 /\ agent' = place
  /\ UNCHANGED <<machine, started, text, spent, seen>>

Bootstrap ==
  /\ step["launch"] = "bootstrap"
  /\ \/ /\ Succeeds /\ Goes("launch", "restart")
        /\ loaded' = agent /\ daemon' = CodeAt(agent)
     \/ /\ Fails /\ Goes("launch", AfterDaemon)
        /\ UNCHANGED <<loaded, daemon>>
  /\ UNCHANGED <<machine, agent, started, text, seen>>

(* A fault: the state is written whatever launchctl says. *)
FaultyRemembered(ok) == bundled

(* The state is written when the daemon runs the code it names. *)
Remembered(ok) == IF ok THEN bundled ELSE started

(* kickstart -k: out of the question for a label that is not loaded. *)
Restart == \E ok \in BOOLEAN :
  /\ step["launch"] = "restart" /\ Goes("launch", AfterDaemon)
  /\ ok => loaded # Missing
  /\ IF ok \/ loaded = Missing THEN Succeeds ELSE Fails
  /\ daemon' = IF ok THEN CodeAt(loaded) ELSE daemon
  /\ started' = Remembered(ok)
  /\ UNCHANGED <<machine, agent, loaded, text, seen>>

Keep ==
  /\ step["launch"] = "keep" /\ Goes("launch", AfterDaemon)
  /\ daemon' = IF loaded # Missing /\ daemon = 0 THEN CodeAt(loaded) ELSE daemon
  /\ UNCHANGED <<machine, agent, loaded, started, text, spent, seen>>

-----------------------------------------------------------------------------
(* The text tool: installText, at launch or by the button. *)

Press ==
  /\ step["button"] = "off" /\ Goes("button", "stop")
  /\ UNCHANGED <<machine, ai, text, spent, seen>>

Copying(a) == step[a] = "copy"

(* The running copy is stopped, what is left of an earlier copy is removed *)
(* and the copy begins.                                                    *)
Stop(a) ==
  /\ step[a] = "stop" /\ Goes(a, "copy")
  /\ tool' = FALSE
  /\ seen' = [seen EXCEPT !.met = @ \/ \E b \in Actors \ {a} : step[b] \in {"copy", "boot"}]
  /\ UNCHANGED <<machine, ai, app, spent>>

CopyFails(a) ==
  /\ Copying(a) /\ Fails /\ Goes(a, "off")
  /\ UNCHANGED <<machine, ai, text, seen>>

(* What the copy beside it leaves: all of it, unless another one was at    *)
(* the same place.                                                         *)
Copies == IF seen.met
          THEN {Nothing} \cup [ver : {0, bundled}, whole : BOOLEAN]
          ELSE {[ver |-> bundled, whole |-> TRUE]}

(* A fault: the copy goes straight to where the tool is. *)
FaultySwapped(c) == {c, [c EXCEPT !.whole = FALSE]}

(* The old one is removed and the new one takes its name. *)
Swapped(c) == {c}

Swap(a) == \E c \in Copies : \E new \in Swapped(c) :
  /\ Copying(a) /\ Succeeds
  /\ app' = new
  /\ Goes(a, IF c = Nothing THEN "off" ELSE "boot")
  /\ seen' = [seen EXCEPT !.installed = TRUE]
  /\ UNCHANGED <<machine, ai, tool>>

Boot(a) ==
  /\ step[a] = "boot" /\ Goes(a, "off")
  /\ \/ Succeeds /\ tool' = TRUE
     \/ Fails /\ UNCHANGED tool
  /\ UNCHANGED <<machine, ai, app, seen>>

-----------------------------------------------------------------------------
(* The machine. *)

Off == \A a \in Actors : step[a] = "off"
Crashes == spent.crashes < MaxCrashes /\ spent' = [spent EXCEPT !.crashes = @ + 1]

(* The app quits or crashes. *)
Crash ==
  /\ ~Off /\ Crashes
  /\ step' = [a \in Actors |-> "off"]
  /\ UNCHANGED <<machine, ai, text, seen>>

(* Between the removal and the rename. *)
CrashInSwap == \E a \in Actors :
  /\ Copying(a) /\ Crashes
  /\ step' = [b \in Actors |-> "off"]
  /\ app' = Nothing
  /\ seen' = [seen EXCEPT !.swap = TRUE]
  /\ UNCHANGED <<machine, ai, tool>>

UpdateApp ==
  /\ Off /\ bundled < MaxVersion
  /\ bundled' = bundled + 1
  /\ UNCHANGED <<place, ai, text, step, spent, seen>>

MoveApp ==
  /\ Off /\ place' = 3 - place
  /\ UNCHANGED <<bundled, ai, text, step, spent, seen>>

(* packages/ai-daemon/install.sh *)
DeveloperInstalls ==
  /\ Off /\ agent' = Other /\ loaded' = Other /\ daemon' = 0
  /\ UNCHANGED <<machine, started, text, step, spent, seen>>

(* launchd reads the file again. *)
Login ==
  /\ Off /\ loaded' = agent /\ daemon' = CodeAt(agent)
  /\ UNCHANGED <<machine, agent, started, text, step, spent, seen>>

(* A clean exit stays, a crash is restarted. *)
DaemonEnds ==
  /\ daemon # 0 /\ daemon' \in {0, CodeAt(loaded)}
  /\ UNCHANGED <<machine, agent, loaded, started, text, step, spent, seen>>

Next ==
  \/ Launch \/ Write \/ Bootstrap \/ Restart \/ Keep \/ Press
  \/ \E a \in Actors : Stop(a) \/ CopyFails(a) \/ Swap(a) \/ Boot(a)
  \/ Crash \/ CrashInSwap \/ UpdateApp \/ MoveApp \/ DeveloperInstalls \/ Login \/ DaemonEnds

Spec == Init /\ [][Next]_vars

-----------------------------------------------------------------------------
(* Properties. *)

(* A daemon the launch leaves running is the one this app carries          *)
(* (plan.ts:139-142), though launchctl fails, the app goes away half way   *)
(* or is updated while an old one runs.                                    *)
KeptIsCurrent == DaemonAction = "keep" => daemon \in {0, bundled}

(* What is in /Applications is all of the tool, and stays, and what runs   *)
(* is there: a copy is made beside it first.  Not so when the update at    *)
(* launch meets the button (they copy to the same place), or when the app  *)
(* goes away between the removal and the rename.                           *)
InstallHolds ==
  ~seen.met => /\ app # Nothing => app.whole
               /\ (seen.installed /\ ~seen.swap) \/ tool => app # Nothing
=============================================================================
