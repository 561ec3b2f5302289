------------------------------ MODULE AiConfig ------------------------------
(***************************************************************************)
(* The config file the app shares with the AI daemon.                      *)
(*                                                                         *)
(*   apps/desktop/electron/onboarding/environment.ts, ipc/onboarding.ts    *)
(*   apps/desktop/electron/ai/client.ts              AiClient              *)
(*   packages/ai-daemon/src/config.mjs, server.mjs   the daemon's start    *)
(*                                                                         *)
(* The file holds the credentials that are stored, the token the daemon    *)
(* asks for (a number, and its port with it) and where the model is.       *)
(* A write of the app is one turn of its event loop: what can come in      *)
(* between its reading and its writing is the other process.               *)
(***************************************************************************)
EXTENDS Naturals

CONSTANTS
  MaxPatches, \* Bound: writes of the app to the config file.
  MaxStarts,  \* Bound: starts of the daemon.
  MaxQuits    \* Bound: how often the app quits.

Choices == {"claude-code", "api-key", "local"}

VARIABLES
  file,     \* The config file: there or not, secrets, token, model.
  patch,    \* What the app is about to write, having read the file.
  chosen,   \* History: the choice stored last.
  daemon,   \* The daemon: its step and the config it has read.
  cached,   \* AiClient.config: the token, 0 for null.
  met,      \* History: one wrote while the other was between its reading and its writing.
  patches, starts, quits

vars == <<file, patch, chosen, daemon, cached, met, patches, starts, quits>>
bounds == <<patches, starts, quits>>

NoFile == [there |-> FALSE, secrets |-> {}, token |-> 0, model |-> FALSE]
NoPatch == [step |-> "none", file |-> NoFile, chose |-> "local"]
NoDaemon == [step |-> "off", file |-> NoFile]

Init ==
  /\ file = NoFile /\ patch = NoPatch /\ chosen = "local" /\ daemon = NoDaemon /\ cached = 0
  /\ met = FALSE /\ patches = 0 /\ starts = 0 /\ quits = 0

-----------------------------------------------------------------------------
(* Somebody else is between his reading and his writing. *)
Meets(other) == met \/ other \notin {"none", "off", "up"}

Secret(c) == {c} \ {"local"}

(* A fault: the other secret stays in the file. *)
FaultyChoice(c) == [file EXCEPT !.there = TRUE, !.secrets = @ \cup Secret(c)]

(* applyAiChoice: one is stored, the other cleared, or both. *)
Choice(c) == [file EXCEPT !.there = TRUE, !.secrets = Secret(c)]

(* patchDaemonConfig reads ... *)
Patch(c) ==
  /\ patch.step = "none" /\ patches < MaxPatches /\ patches' = patches + 1
  /\ patch' = [step |-> "write",
       file |-> IF c = "model" THEN [file EXCEPT !.there = TRUE, !.model = TRUE] ELSE Choice(c),
       chose |-> IF c = "model" THEN chosen ELSE c]
  /\ met' = Meets(daemon.step)
  /\ UNCHANGED <<file, chosen, daemon, cached, starts, quits>>

(* ... and renames its own file over it. *)
PatchWrites ==
  /\ patch.step = "write"
  /\ file' = patch.file /\ chosen' = patch.chose /\ patch' = NoPatch
  /\ UNCHANGED <<daemon, cached, met, bounds>>

(* loadConfig: a file without a token gets one, a new port is asked for. *)
DaemonStarts ==
  /\ daemon.step = "off" /\ starts < MaxStarts /\ starts' = starts + 1
  /\ daemon' = [step |-> "listens", file |->
       [file EXCEPT !.there = TRUE, !.token = IF file.token = 0 THEN starts' ELSE @]]
  /\ met' = Meets(patch.step)
  /\ UNCHANGED <<file, patch, chosen, cached, patches, quits>>

(* saveConfig: all of what it read, and its port. *)
DaemonSaves ==
  /\ daemon.step = "listens"
  /\ file' = daemon.file /\ daemon' = [daemon EXCEPT !.step = "up"]
  /\ met' = Meets(patch.step)
  /\ UNCHANGED <<patch, chosen, cached, bounds>>

DaemonEnds ==
  /\ daemon.step # "off" /\ daemon' = NoDaemon
  /\ UNCHANGED <<file, patch, chosen, cached, met, bounds>>

(* A call of AiClient: a refusal, or a token that is not the daemon's, and *)
(* the file is read again by the next one.                                 *)
Token == IF cached = 0 THEN file.token ELSE cached
Call ==
  /\ cached' = IF daemon.step = "up" /\ Token = daemon.file.token THEN Token ELSE 0
  /\ cached' # cached
  /\ UNCHANGED <<file, patch, chosen, daemon, met, bounds>>

(* aiInfo reads the file again before it asks. *)
Reload ==
  /\ cached # file.token /\ cached' = file.token
  /\ UNCHANGED <<file, patch, chosen, daemon, met, bounds>>

(* The app quits and is started again. *)
Relaunch ==
  /\ quits < MaxQuits /\ quits' = quits + 1
  /\ patch' = NoPatch /\ cached' = 0
  /\ UNCHANGED <<file, chosen, daemon, met, patches, starts>>

Next ==
  \/ \E c \in Choices \cup {"model"} : Patch(c)
  \/ PatchWrites \/ DaemonStarts \/ DaemonSaves \/ DaemonEnds \/ Call \/ Reload \/ Relaunch

Spec == Init /\ [][Next]_vars

-----------------------------------------------------------------------------
(* Properties. *)

(* The choice stored last is what the daemon starts with, the other        *)
(* credential gone, and app and daemon agree on the token; but not when    *)
(* one writes while the other is between its reading and its writing.      *)
ChoiceHolds ==
  ~met =>
    /\ patch.step = "none" => file.secrets = Secret(chosen)
    /\ daemon.step = "up" => file.token = daemon.file.token
=============================================================================
