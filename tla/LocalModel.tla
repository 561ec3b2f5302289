----------------------------- MODULE LocalModel -----------------------------
(***************************************************************************)
(* The AI daemon: the one llama-server process it owns, the requests that  *)
(* share it, and Claude, which answers when it cannot.                     *)
(*                                                                         *)
(*   packages/ai-core/src/local.mjs    LocalModel                          *)
(*   packages/ai-core/src/service.mjs  AiService                           *)
(*   packages/ai-core/src/claude.mjs   ClaudeRunner                        *)
(*   packages/ai-daemon/src/server.mjs main                                *)
(*                                                                         *)
(* A process is the number of its start, and so is the port it listens on. *)
(* Prompts, what makes an answer usable, Claude's own queue, cancelling and *)
(* the tasks that do not use the local model are left out.                 *)
(***************************************************************************)
EXTENDS Naturals, FiniteSets

CONSTANTS
  Fixes,       \* Requests a person waits for; they may go to Claude.
  Classifies,  \* Requests of the background.
  MaxStarts,   \* Bound: processes.
  MaxDeaths,   \* Bound: processes that die by themselves.
  MaxStops     \* Bound: how often the idle timer runs out.

Requests == Fixes \cup Classifies
Procs == 1..MaxStarts

VARIABLES
  proc,         \* A process: none, loading, up, dead (its exit not heard of yet) or gone.
  told,         \* Processes that got SIGTERM.
  child, ready, \* this.child (0 for null) and this.ready
  start,        \* starting: the step of _start and the number of its process.
  idle,         \* The idle timer is set.
  req,          \* A request: its step, its tries with the local model, the port it calls.
  interactive,  \* _interactive
  spent         \* deaths, stops

vars == <<proc, told, child, ready, start, idle, req, interactive, spent>>

NoStart == [step |-> "none", proc |-> 0]
Spends(what, most) == spent[what] < most /\ spent' = [spent EXCEPT ![what] = @ + 1]

Init ==
  /\ proc = [p \in Procs |-> "none"] /\ told = {}
  /\ child = 0 /\ ready = FALSE /\ start = NoStart /\ idle = FALSE
  /\ req = [r \in Requests |-> [step |-> "new", tries |-> 0, port |-> 0]]
  /\ interactive = 0
  /\ spent = [deaths |-> 0, stops |-> 0]

-----------------------------------------------------------------------------
(* The process. *)

Unborn == {p \in Procs : proc[p] = "none"}

(* _start, once it has a free port. *)
Spawn ==
  /\ start.step = "port" /\ Unborn # {}
  /\ \E p \in Unborn :
       /\ \A q \in Unborn : p <= q
       /\ proc' = [proc EXCEPT ![p] = "loading"]
       /\ child' = p
       /\ start' = [step |-> "poll", proc |-> p]
  /\ UNCHANGED <<told, ready, idle, req, interactive, spent>>

(* The health check: another try after half a second when there is no      *)
(* answer.                                                                 *)
Healthy ==
  /\ start.step = "poll" /\ child = start.proc /\ proc[start.proc] = "up"
  /\ start' = [start EXCEPT !.step = "heard"]
  /\ UNCHANGED <<proc, told, child, ready, idle, req, interactive, spent>>

Loaded(p) ==
  /\ proc[p] = "loading" /\ proc' = [proc EXCEPT ![p] = "up"]
  /\ UNCHANGED <<told, child, ready, start, idle, req, interactive, spent>>

Dies(p) ==
  /\ proc[p] \in {"loading", "up"}
  /\ IF p \in told THEN UNCHANGED spent ELSE Spends("deaths", MaxDeaths)
  /\ proc' = [proc EXCEPT ![p] = "dead"]
  /\ UNCHANGED <<told, child, ready, start, idle, req, interactive>>

(* A fault: any exit clears the slot. *)
FaultyOwnExit(p) == TRUE

(* "Only this child's own exit clears the slot" (local.mjs:78) *)
OwnExit(p) == child = p

Exit(p) ==
  /\ proc[p] = "dead" /\ proc' = [proc EXCEPT ![p] = "gone"]
  /\ IF OwnExit(p) THEN child' = 0 /\ ready' = FALSE ELSE UNCHANGED <<child, ready>>
  /\ UNCHANGED <<told, start, idle, req, interactive, spent>>

Stop ==
  /\ told' = told \cup ({child} \ {0})
  /\ child' = 0 /\ ready' = FALSE /\ idle' = FALSE

(* The idle timer, or the daemon's own SIGTERM. *)
IdleStop ==
  /\ idle /\ Spends("stops", MaxStops)
  /\ Stop
  /\ UNCHANGED <<proc, start, req, interactive>>

-----------------------------------------------------------------------------
(* The requests.  Each helper says what becomes of a request. *)

Settled(q) == [q EXCEPT !.step = "settled"]

Called(q, port) == [q EXCEPT !.step = "call", !.port = port]

(* A fix that fails here is Claude's, and the second time nobody's. *)
Unanswered(r, q) == IF r \in Fixes /\ q.tries = 1 THEN [q EXCEPT !.step = "claude"] ELSE Settled(q)

(* ensure: the process is there, or is being started, or has to be. *)
Ensured(q) ==
  LET tried == [q EXCEPT !.tries = @ + 1]
  IN  IF ready THEN Called(tried, start.proc) ELSE [tried EXCEPT !.step = "waits"]
Started == IF ~ready /\ start.step = "none" THEN [start EXCEPT !.step = "port"] ELSE start

(* A fault: only an answer leaves the gate. *)
FaultyLeaving(new) == {r \in Fixes : req[r].step = "call" /\ new[r].step = "settled"}

(* complete: whoever is settled leaves, answered or not. *)
Leaving(new) == {r \in Fixes : req[r].step # "settled" /\ new[r].step = "settled"}

Become(new) ==
  /\ req' = new
  /\ interactive' = interactive - Cardinality(Leaving(new))

(* _enterInteractive, _routeLocal *)
AskFix(r) ==
  /\ req[r].step = "new"
  /\ req' = [req EXCEPT ![r] = Ensured(@)] /\ start' = Started
  /\ interactive' = interactive + 1
  /\ UNCHANGED <<proc, told, child, ready, idle, spent>>

(* _awaitQuiet: while somebody waits for a fix, the background does not    *)
(* ask.                                                                    *)
AskClassify(r) ==
  /\ req[r].step = "new" /\ interactive = 0
  /\ req' = [req EXCEPT ![r] = Ensured(@)] /\ start' = Started
  /\ UNCHANGED <<proc, told, child, ready, idle, interactive, spent>>

(* The start ends, for everybody who waits. *)
Ready ==
  /\ start.step = "heard"
  /\ ready' = TRUE /\ idle' = TRUE
  /\ start' = [start EXCEPT !.step = "none"]
  /\ Become([r \in Requests |-> IF req[r].step = "waits" THEN Called(req[r], start.proc) ELSE req[r]])
  /\ UNCHANGED <<proc, told, child, spent>>

NotReady ==
  /\ start' = [start EXCEPT !.step = "none"]
  /\ Become([r \in Requests |-> IF req[r].step = "waits" THEN Unanswered(r, req[r]) ELSE req[r]])

DiedInStart ==
  /\ start.step = "poll" /\ child # start.proc
  /\ NotReady
  /\ UNCHANGED <<proc, told, child, ready, idle, spent>>

(* Two minutes. *)
StartTimesOut ==
  /\ start.step = "poll" /\ child = start.proc
  /\ NotReady /\ Stop
  /\ UNCHANGED <<proc, spent>>

(* The answer; a timer, a process that is gone, an answer that will not do *)
(* come to the same.                                                       *)
Answers(r, good) ==
  /\ req[r].step = "call"
  /\ good => proc[req[r].port] = "up"
  /\ idle' = TRUE
  /\ Become([req EXCEPT ![r] = IF good THEN Settled(@) ELSE Unanswered(r, @)])
  /\ UNCHANGED <<proc, told, child, ready, start, spent>>

(* Claude answers, or the local model gets the last word. *)
ClaudeAnswers(r, good) ==
  /\ req[r].step = "claude"
  /\ IF good
     THEN Become([req EXCEPT ![r] = Settled(@)]) /\ UNCHANGED start
     ELSE Become([req EXCEPT ![r] = Ensured(@)]) /\ start' = Started
  /\ UNCHANGED <<proc, told, child, ready, idle, spent>>

Next ==
  \/ Spawn \/ Healthy \/ Ready \/ DiedInStart \/ StartTimesOut \/ IdleStop
  \/ \E p \in Procs : Loaded(p) \/ Dies(p) \/ Exit(p)
  \/ \E r \in Fixes : AskFix(r)
  \/ \E r \in Classifies : AskClassify(r)
  \/ \E r \in Requests, good \in BOOLEAN : Answers(r, good) \/ ClaudeAnswers(r, good)

IsAnswered(r) == \E good \in BOOLEAN : Answers(r, good) \/ ClaudeAnswers(r, good)
Starting == Spawn \/ Ready \/ DiedInStart \/ StartTimesOut

(* Every start and every request has its timer. *)
Fairness ==
  /\ WF_vars(Starting)
  /\ \A r \in Classifies : WF_vars(AskClassify(r))
  /\ \A r \in Requests : WF_vars(IsAnswered(r))

Spec == Init /\ [][Next]_vars /\ Fairness

-----------------------------------------------------------------------------
(* Properties. *)

(* Every process that runs and was not told to stop is the one the daemon  *)
(* owns ("Four were found still listening on 2026-10-08, the oldest 24     *)
(* days old", local.mjs:81), though an old one exits while the next is     *)
(* being started, dies during its start, or was just stopped.              *)
Owned == \A p \in Procs : proc[p] \in {"loading", "up"} /\ p \notin told => child = p

(* Everybody gets an answer or an error, and the background, which waits   *)
(* for them, its turn.                                                     *)
Answered ==
  /\ \A r \in Fixes : req[r].step # "new" ~> req[r].step = "settled"
  /\ \A r \in Classifies : <>(req[r].step = "settled")

(* What is ready has a process to answer: "ready" is cleared with it       *)
(* (local.mjs:82).                                                         *)
ReadyHasChild == ready => child # 0
=============================================================================
