---------------------------- MODULE ClaudeRunner ----------------------------
(***************************************************************************)
(* Claude behind the AI daemon: who asks, the route to the local model, the *)
(* queue in front of the CLI, the chain of models and how a call is        *)
(* cancelled.                                                              *)
(*                                                                         *)
(*   packages/ai-core/src/claude.mjs       ClaudeRunner                    *)
(*   packages/ai-core/src/service.mjs      AiService                       *)
(*   packages/ai-daemon/src/server.mjs     createDaemon                    *)
(*   apps/desktop/electron/ai/client.ts    AiClient, the mail's client     *)
(*   text-tools/.../AI/AIClient.swift      AIService, the text tool's      *)
(*                                                                         *)
(* The CLI answers whatever it likes.  The process of the local model, and *)
(* who it makes wait, is in LocalModel; the prompts, what makes an answer  *)
(* usable and the login are left out.                                      *)
(***************************************************************************)
EXTENDS Naturals, Sequences, FiniteSets

CONSTANTS
  Fixes,        \* Calls of the text tool with a route: the local model first.
  Edits,        \* Calls of the text tool without one.
  Mails,        \* Calls of the mail app.
  Models,       \* How long the chain of models is.
  Concurrency,  \* How many children may run.
  MaxDeaths     \* Bound: how often the daemon dies.

Calls == Fixes \cup Edits \cup Mails

ASSUME ConcurrencyAssumption == Concurrency \in Nat \ {0}
ASSUME CallsAssumption == IsFiniteSet(Calls)

(* A fix is pinned to the model of its route, mail to its own: only an     *)
(* edit takes what the chain gives.                                        *)
OnChain == Edits

VARIABLES
  client,    \* Who asked: new, waits, runs the CLI itself (direct), ended.
  call,      \* In the daemon: step, what its child was killed for, answer.
  queue, inFlight,
  index,     \* modelIndex
  cooling,   \* retryPreferredAt: none, ahead or past
  deletes,   \* Cancellations on their way to the daemon.
  up,        \* The daemon runs.
  deaths

vars == <<client, call, queue, inFlight, index, cooling, deletes, up, deaths>>

Unknown == [step |-> "none", doom |-> "none", answer |-> "none"]

Init ==
  /\ client = [c \in Calls |-> "new"] /\ call = [c \in Calls |-> Unknown]
  /\ queue = <<>> /\ inFlight = 0 /\ index = 0 /\ cooling = "none"
  /\ deletes = {} /\ up = TRUE /\ deaths = 0

Running == {c \in Calls : call[c].step = "runs"}
Ends(c) == IF client[c] = "waits" THEN [client EXCEPT ![c] = "ended"] ELSE client

-----------------------------------------------------------------------------
(* The gate. *)

(* _run: the preferred model is tried again when its time has come. *)
TriesPreferred == index > 0 /\ cooling = "past"

(* A fault: one too many. *)
FaultyHasPlace(n) == n <= Concurrency

HasPlace(n) == n < Concurrency

(* _pump, with a queue q, n children and the calls as in d: a turn brings  *)
(* one call or frees one place, so the loop goes round once at most.       *)
Pump(q, n, d) ==
  IF q # <<>> /\ HasPlace(n)
  THEN /\ queue' = Tail(q) /\ inFlight' = n + 1
       /\ index' = IF TriesPreferred THEN 0 ELSE index
       /\ cooling' = IF TriesPreferred THEN "none" ELSE cooling
       /\ call' = [d EXCEPT ![Head(q)].step = "runs"]
  ELSE /\ queue' = q /\ inFlight' = n /\ call' = d
       /\ UNCHANGED <<index, cooling>>

(* complete *)
Enqueue(c) == Pump(Append(queue, c), inFlight, [call EXCEPT ![c].step = "queued"])

(* A fault: only a call that succeeds gives its place back. *)
FaultyFreed(r) == IF r = "ok" THEN inFlight - 1 ELSE inFlight

Freed(r) == inFlight - 1

(* What became of the child; parseResult, unless it was killed.  A fault:  *)
(* what it printed counts, killed or not.                                  *)
FaultyResult(c, out) == out
Result(c, out) == IF call[c].doom = "none" THEN out ELSE call[c].doom

(* A model that cannot, or that may not any more: a new child asks the    *)
(* next one.                                                               *)
StepsDown(c, r) == c \in OnChain /\ r \in {"spent", "unsupported"} /\ index + 1 < Models

Closes(c) == \E out \in {"ok", "spent", "unsupported", "other"} :
  LET r == Result(c, out)
  IN /\ call[c].step = "runs"
     /\ IF StepsDown(c, r)
        THEN /\ index' = index + 1
             /\ cooling' = IF r = "spent" THEN "ahead" ELSE cooling
             /\ UNCHANGED <<client, call, queue, inFlight>>
        ELSE /\ Pump(queue, Freed(r),
                     [call EXCEPT ![c] = [@ EXCEPT !.answer = r,
                        !.step = IF c \in Fixes /\ r # "ok" THEN "rescue" ELSE "done"]])
             /\ client' = IF c \in Fixes /\ r # "ok" THEN client ELSE Ends(c)
     /\ UNCHANGED <<deletes, up, deaths>>

TimesOut(c) ==
  /\ call[c].step = "runs" /\ call[c].doom = "none"
  /\ call' = [call EXCEPT ![c].doom = "timeout"]
  /\ UNCHANGED <<client, queue, inFlight, index, cooling, deletes, up, deaths>>

(* The half hour after a spent allowance. *)
Cools ==
  /\ cooling = "ahead" /\ cooling' = "past"
  /\ UNCHANGED <<client, call, queue, inFlight, index, deletes, up, deaths>>

-----------------------------------------------------------------------------
(* The daemon in front of it. *)

(* /v1/complete; nobody there: the text tool runs the CLI itself. *)
Ask(c) ==
  /\ client[c] = "new"
  /\ client' = [client EXCEPT ![c] =
       CASE up -> "waits" [] c \in Mails -> "ended" [] OTHER -> "direct"]
  /\ IF ~up THEN UNCHANGED <<call, queue, inFlight, index, cooling>>
     ELSE IF c \in Fixes
     THEN /\ call' = [call EXCEPT ![c].step = "local"]
          /\ UNCHANGED <<queue, inFlight, index, cooling>>
     ELSE Enqueue(c)
  /\ UNCHANGED <<deletes, up, deaths>>

(* _routeLocal: the first word of the local model, and the last.  What     *)
(* Claude said stands when it has none.                                    *)
LocalAnswers(c) == \E good \in BOOLEAN :
  /\ call[c].step \in {"local", "rescue"}
  /\ IF call[c].step = "local" /\ ~good
     THEN Enqueue(c) /\ UNCHANGED client
     ELSE /\ call' = [call EXCEPT ![c] = [@ EXCEPT !.step = "done", !.answer = IF good THEN "ok" ELSE call[c].answer]]
          /\ client' = Ends(c)
          /\ UNCHANGED <<queue, inFlight, index, cooling>>
  /\ UNCHANGED <<deletes, up, deaths>>

(* The client's own timer; the daemon is not told. *)
GivesUp(c) ==
  /\ client[c] = "waits"
  /\ client' = Ends(c)
  /\ UNCHANGED <<call, queue, inFlight, index, cooling, deletes, up, deaths>>

(* Escape.  The mail app never cancels. *)
Escapes(c) ==
  /\ c \in Fixes \cup Edits /\ client[c] \in {"waits", "direct"}
  /\ client' = [client EXCEPT ![c] = "ended"]
  /\ deletes' = IF client[c] = "waits" THEN deletes \cup {c} ELSE deletes
  /\ UNCHANGED <<call, queue, inFlight, index, cooling, up, deaths>>

(* DELETE: a call without a child is not found, and goes on. *)
Delete(c) ==
  /\ c \in deletes /\ deletes' = deletes \ {c}
  /\ call' = IF call[c].step = "runs" THEN [call EXCEPT ![c].doom = "cancelled"] ELSE call
  /\ UNCHANGED <<client, queue, inFlight, index, cooling, up, deaths>>

(* The connection breaks for all. *)
DaemonDies ==
  /\ up /\ deaths < MaxDeaths
  /\ up' = FALSE /\ deaths' = deaths + 1
  /\ client' = [c \in Calls |->
       IF client[c] # "waits" THEN client[c] ELSE IF c \in Mails THEN "ended" ELSE "direct"]
  /\ call' = [c \in Calls |-> IF call[c].step = "done" THEN call[c] ELSE Unknown]
  /\ queue' = <<>> /\ inFlight' = 0 /\ index' = 0 /\ cooling' = "none" /\ deletes' = {}

(* KeepAlive *)
DaemonStarts ==
  /\ ~up /\ up' = TRUE
  /\ UNCHANGED <<client, call, queue, inFlight, index, cooling, deletes, deaths>>

DirectEnds(c) ==
  /\ client[c] = "direct" /\ client' = [client EXCEPT ![c] = "ended"]
  /\ UNCHANGED <<call, queue, inFlight, index, cooling, deletes, up, deaths>>

Next ==
  \/ Cools \/ DaemonDies \/ DaemonStarts
  \/ \E c \in Calls :
       \/ Ask(c) \/ LocalAnswers(c) \/ Closes(c) \/ TimesOut(c)
       \/ GivesUp(c) \/ Escapes(c) \/ Delete(c) \/ DirectEnds(c)

(* Every child has its timer, and so has every call of the local model. *)
Works(c) == LocalAnswers(c) \/ Closes(c) \/ DirectEnds(c)

Spec == Init /\ [][Next]_vars /\ \A c \in Calls : WF_vars(Works(c))

-----------------------------------------------------------------------------
(* Properties. *)

Answers == {"none", "ok", "spent", "unsupported", "other", "timeout", "cancelled"}

(* The queue holds whoever waits for a child, once each. *)
QueueIsWaiting ==
  /\ \A c \in Calls : call[c].step = "queued" <=> \E i \in DOMAIN queue : queue[i] = c
  /\ \A i, j \in DOMAIN queue : queue[i] = queue[j] => i = j

(* "One concurrency gate" (server.mjs:5): the children are counted right   *)
(* whatever became of each, no more than the limit run, and none waits     *)
(* while there is a place.                                                 *)
Gate ==
  /\ inFlight = Cardinality(Running) /\ inFlight <= Concurrency
  /\ queue # <<>> => inFlight = Concurrency
  /\ QueueIsWaiting

(* A call whose child was killed for its caller's sake ends as cancelled,  *)
(* and asks no other model; the local one may still have the last word.    *)
KilledIsCancelled == \A c \in Calls :
  call[c].doom = "cancelled" /\ call[c].step = "done" =>
     call[c].answer \in {"cancelled"} \cup (IF c \in Fixes THEN {"ok"} ELSE {})

(* Whoever asks hears of an end, and the daemon gets rid of every call,    *)
(* its caller gone or not.                                                 *)
Served == \A c \in Calls :
  /\ client[c] \in {"waits", "direct"} ~> client[c] = "ended"
  /\ call[c].step # "none" ~> call[c].step \in {"none", "done"}
=============================================================================
