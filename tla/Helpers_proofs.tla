--------------------------- MODULE Helpers_proofs ---------------------------
(***************************************************************************)
(* The helpers of the app, as the run takes them together: the invariants  *)
(* of each part by themselves, and, since a step is one of one part and    *)
(* leaves the others alone, of the whole.                                  *)
(***************************************************************************)
EXTENDS MCHelpers, FiniteSetTheorems, TLAPS

-----------------------------------------------------------------------------
(* The gate in front of the Claude CLI, for any calls, any chain of models *)
(* and any limit: the children are counted right, never too many, and      *)
(* nobody waits while there is a place.                                    *)
(*                                                                         *)
(* Gate is inductive with the types and with NewIsUnknown, which says that *)
(* a call that is asked for is new to the daemon.  Every action either     *)
(* leaves the queue, the count and who runs alone, or ends in _pump, and   *)
(* PumpKeeps says what _pump needs of what it is given.                    *)

CallRecord == [step : {"none", "local", "queued", "runs", "rescue", "done"},
               doom : {"none", "timeout", "cancelled"}, answer : Answers]

Types ==
  /\ call \in [Calls -> CallRecord] /\ queue \in Seq(Calls) /\ inFlight \in Nat

ClientType == client \in [Calls -> {"new", "waits", "direct", "ended"}]

Inv == Types /\ Gate

NewIsUnknown == \A c \in Calls : client[c] = "new" => call[c].step = "none"

(* No call but c comes to the daemon. *)
StaysUnknown(c) == \A e \in Calls \ {c} : call[e].step = "none" => call'[e].step = "none"

RunningIn(d) == {c \in Calls : d[c].step = "runs"}
WaitingIn(q, d) ==
  /\ \A c \in Calls : d[c].step = "queued" <=> \E i \in DOMAIN q : q[i] = c
  /\ \A i, j \in DOMAIN q : q[i] = q[j] => i = j

(* What _pump is given: at most one place is free beside the calls that    *)
(* wait.                                                                   *)
Pumpable(q, n, d) ==
  /\ q \in Seq(Calls) /\ n \in Nat /\ d \in [Calls -> CallRecord]
  /\ n = Cardinality(RunningIn(d)) /\ n <= Concurrency
  /\ Len(q) > 1 => n + 1 >= Concurrency
  /\ WaitingIn(q, d)

LEMMA RunningFinite == ASSUME NEW d PROVE IsFiniteSet(RunningIn(d)) /\ Cardinality(RunningIn(d)) \in Nat
<1>1. RunningIn(d) \subseteq Calls
  BY DEF RunningIn
<1>2. IsFiniteSet(RunningIn(d))
  BY <1>1, CallsAssumption, FS_Subset
<1>. QED
  BY <1>2, FS_CardinalityType

(* The head of the queue gets the free place. *)
LEMMA PumpKeeps ==
  ASSUME NEW q, NEW n, NEW d, Pumpable(q, n, d), Pump(q, n, d)
  PROVE  Inv' /\ \A e \in Calls : d[e].step = "none" => call'[e].step = "none"
<1>1. CASE q # <<>> /\ HasPlace(n)
  <2>. DEFINE h == Head(q)
  <2>1. /\ queue' = Tail(q) /\ inFlight' = n + 1
        /\ call' = [d EXCEPT ![h].step = "runs"]
    BY <1>1 DEF Pump
  <2>2. h \in Calls /\ Len(q) \in Nat \ {0} /\ h = q[1] /\ Tail(q) \in Seq(Calls)
    BY <1>1 DEF Pumpable
  <2>3. /\ Len(Tail(q)) = Len(q) - 1
        /\ \A i \in 1..(Len(q) - 1) : Tail(q)[i] = q[i + 1]
    BY <2>2 DEF Pumpable
  <2>4. d[h].step = "queued"
    BY <2>2 DEF Pumpable, WaitingIn
  <2>5. Types'
    BY <2>1, <2>2, ConcurrencyAssumption DEF Types, Pumpable, CallRecord
  <2>6. RunningIn(call') = RunningIn(d) \cup {h}
    BY <2>1, <2>2 DEF RunningIn, Pumpable, CallRecord
  <2>7. h \notin RunningIn(d)
    BY <2>4 DEF RunningIn
  <2>8. inFlight' = Cardinality(RunningIn(call'))
    BY <2>1, <2>6, <2>7, RunningFinite, FS_AddElement DEF Pumpable
  <2>9. WaitingIn(queue', call')
    <3>1. ASSUME NEW c \in Calls
          PROVE  call'[c].step = "queued" <=> \E i \in DOMAIN queue' : queue'[i] = c
      <4>1. CASE c = h
        <5>1. call'[c].step = "runs"
          BY <4>1, <2>1 DEF Pumpable, CallRecord
        <5>2. \A i \in DOMAIN queue' : queue'[i] # c
          BY <4>1, <2>1, <2>2, <2>3 DEF Pumpable, WaitingIn
        <5>. QED
          BY <5>1, <5>2
      <4>2. CASE c # h
        <5>1. call'[c].step = d[c].step
          BY <4>2, <2>1 DEF Pumpable, CallRecord
        <5>2. (\E i \in DOMAIN queue' : queue'[i] = c) <=> \E i \in DOMAIN q : q[i] = c
          <6>1. ASSUME NEW i \in DOMAIN q, q[i] = c PROVE i - 1 \in DOMAIN queue' /\ queue'[i - 1] = c
            BY <6>1, <4>2, <2>1, <2>2, <2>3 DEF Pumpable
          <6>2. ASSUME NEW i \in DOMAIN queue', queue'[i] = c PROVE i + 1 \in DOMAIN q /\ q[i + 1] = c
            BY <6>2, <2>1, <2>2, <2>3 DEF Pumpable
          <6>. QED
            BY <6>1, <6>2
        <5>. QED
          BY <5>1, <5>2 DEF Pumpable, WaitingIn
      <4>. QED
        BY <4>1, <4>2
    <3>2. \A i, j \in DOMAIN queue' : queue'[i] = queue'[j] => i = j
      BY <2>1, <2>2, <2>3 DEF Pumpable, WaitingIn
    <3>. QED
      BY <3>1, <3>2 DEF WaitingIn
  <2>10. inFlight' <= Concurrency /\ (queue' # <<>> => inFlight' = Concurrency)
    BY <1>1, <2>1, <2>2, <2>3, ConcurrencyAssumption DEF Pumpable, HasPlace
  <2>11. \A e \in Calls : d[e].step = "none" => call'[e].step = "none"
    BY <2>1, <2>2, <2>4 DEF Pumpable, CallRecord
  <2>. QED
    BY <2>5, <2>8, <2>9, <2>10, <2>11 DEF Inv, Gate, QueueIsWaiting, Running, RunningIn, WaitingIn
<1>2. CASE ~(q # <<>> /\ HasPlace(n))
  <2>1. queue' = q /\ inFlight' = n /\ call' = d
    BY <1>2 DEF Pump
  <2>2. q # <<>> => n = Concurrency
    BY <1>2, ConcurrencyAssumption DEF Pumpable, HasPlace
  <2>. QED
    BY <2>1, <2>2 DEF Pumpable, Inv, Types, Gate, QueueIsWaiting, Running, RunningIn, WaitingIn
<1>. QED
  BY <1>1, <1>2

(* A call that is new, or that the local model could not answer, comes to  *)
(* the end of the queue.                                                   *)
LEMMA EnqueueKeeps ==
  ASSUME Inv, NEW c \in Calls, call[c].step \in {"none", "local"}, Enqueue(c)
  PROVE  Inv' /\ StaysUnknown(c)
<1>. DEFINE q == Append(queue, c)
            d == [call EXCEPT ![c].step = "queued"]
<1>1. q \in Seq(Calls) /\ d \in [Calls -> CallRecord]
  BY DEF Inv, Types, CallRecord
<1>2. RunningIn(d) = RunningIn(call)
  BY DEF RunningIn, Inv, Types, CallRecord
<1>3. inFlight = Cardinality(RunningIn(d)) /\ inFlight <= Concurrency
  BY <1>2 DEF Inv, Gate, Running, RunningIn
<1>4. Len(q) > 1 => inFlight + 1 >= Concurrency
  BY ConcurrencyAssumption DEF Inv, Types, Gate
<1>5. WaitingIn(q, d)
  <2>1. /\ DOMAIN q = DOMAIN queue \cup {Len(queue) + 1} /\ q[Len(queue) + 1] = c
        /\ \A i \in DOMAIN queue : q[i] = queue[i]
        /\ Len(queue) + 1 \notin DOMAIN queue
    BY DEF Inv, Types
  <2>2. \A i \in DOMAIN queue : queue[i] # c
    BY DEF Inv, Gate, QueueIsWaiting
  <2>3. \A e \in Calls : d[e].step = IF e = c THEN "queued" ELSE call[e].step
    BY DEF Inv, Types, CallRecord
  <2>4. \A e \in Calls : d[e].step = "queued" <=> \E i \in DOMAIN q : q[i] = e
    BY <2>1, <2>3 DEF Inv, Gate, QueueIsWaiting
  <2>5. \A i, j \in DOMAIN q : q[i] = q[j] => i = j
    BY <2>1, <2>2 DEF Inv, Gate, QueueIsWaiting
  <2>. QED
    BY <2>4, <2>5 DEF WaitingIn
<1>6. Pumpable(q, inFlight, d)
  BY <1>1, <1>3, <1>4, <1>5 DEF Pumpable, Inv, Types
<1>7. Pump(q, inFlight, d)
  BY DEF Enqueue
<1>. QED
  <2>1. Inv' /\ \A e \in Calls : d[e].step = "none" => call'[e].step = "none"
    BY <1>6, <1>7, PumpKeeps
  <2>2. \A e \in Calls \ {c} : d[e] = call[e]
    BY DEF Inv, Types
  <2>. QED
    BY <2>1, <2>2 DEF StaysUnknown

(* A call changes without coming to the gate or leaving it. *)
LEMMA BesideTheGate ==
  ASSUME Inv, UNCHANGED <<queue, inFlight>>, call' \in [Calls -> CallRecord],
         \A c \in Calls : \/ call'[c].step = call[c].step
                          \/ /\ call[c].step \notin {"queued", "runs"}
                             /\ call'[c].step \notin {"queued", "runs"}
  PROVE  Inv'
<1>1. Running' = Running
  BY DEF Running
<1>2. QueueIsWaiting'
  BY DEF Inv, Gate, QueueIsWaiting
<1>. QED
  BY <1>1, <1>2 DEF Inv, Types, Gate

(* A child ends: another model is asked in its place, or its place is free. *)
LEMMA ClosesKeeps == ASSUME Inv, NEW c \in Calls, Closes(c) PROVE Inv' /\ StaysUnknown(c)
<1>1. PICK out \in {"ok", "spent", "unsupported", "other"} : Closes(c)!(out)
  BY DEF Closes
<1>. DEFINE r == Result(c, out)
            d == [call EXCEPT ![c] = [@ EXCEPT !.answer = r,
                    !.step = IF c \in Fixes /\ r # "ok" THEN "rescue" ELSE "done"]]
<1>2. call[c].step = "runs" /\ r \in Answers
  BY <1>1 DEF Inv, Types, CallRecord, Result, Answers
<1>3. CASE StepsDown(c, r)
  <2>1. UNCHANGED <<call, queue, inFlight>>
    BY <1>1, <1>3
  <2>. QED
    BY <2>1, BesideTheGate DEF Inv, Types, StaysUnknown
<1>4. CASE ~StepsDown(c, r)
  <2>1. Pump(queue, inFlight - 1, d)
    BY <1>1, <1>4 DEF Freed
  <2>2. d \in [Calls -> CallRecord]
    BY <1>2 DEF Inv, Types, CallRecord
  <2>3. RunningIn(d) = RunningIn(call) \ {c} /\ c \in RunningIn(call)
    BY <1>2 DEF RunningIn, Inv, Types, CallRecord
  <2>4. Cardinality(RunningIn(call)) = inFlight
    BY DEF Inv, Gate, Running, RunningIn
  <2>5. inFlight - 1 = Cardinality(RunningIn(d)) /\ inFlight - 1 \in Nat
    <3>1. IsFiniteSet(RunningIn(call)) /\ Cardinality(RunningIn(d)) \in Nat
      BY RunningFinite
    <3>2. Cardinality(RunningIn(d)) = Cardinality(RunningIn(call)) - 1
      BY <2>3, <3>1, FS_RemoveElement
    <3>. QED
      BY <2>4, <3>1, <3>2
  <2>6. WaitingIn(queue, d)
    BY <1>2 DEF WaitingIn, Inv, Types, CallRecord, Gate, QueueIsWaiting
  <2>7. inFlight - 1 <= Concurrency /\ (Len(queue) > 1 => (inFlight - 1) + 1 >= Concurrency)
    BY ConcurrencyAssumption DEF Inv, Types, Gate
  <2>8. Pumpable(queue, inFlight - 1, d)
    BY <2>2, <2>5, <2>6, <2>7 DEF Pumpable, Inv, Types
  <2>. QED
    <3>1. Inv' /\ \A e \in Calls : d[e].step = "none" => call'[e].step = "none"
      BY <2>1, <2>8, PumpKeeps
    <3>2. \A e \in Calls \ {c} : d[e] = call[e]
      BY DEF Inv, Types
    <3>. QED
      BY <3>1, <3>2 DEF StaysUnknown
<1>. QED
  BY <1>3, <1>4

LEMMA DiesKeeps == ASSUME Inv, DaemonDies PROVE Inv'
<1>1. Types'
  BY DEF DaemonDies, Inv, Types, CallRecord, Unknown, Answers
<1>2. Running' = {}
  BY DEF Running, DaemonDies, Unknown
<1>3. QueueIsWaiting'
  BY DEF QueueIsWaiting, DaemonDies, Unknown
<1>. QED
  BY <1>1, <1>2, <1>3, FS_EmptySet, ConcurrencyAssumption DEF Inv, Gate, DaemonDies

(* One step: the gate, and what is still unknown. *)
Kept == Inv' /\ NewIsUnknown'

(* The client of a call that is new is left alone, and so is the call. *)
LEMMA StillUnknown ==
  ASSUME NewIsUnknown, NEW c \in Calls, StaysUnknown(c),
         \A e \in Calls \ {c} : client'[e] = "new" => client[e] = "new",
         client'[c] = "new" => call'[c].step = "none"
  PROVE  NewIsUnknown'
BY DEF NewIsUnknown, StaysUnknown

LEMMA AskKeeps == ASSUME Inv, ClientType, NewIsUnknown, NEW c \in Calls, Ask(c) PROVE Kept
<1>1. client'[c] # "new" /\ \A e \in Calls \ {c} : client'[e] = client[e]
  BY DEF Ask, ClientType
<1>2. call[c].step = "none"
  BY DEF Ask, NewIsUnknown
<1>3. CASE ~up
  <2>1. UNCHANGED <<call, queue, inFlight>>
    BY <1>3 DEF Ask
  <2>. QED
    BY <1>1, <2>1, BesideTheGate, StillUnknown DEF Kept, Inv, Types, StaysUnknown
<1>4. CASE up /\ c \in Fixes
  <2>1. call' = [call EXCEPT ![c].step = "local"] /\ UNCHANGED <<queue, inFlight>>
    BY <1>4 DEF Ask
  <2>2. Inv'
    BY <1>2, <2>1, BesideTheGate DEF Inv, Types, CallRecord
  <2>3. StaysUnknown(c)
    BY <2>1 DEF StaysUnknown, Inv, Types
  <2>. QED
    BY <1>1, <2>2, <2>3, StillUnknown DEF Kept
<1>5. CASE up /\ c \notin Fixes
  <2>1. Enqueue(c)
    BY <1>5 DEF Ask
  <2>. QED
    BY <1>1, <1>2, <2>1, EnqueueKeeps, StillUnknown DEF Kept
<1>. QED
  BY <1>3, <1>4, <1>5

LEMMA LocalAnswersKeeps ==
  ASSUME Inv, NEW c \in Calls, LocalAnswers(c) PROVE Inv' /\ StaysUnknown(c)
<1>1. PICK good \in BOOLEAN : LocalAnswers(c)!(good)
  BY DEF LocalAnswers
<1>2. CASE call[c].step = "local" /\ ~good
  BY <1>1, <1>2, EnqueueKeeps
<1>3. CASE ~(call[c].step = "local" /\ ~good)
  <2>1. UNCHANGED <<queue, inFlight>> /\ call[c].step \in {"local", "rescue"}
    BY <1>1, <1>3
  <2>2. call' = [call EXCEPT ![c] = [@ EXCEPT !.step = "done", !.answer = IF good THEN "ok" ELSE call[c].answer]]
    BY <1>1, <1>3
  <2>3. call' \in [Calls -> CallRecord] /\ call'[c].step = "done"
    <3>1. PICK a \in Answers : call' = [call EXCEPT ![c] = [@ EXCEPT !.step = "done", !.answer = a]]
      <4>1. CASE good
        BY <2>2, <4>1, "ok" \in Answers DEF Answers
      <4>2. CASE ~good
        <5>1. call' = [call EXCEPT ![c] = [@ EXCEPT !.step = "done", !.answer = call[c].answer]]
          BY <2>2, <4>2
        <5>2. call[c].answer \in Answers
          BY DEF Inv, Types, CallRecord
        <5>. QED
          BY <5>1, <5>2
      <4>. QED
        BY <4>1, <4>2
    <3>. QED
      BY <3>1 DEF Inv, Types, CallRecord
  <2>4. \A e \in Calls \ {c} : call'[e] = call[e]
    BY <2>2 DEF Inv, Types
  <2>. QED
    BY <2>1, <2>3, <2>4, BesideTheGate DEF StaysUnknown
<1>. QED
  BY <1>2, <1>3

(* A step of the daemon on a call it knows: its caller hears of an end, or *)
(* is left alone.                                                          *)
LEMMA KnownStep ==
  ASSUME Inv, ClientType, NewIsUnknown, NEW c \in Calls, call[c].step # "none",
         client' \in {client, Ends(c)}, Inv', StaysUnknown(c)
  PROVE  Kept
<1>1. \A e \in Calls : client'[e] = "new" => client[e] = "new"
  BY DEF Ends, ClientType
<1>2. client[c] # "new"
  BY DEF NewIsUnknown
<1>. QED
  BY <1>1, <1>2, StillUnknown DEF Kept

LEMMA ClientTypeKept == ASSUME ClientType, [Next]_vars PROVE ClientType'
BY DEF ClientType, Next, Cools, DaemonDies, DaemonStarts, Ask, LocalAnswers, Closes, TimesOut,
       GivesUp, Escapes, Delete, DirectEnds, Ends, vars

LEMMA StepInv == ASSUME Inv, ClientType, NewIsUnknown, [Next]_vars PROVE Kept
<1>1. CASE UNCHANGED <<client, call, queue, inFlight>>
  BY <1>1, BesideTheGate DEF Kept, Inv, Types, NewIsUnknown
<1>2. CASE Cools \/ DaemonStarts \/ UNCHANGED vars
  BY <1>1, <1>2 DEF Cools, DaemonStarts, vars
<1>3. CASE DaemonDies
  <2>1. NewIsUnknown'
    BY <1>3 DEF DaemonDies, NewIsUnknown, Unknown, Inv, Types
  <2>. QED
    BY <1>3, <2>1, DiesKeeps DEF Kept
<1>4. ASSUME NEW c \in Calls, GivesUp(c) \/ Escapes(c) \/ DirectEnds(c) PROVE Kept
  <2>1. UNCHANGED <<call, queue, inFlight>>
    BY <1>4 DEF GivesUp, Escapes, DirectEnds
  <2>2. \A e \in Calls : client'[e] = "new" => client[e] = "new"
    BY <1>4 DEF GivesUp, Escapes, DirectEnds, Ends, ClientType
  <2>. QED
    BY <2>1, <2>2, BesideTheGate DEF Kept, Inv, Types, NewIsUnknown
<1>5. ASSUME NEW c \in Calls, Ask(c) PROVE Kept
  BY <1>5, AskKeeps
<1>6. ASSUME NEW c \in Calls, Closes(c) PROVE Kept
  <2>1. call[c].step # "none" /\ client' \in {client, Ends(c)}
    BY <1>6 DEF Closes
  <2>. QED
    BY <1>6, <2>1, ClosesKeeps, KnownStep
<1>7. ASSUME NEW c \in Calls, LocalAnswers(c) PROVE Kept
  <2>1. call[c].step # "none" /\ client' \in {client, Ends(c)}
    BY <1>7 DEF LocalAnswers
  <2>. QED
    BY <1>7, <2>1, LocalAnswersKeeps, KnownStep
<1>8. ASSUME NEW c \in Calls, TimesOut(c) \/ Delete(c) PROVE Kept
  <2>1. UNCHANGED <<client, queue, inFlight>> /\ call' \in [Calls -> CallRecord]
    BY <1>8 DEF TimesOut, Delete, Inv, Types, CallRecord
  <2>2. \A e \in Calls : call'[e].step = call[e].step
    BY <1>8 DEF TimesOut, Delete, Inv, Types, CallRecord
  <2>. QED
    BY <2>1, <2>2, BesideTheGate DEF Kept, NewIsUnknown
<1>. QED
  BY <1>2, <1>3, <1>4, <1>5, <1>6, <1>7, <1>8 DEF Next

LEMMA GateInit == ASSUME Init PROVE Inv /\ ClientType /\ NewIsUnknown
<1>1. Types /\ ClientType /\ NewIsUnknown
  BY DEF Init, Types, ClientType, NewIsUnknown, CallRecord, Unknown, Answers
<1>2. Running = {} /\ QueueIsWaiting
  BY DEF Init, Running, QueueIsWaiting, Unknown
<1>. QED
  BY <1>1, <1>2, FS_EmptySet, ConcurrencyAssumption DEF Init, Inv, Gate

(* "One concurrency gate": whatever became of each child, the count is     *)
(* right, the limit is kept and nobody waits while there is a place.       *)
THEOREM OneGate == Spec => []Gate
<1>. DEFINE IInv == Inv /\ ClientType /\ NewIsUnknown
<1>1. Init => IInv
  BY GateInit
<1>2. IInv /\ [Next]_vars => IInv'
  BY StepInv, ClientTypeKept DEF Kept
<1>3. IInv => Gate
  BY DEF Inv
<1>. QED
  BY <1>1, <1>2, <1>3, PTL DEF Spec

-----------------------------------------------------------------------------
(* The daemon owns every process it has not told to stop, for any requests *)
(* and any number of starts.                                               *)
(*                                                                         *)
(* Owned says nothing of a start that is about to spawn.  It is inductive  *)
(* with StartIsAlone: whoever spawns has no child, and a start under way   *)
(* has its own child or none.                                              *)

ModelTypes ==
  /\ proc \in [Llama!Procs -> {"none", "loading", "up", "dead", "gone"}]
  /\ told \subseteq Llama!Procs
  /\ child \in Llama!Procs \cup {0}
  /\ ready \in BOOLEAN
  /\ start \in [step : {"none", "port", "poll", "heard"}, proc : Nat]

(* A child runs, or its exit was not heard of yet; without a start it is   *)
(* ready.                                                                  *)
StartIsAlone ==
  /\ start.step = "none" /\ child # 0 => ready
  /\ start.step # "none" => ~ready
  /\ start.step = "port" => child = 0
  /\ start.step \in {"poll", "heard"} => child \in {0, start.proc}

ModelInv == ModelTypes /\ StartIsAlone /\ Llama!Owned

LEMMA ModelStep == ASSUME ModelInv, [Llama!Next]_model PROVE ModelInv'
<1>0. Llama!Procs \subseteq Nat /\ 0 \notin Llama!Procs
  BY BoundsAssumption DEF BoundsAssumption, Llama!Procs
<1>1. CASE Llama!Spawn
  BY <1>0, <1>1 DEF Llama!Spawn, ModelInv, ModelTypes, StartIsAlone, Llama!Owned, Llama!Unborn
<1>2. CASE Llama!Healthy
  BY <1>2 DEF Llama!Healthy, ModelInv, ModelTypes, StartIsAlone, Llama!Owned
<1>3. CASE Llama!Ready
  BY <1>3 DEF Llama!Ready, ModelInv, ModelTypes, StartIsAlone, Llama!Owned
<1>4. CASE Llama!DiedInStart
  BY <1>4 DEF Llama!DiedInStart, Llama!NotReady, ModelInv, ModelTypes, StartIsAlone, Llama!Owned
<1>5. CASE Llama!StartTimesOut
  BY <1>5 DEF Llama!StartTimesOut, Llama!NotReady, Llama!Stop, ModelInv, ModelTypes, StartIsAlone, Llama!Owned
<1>6. CASE Llama!IdleStop
  BY <1>6 DEF Llama!IdleStop, Llama!Stop, ModelInv, ModelTypes, StartIsAlone, Llama!Owned
<1>7. ASSUME NEW p \in Llama!Procs, Llama!Loaded(p) PROVE ModelInv'
  BY <1>7 DEF Llama!Loaded, ModelInv, ModelTypes, StartIsAlone, Llama!Owned
<1>8. ASSUME NEW p \in Llama!Procs, Llama!Dies(p) PROVE ModelInv'
  BY <1>8 DEF Llama!Dies, ModelInv, ModelTypes, StartIsAlone, Llama!Owned
<1>9. ASSUME NEW p \in Llama!Procs, Llama!Exit(p) PROVE ModelInv'
  BY <1>9 DEF Llama!Exit, Llama!OwnExit, ModelInv, ModelTypes, StartIsAlone, Llama!Owned
<1>10. ASSUME UNCHANGED <<proc, told, child, ready>>, start' \in {start, Llama!Started} PROVE ModelInv'
  BY <1>10 DEF Llama!Started, ModelInv, ModelTypes, StartIsAlone, Llama!Owned
<1>11. ASSUME NEW r \in Fixes, Llama!AskFix(r) PROVE ModelInv'
  BY <1>10, <1>11 DEF Llama!AskFix
<1>12. ASSUME NEW r \in Classifies, Llama!AskClassify(r) PROVE ModelInv'
  BY <1>10, <1>12 DEF Llama!AskClassify
<1>13. ASSUME NEW r \in Llama!Requests, NEW good \in BOOLEAN, Llama!Answers(r, good) \/ Llama!ClaudeAnswers(r, good) PROVE ModelInv'
  BY <1>10, <1>13 DEF Llama!Answers, Llama!ClaudeAnswers
<1>14. CASE UNCHANGED model
  BY <1>10, <1>14 DEF model
<1>. QED
  BY <1>1, <1>2, <1>3, <1>4, <1>5, <1>6, <1>7, <1>8, <1>9, <1>11, <1>12, <1>13, <1>14 DEF Llama!Next

-----------------------------------------------------------------------------
(* A call whose child was killed for its caller's sake.                    *)

(* Of the calls as in d. *)
KilledIn(d) == \A c \in Calls :
  d[c].doom = "cancelled" =>
    /\ d[c].step \in {"runs", "rescue", "done"}
    /\ d[c].step = "rescue" => d[c].answer = "cancelled" /\ c \in Fixes
    /\ d[c].step = "done" => d[c].answer \in {"cancelled"} \cup (IF c \in Fixes THEN {"ok"} ELSE {})

KilledStays == KilledIn(call)

(* _pump leaves what a call was killed for. *)
LEMMA PumpKills ==
  ASSUME NEW q \in Seq(Calls), NEW n, NEW d \in [Calls -> CallRecord], Pump(q, n, d),
         KilledIn(d)
  PROVE  KilledStays'
<1>1. CASE call' = d
  BY <1>1 DEF KilledStays, KilledIn
<1>2. CASE q # <<>> /\ call' = [d EXCEPT ![Head(q)].step = "runs"]
  <2>1. Head(q) \in Calls
    BY <1>2
  <2>2. \A c \in Calls : /\ call'[c].doom = d[c].doom /\ call'[c].answer = d[c].answer
                         /\ call'[c].step = d[c].step \/ call'[c].step = "runs"
    BY <1>2, <2>1 DEF CallRecord
  <2>. QED
    BY <2>2 DEF KilledStays, KilledIn
<1>. QED
  BY <1>1, <1>2 DEF Pump

LEMMA KilledStep ==
  ASSUME Inv, ClientType, NewIsUnknown, KilledStays, [Next]_vars
  PROVE  KilledStays'
<1>. USE DEF CallRecord
<1>0. call \in [Calls -> CallRecord] /\ queue \in Seq(Calls)
  BY DEF Inv, Types
<1>1. CASE UNCHANGED call
  BY <1>1 DEF KilledStays, KilledIn
<1>2. CASE DaemonDies
  BY <1>2 DEF DaemonDies, KilledStays, KilledIn, Unknown
<1>3. ASSUME NEW c \in Calls, Enqueue(c), call[c].doom # "cancelled" PROVE KilledStays'
  <2>. DEFINE d == [call EXCEPT ![c].step = "queued"]
  <2>1. d \in [Calls -> CallRecord] /\ Append(queue, c) \in Seq(Calls)
    BY <1>0
  <2>2. \A e \in Calls : d[e].doom = "cancelled" => e # c /\ d[e] = call[e]
    BY <1>0, <1>3
  <2>3. Pump(Append(queue, c), inFlight, d)
    BY <1>3 DEF Enqueue
  <2>. HIDE DEF d
  <2>4. KilledIn(d)
    BY <2>2 DEF KilledStays, KilledIn
  <2>. QED
    BY <2>1, <2>3, <2>4, PumpKills
<1>4. ASSUME NEW c \in Calls, Ask(c) PROVE KilledStays'
  <2>1. call[c].doom # "cancelled"
    BY <1>4 DEF Ask, NewIsUnknown, KilledStays, KilledIn
  <2>2. CASE call' = [call EXCEPT ![c].step = "local"]
    BY <2>1, <2>2, <1>0 DEF KilledStays, KilledIn
  <2>. QED
    BY <1>1, <1>3, <1>4, <2>1, <2>2 DEF Ask
<1>5. ASSUME NEW c \in Calls, LocalAnswers(c) PROVE KilledStays'
  <2>1. PICK good \in BOOLEAN :
          /\ call[c].step \in {"local", "rescue"}
          /\ IF call[c].step = "local" /\ ~good THEN Enqueue(c)
             ELSE call' = [call EXCEPT ![c] = [@ EXCEPT !.step = "done", !.answer = IF good THEN "ok" ELSE call[c].answer]]
    BY <1>5 DEF LocalAnswers
  <2>2. CASE call[c].step = "local" /\ ~good
    BY <2>1, <2>2, <1>3 DEF KilledStays, KilledIn
  <2>3. CASE ~(call[c].step = "local" /\ ~good)
    <3>1. \A e \in Calls \ {c} : call'[e] = call[e]
      BY <2>1, <2>3, <1>0
    <3>2. /\ call'[c].step = "done" /\ call'[c].doom = call[c].doom
          /\ call'[c].answer = IF good THEN "ok" ELSE call[c].answer
      BY <2>1, <2>3, <1>0
    <3>3. call[c].doom = "cancelled" => call[c].answer = "cancelled" /\ c \in Fixes
      BY <2>1 DEF KilledStays, KilledIn
    <3>. QED
      BY <3>1, <3>2, <3>3 DEF KilledStays, KilledIn
  <2>. QED
    BY <2>2, <2>3
<1>6. ASSUME NEW c \in Calls, Closes(c) PROVE KilledStays'
  <2>1. PICK r \in Answers :
          /\ call[c].step = "runs"
          /\ call[c].doom # "none" => r = call[c].doom
          /\ call' # call => Pump(queue, Freed(r),
               [call EXCEPT ![c] = [@ EXCEPT !.answer = r, !.step = IF c \in Fixes /\ r # "ok" THEN "rescue" ELSE "done"]])
    BY <1>6, <1>0 DEF Closes, Result, Answers
  <2>. DEFINE d == [call EXCEPT ![c] = [@ EXCEPT !.answer = r, !.step = IF c \in Fixes /\ r # "ok" THEN "rescue" ELSE "done"]]
  <2>2. d \in [Calls -> CallRecord]
    BY <1>0, <2>1
  <2>3. \A e \in Calls \ {c} : d[e] = call[e]
    BY <1>0
  <2>4. /\ d[c].doom = call[c].doom /\ d[c].answer = r
        /\ d[c].step = IF c \in Fixes /\ r # "ok" THEN "rescue" ELSE "done"
    BY <1>0
  <2>5. call' # call => Pump(queue, Freed(r), d)
    BY <2>1
  <2>. HIDE DEF d
  <2>6. d[c].doom = "cancelled" => r = "cancelled"
    BY <2>1, <2>4
  <2>7. KilledIn(d)
    BY <2>3, <2>4, <2>6 DEF KilledStays, KilledIn
  <2>. QED
    BY <1>0, <1>1, <2>2, <2>5, <2>7, PumpKills
<1>7. ASSUME NEW c \in Calls, TimesOut(c) PROVE KilledStays'
  BY <1>7, <1>0 DEF TimesOut, KilledStays, KilledIn
<1>8. ASSUME NEW c \in Calls, Delete(c) PROVE KilledStays'
  BY <1>8, <1>0 DEF Delete, KilledStays, KilledIn
<1>9. ASSUME NEW c \in Calls, GivesUp(c) \/ Escapes(c) \/ DirectEnds(c) PROVE KilledStays'
  BY <1>1, <1>9 DEF GivesUp, Escapes, DirectEnds
<1>10. CASE Cools \/ DaemonStarts \/ UNCHANGED vars
  BY <1>1, <1>10 DEF Cools, DaemonStarts, vars
<1>. QED
  BY <1>2, <1>4, <1>5, <1>6, <1>7, <1>8, <1>9, <1>10 DEF Next

-----------------------------------------------------------------------------
(* One login at a time: without a sign-in before the exit of a killed one, *)
(* a login under way is the only one that was not heard of.                *)

LoginInv ==
  /\ login \in Login!Logins \cup {0}
  /\ cli \in [Login!Logins -> {"none", "runs", "killed", "gone"}]
  /\ overtaken \in BOOLEAN
  /\ Login!OneLogin
  /\ ~overtaken /\ login # 0 => \A n \in Login!Logins : cli[n] # "killed"

LEMMA LoginStep == ASSUME LoginInv, [Login!Next]_signIn PROVE LoginInv'
<1>0. 0 \notin Login!Logins
  BY DEF Login!Logins
<1>1. ASSUME NEW n \in Login!Logins, Login!Start(n) PROVE LoginInv'
  BY <1>0, <1>1 DEF Login!Start, LoginInv, Login!OneLogin
<1>2. ASSUME login' = 0, cli' = Login!Killed, UNCHANGED overtaken PROVE LoginInv'
  BY <1>0, <1>2 DEF Login!Killed, LoginInv, Login!OneLogin
<1>3. ASSUME NEW n \in Login!Logins, Login!Exits(n) \/ Login!NoProgram(n) PROVE LoginInv'
  BY <1>0, <1>3 DEF Login!Exits, Login!NoProgram, LoginInv, Login!OneLogin
<1>4. ASSUME UNCHANGED <<login, cli, overtaken>> PROVE LoginInv'
  BY <1>4 DEF LoginInv, Login!OneLogin
<1>. QED
  BY <1>1, <1>2, <1>3, <1>4 DEF Login!Next, Login!Cancel, Login!TenMinutes, Login!Prints, signIn

-----------------------------------------------------------------------------
(* The processes of others, all of them. *)

ChildInv ==
  /\ Inv /\ ClientType /\ NewIsUnknown /\ KilledStays
  /\ ModelInv /\ LoginInv

(* A step of the helpers is one of each part or leaves it alone. *)
LEMMA OneOfEach ==
  ASSUME [AllNext]_<<part, claude, model, download, signIn, install, wizard, config, sidebar, photos>>
  PROVE  /\ [Next]_claude /\ [Llama!Next]_model /\ [Fetch!Next]_download /\ [Login!Next]_signIn
         /\ [Bundle!Next]_install /\ [Wizard!Next]_wizard /\ [Config!Next]_config /\ [Photos!Next]_photos
BY DEF AllNext

(* No child is forgotten, taken for another or left when it was cancelled, *)
(* for any calls, requests and numbers of processes, whatever dies, is     *)
(* cancelled or is stopped when; one sign-in runs, unless one was begun    *)
(* before a killed one had exited.                                         *)
THEOREM Children == AllSpec => []ChildrenHold
<1>1. ASSUME AllInit PROVE ChildInv
  <2>1. Inv /\ ClientType /\ NewIsUnknown
    BY <1>1, GateInit DEF AllInit
  <2>2. KilledStays
    BY <1>1 DEF AllInit, Init, Unknown, KilledStays, KilledIn
  <2>3. ModelTypes
    BY <1>1 DEF AllInit, Llama!Init, Llama!NoStart, ModelTypes
  <2>4. StartIsAlone /\ Llama!Owned
    BY <1>1 DEF AllInit, Llama!Init, Llama!NoStart, StartIsAlone, Llama!Owned
  <2>5. LoginInv
    BY <1>1 DEF AllInit, Login!Init, LoginInv, Login!OneLogin
  <2>. QED
    BY <2>1, <2>2, <2>3, <2>4, <2>5 DEF ChildInv, ModelInv
<1>2. ASSUME ChildInv, [AllNext]_<<part, claude, model, download, signIn, install, wizard, config, sidebar, photos>>
      PROVE  ChildInv'
  <2>1. [Next]_vars /\ [Llama!Next]_model /\ [Login!Next]_signIn
    BY <1>2, OneOfEach DEF claude
  <2>2. Inv' /\ ClientType' /\ NewIsUnknown' /\ KilledStays'
    BY <1>2, <2>1, StepInv, ClientTypeKept, KilledStep DEF ChildInv, Kept
  <2>3. ModelInv' /\ LoginInv'
    BY <1>2, <2>1, ModelStep, LoginStep, BoundsAssumption DEF ChildInv
  <2>. QED
    BY <2>2, <2>3 DEF ChildInv
<1>3. ChildInv => ChildrenHold
  BY DEF ChildInv, ModelInv, LoginInv, KilledStays, KilledIn, ChildrenHold, KilledIsCancelled
<1>. QED
  BY <1>1, <1>2, <1>3, PTL DEF AllSpec

-----------------------------------------------------------------------------
(* What the app installs.  What the state file says was started is never   *)
(* newer than the app, and whoever started the version of the app runs it, *)
(* or nothing does.  As long as no two installs met, one is under way, the *)
(* tool is stopped while it is copied, and what is about to be started is  *)
(* there.                                                                  *)

InstallTypes ==
  /\ bundled \in Nat \ {0} /\ place \in {1, 2}
  /\ agent \in 0..3 /\ loaded \in 0..3 /\ daemon \in Nat /\ started \in Nat
  /\ app \in [ver : Nat, whole : BOOLEAN] /\ tool \in BOOLEAN
  /\ step \in [Bundle!Actors -> {"off", "write", "bootstrap", "restart", "keep", "stop", "copy", "boot"}]
  /\ seen \in [installed : BOOLEAN, met : BOOLEAN, swap : BOOLEAN]

StartedIsCurrent == started <= bundled /\ (started = bundled => daemon \in {0, bundled})

OneInstalls == ~seen.met =>
  \A a \in Bundle!Actors :
    /\ step[a] \in {"copy", "boot"} => \A b \in Bundle!Actors \ {a} : step[b] \notin {"copy", "boot"}
    /\ step[a] = "copy" => ~tool
    /\ step[a] = "boot" => app # Bundle!Nothing

InstallInv == InstallTypes /\ StartedIsCurrent /\ OneInstalls /\ Bundle!InstallHolds

LEMMA InstallInit == ASSUME Bundle!Init PROVE InstallInv
<1>1. app \in [ver : Nat, whole : BOOLEAN] /\ (app # Bundle!Nothing => app.whole)
  <2>1. CASE app = Bundle!Nothing
    BY <2>1 DEF Bundle!Nothing
  <2>2. CASE app = [ver |-> 1, whole |-> TRUE]
    BY <2>2
  <2>. QED
    BY <2>1, <2>2 DEF Bundle!Init
<1>2. InstallTypes
  BY <1>1 DEF Bundle!Init, InstallTypes, Bundle!Missing, Bundle!Actors
<1>3. StartedIsCurrent /\ OneInstalls
  BY DEF Bundle!Init, StartedIsCurrent, OneInstalls
<1>4. Bundle!InstallHolds
  BY <1>1 DEF Bundle!Init, Bundle!InstallHolds
<1>. QED
  BY <1>2, <1>3, <1>4 DEF InstallInv

(* A step of the daemon, or of the machine. *)
LEMMA InstallBeside ==
  ASSUME InstallInv, InstallTypes', StartedIsCurrent', UNCHANGED <<app, tool, seen>>,
         \A a \in Bundle!Actors : step'[a] \notin {"copy", "boot"} \/ step'[a] = step[a]
  PROVE  InstallInv'
BY DEF InstallInv, OneInstalls, Bundle!InstallHolds

LEMMA InstallStep == ASSUME InstallInv, [Bundle!Next]_install PROVE InstallInv'
<1>. USE DEF Bundle!Actors, Bundle!Missing, Bundle!Other, Bundle!Places, Bundle!Goes,
             Bundle!machine, Bundle!ai, Bundle!text
<1>0. /\ \A p : Bundle!CodeAt(p) \in {0, bundled}
      /\ Bundle!AfterDaemon \in {"off", "stop"}
      /\ Bundle!DaemonAction \in {"leave", "write", "keep", "restart"}
      /\ InstallTypes /\ StartedIsCurrent
  BY DEF InstallInv, InstallTypes, Bundle!CodeAt, Bundle!AfterDaemon, Bundle!DaemonAction
<1>1. CASE Bundle!Launch
  BY <1>0, <1>1, InstallBeside DEF Bundle!Launch, InstallTypes, StartedIsCurrent
<1>2. CASE Bundle!Write
  BY <1>0, <1>2, InstallBeside DEF Bundle!Write, InstallTypes, StartedIsCurrent
<1>3. CASE Bundle!Bootstrap
  BY <1>0, <1>3, InstallBeside DEF Bundle!Bootstrap, InstallTypes, StartedIsCurrent
<1>4. CASE Bundle!Restart
  BY <1>0, <1>4, InstallBeside DEF Bundle!Restart, Bundle!Remembered, InstallTypes, StartedIsCurrent
<1>5. CASE Bundle!Keep
  BY <1>0, <1>5, InstallBeside DEF Bundle!Keep, InstallTypes, StartedIsCurrent
<1>6. CASE Bundle!Press
  BY <1>0, <1>6, InstallBeside DEF Bundle!Press, InstallTypes, StartedIsCurrent
<1>7. CASE Bundle!Crash \/ Bundle!UpdateApp \/ Bundle!MoveApp \/ Bundle!DeveloperInstalls \/ Bundle!Login \/ Bundle!DaemonEnds
  BY <1>0, <1>7, InstallBeside
  DEF Bundle!Crash, Bundle!UpdateApp, Bundle!MoveApp, Bundle!DeveloperInstalls, Bundle!Login, Bundle!DaemonEnds,
      InstallTypes, StartedIsCurrent
<1>8. CASE Bundle!CrashInSwap
  <2>1. PICK a \in Bundle!Actors : step[a] = "copy"
    BY <1>8 DEF Bundle!CrashInSwap, Bundle!Copying
  <2>2. /\ UNCHANGED <<bundled, place, agent, loaded, daemon, started, tool>> /\ app' = Bundle!Nothing
        /\ step' = [b \in Bundle!Actors |-> "off"] /\ seen' = [seen EXCEPT !.swap = TRUE]
    BY <1>8 DEF Bundle!CrashInSwap
  <2>. QED
    BY <1>0, <2>1, <2>2 DEF InstallInv, InstallTypes, StartedIsCurrent, OneInstalls, Bundle!InstallHolds, Bundle!Nothing
<1>9. ASSUME NEW a \in Bundle!Actors, Bundle!Stop(a) PROVE InstallInv'
  <2>1. InstallTypes' /\ StartedIsCurrent'
    BY <1>0, <1>9 DEF Bundle!Stop, InstallTypes, StartedIsCurrent
  <2>2. ASSUME ~seen'.met
        PROVE  ~seen.met /\ \A b \in Bundle!Actors \ {a} : step[b] \notin {"copy", "boot"}
    BY <1>0, <1>9, <2>2 DEF Bundle!Stop, InstallTypes
  <2>3. seen'.installed = seen.installed /\ seen'.swap = seen.swap /\ app' = app /\ ~tool'
    BY <1>0, <1>9 DEF Bundle!Stop, InstallTypes
  <2>4. step'[a] = "copy" /\ \A b \in Bundle!Actors \ {a} : step'[b] = step[b]
    BY <1>0, <1>9 DEF Bundle!Stop, InstallTypes
  <2>5. OneInstalls'
    BY <2>2, <2>3, <2>4 DEF OneInstalls
  <2>. QED
    BY <2>1, <2>2, <2>3, <2>5 DEF InstallInv, Bundle!InstallHolds
<1>10. ASSUME NEW a \in Bundle!Actors, Bundle!CopyFails(a) PROVE InstallInv'
  BY <1>0, <1>10, InstallBeside DEF Bundle!CopyFails, InstallTypes, StartedIsCurrent
<1>11. ASSUME NEW a \in Bundle!Actors, Bundle!Swap(a) PROVE InstallInv'
  <2>1. PICK c \in Bundle!Copies : app' = c /\ step' = [step EXCEPT ![a] = IF c = Bundle!Nothing THEN "off" ELSE "boot"]
    BY <1>11 DEF Bundle!Swap, Bundle!Swapped
  <2>2. /\ step[a] = "copy" /\ seen' = [seen EXCEPT !.installed = TRUE]
        /\ UNCHANGED <<bundled, place, agent, loaded, daemon, started, tool>>
    BY <1>11 DEF Bundle!Swap, Bundle!Copying
  <2>3. /\ c \in [ver : Nat, whole : BOOLEAN]
        /\ ~seen.met => c.whole /\ c # Bundle!Nothing
    <3>1. CASE seen.met
      <4>1. CASE c = Bundle!Nothing
        BY <3>1, <4>1 DEF Bundle!Nothing
      <4>2. CASE c \in [ver : {0, bundled}, whole : BOOLEAN]
        BY <1>0, <3>1, <4>2 DEF InstallTypes
      <4>. QED
        BY <3>1, <4>1, <4>2 DEF Bundle!Copies
    <3>2. CASE ~seen.met
      <4>1. c = [ver |-> bundled, whole |-> TRUE]
        BY <3>2 DEF Bundle!Copies
      <4>. QED
        BY <1>0, <4>1 DEF Bundle!Nothing, InstallTypes
    <3>. QED
      BY <3>1, <3>2
  <2>4. InstallTypes' /\ StartedIsCurrent'
    BY <1>0, <2>1, <2>2, <2>3 DEF InstallTypes, StartedIsCurrent
  <2>5. /\ seen'.met = seen.met /\ step'[a] \in {"off", "boot"}
        /\ \A b \in Bundle!Actors \ {a} : step'[b] = step[b]
    BY <1>0, <2>1, <2>2 DEF InstallTypes
  <2>6. OneInstalls'
    BY <2>1, <2>2, <2>3, <2>5 DEF OneInstalls, InstallInv
  <2>. QED
    BY <2>1, <2>3, <2>4, <2>5, <2>6 DEF InstallInv, Bundle!InstallHolds
<1>12. ASSUME NEW a \in Bundle!Actors, Bundle!Boot(a) PROVE InstallInv'
  <2>1. /\ step[a] = "boot" /\ step' = [step EXCEPT ![a] = "off"] /\ tool' \in {tool, TRUE}
        /\ UNCHANGED <<bundled, place, agent, loaded, daemon, started, app, seen>>
    BY <1>12 DEF Bundle!Boot
  <2>2. InstallTypes' /\ StartedIsCurrent'
    BY <1>0, <2>1 DEF InstallTypes, StartedIsCurrent
  <2>3. step'[a] = "off" /\ \A b \in Bundle!Actors \ {a} : step'[b] = step[b]
    BY <1>0, <2>1 DEF InstallTypes
  <2>4. ~seen.met => app # Bundle!Nothing /\ \A b \in Bundle!Actors \ {a} : step[b] \notin {"copy", "boot"}
    BY <2>1 DEF InstallInv, OneInstalls
  <2>5. OneInstalls'
    BY <2>1, <2>3, <2>4 DEF OneInstalls
  <2>. QED
    BY <2>1, <2>2, <2>4, <2>5 DEF InstallInv, Bundle!InstallHolds
<1>13. CASE UNCHANGED install
  BY <1>13 DEF install, InstallInv, InstallTypes, StartedIsCurrent, OneInstalls, Bundle!InstallHolds
<1>. QED
  BY <1>1, <1>2, <1>3, <1>4, <1>5, <1>6, <1>7, <1>8, <1>9, <1>10, <1>11, <1>12, <1>13 DEF Bundle!Next

LEMMA InstallIsRight == ASSUME InstallInv PROVE Bundle!KeptIsCurrent /\ Bundle!InstallHolds
<1>1. Bundle!DaemonAction = "keep" => started = bundled
  BY DEF InstallInv, InstallTypes, Bundle!DaemonAction, Bundle!Missing, Bundle!Other, Bundle!Places
<1>. QED
  BY <1>1 DEF InstallInv, StartedIsCurrent, Bundle!KeptIsCurrent

-----------------------------------------------------------------------------
(* The file of the model.  Until the file on the server changes every      *)
(* block of the part is of its first version, and a run knows how many     *)
(* there will be.                                                          *)

FileInv ==
  /\ version \in Nat \ {0} /\ partFile \in Seq(Nat)
  /\ run \in [step : {"off", "asked", "streams"}, of : Nat, rest : Int, total : Int]
  /\ version = 1 =>
       /\ \A i \in DOMAIN partFile : partFile[i] = 1
       /\ run.step = "streams" => run.of = 1 /\ run.total = Size
  /\ Fetch!Whole

LEMMA FileStep == ASSUME FileInv, [Fetch!Next]_download PROVE FileInv'
<1>. USE BoundsAssumption DEF BoundsAssumption
<1>0. version \in Nat \ {0} /\ partFile \in Seq(Nat) /\ Len(partFile) \in Nat
  BY DEF FileInv
<1>9. run \in [step : {"off", "asked", "streams"}, of : Nat, rest : Int, total : Int]
  BY DEF FileInv
<1>1. CASE Fetch!Start
  BY <1>1 DEF Fetch!Start, Fetch!NoRun, FileInv, Fetch!Whole
<1>2. CASE Fetch!Answered
  <2>1. UNCHANGED <<version, dest>>
    BY <1>2 DEF Fetch!Answered
  <2>2. CASE Fetch!Streams(Fetch!Opened(200), Size)
    <3>1. /\ partFile' = <<>> /\ run'.of = version /\ run'.total = Size
          /\ run' \in [step : {"off", "asked", "streams"}, of : Nat, rest : Int, total : Int]
      BY <2>2, <1>0 DEF Fetch!Streams, Fetch!Opened, Fetch!Total
    <3>. QED
      BY <2>1, <3>1 DEF FileInv, Fetch!Whole
  <2>3. CASE Len(partFile) < Size /\ Fetch!Streams(Fetch!Opened(206), Size - Len(partFile))
    <3>1. /\ partFile' = partFile /\ run'.of = version /\ run'.total = Size
          /\ run' \in [step : {"off", "asked", "streams"}, of : Nat, rest : Int, total : Int]
      BY <2>3, <1>0 DEF Fetch!Streams, Fetch!Opened, Fetch!Total
    <3>. QED
      BY <2>1, <3>1 DEF FileInv, Fetch!Whole
  <2>. QED
    BY <1>2, <2>2, <2>3 DEF Fetch!Answered
<1>3. CASE Fetch!Refused \/ Fetch!Stops
  BY <1>3 DEF Fetch!Refused, Fetch!Stops, Fetch!Ends, Fetch!NoRun, FileInv, Fetch!Whole
<1>4. CASE Fetch!Chunk
  <2>1. /\ run.step = "streams" /\ partFile' = Append(partFile, run.of) /\ run' = [run EXCEPT !.rest = @ - 1]
        /\ UNCHANGED <<version, dest>>
    BY <1>4 DEF Fetch!Chunk
  <2>2. /\ run'.of = run.of /\ run'.total = run.total /\ run'.step = run.step
        /\ run' \in [step : {"off", "asked", "streams"}, of : Nat, rest : Int, total : Int]
    BY <2>1, <1>9
  <2>. QED
    BY <2>1, <2>2, <1>0 DEF FileInv, Fetch!Whole
<1>5. CASE Fetch!Arrives
  <2>1. UNCHANGED version /\ run' = Fetch!NoRun /\ run.step = "streams"
    BY <1>5 DEF Fetch!Arrives, Fetch!Ends
  <2>2. CASE Len(partFile) = run.total
    <3>1. dest' = partFile /\ partFile' = <<>>
      BY <1>5, <2>2 DEF Fetch!Arrives
    <3>2. version = 1 => partFile = [i \in 1..Size |-> 1]
      BY <1>0, <2>1, <2>2 DEF FileInv
    <3>. QED
      BY <2>1, <3>1, <3>2, <1>0 DEF FileInv, Fetch!Whole, Fetch!NoRun
  <2>3. CASE Len(partFile) # run.total
    BY <1>5, <2>1, <2>3 DEF Fetch!Arrives, FileInv, Fetch!Whole, Fetch!NoRun
  <2>. QED
    BY <2>2, <2>3
<1>6. CASE Fetch!Changes
  BY <1>0, <1>6 DEF Fetch!Changes, FileInv, Fetch!Whole
<1>7. CASE UNCHANGED download
  BY <1>7 DEF download, FileInv, Fetch!Whole
<1>. QED
  BY <1>1, <1>2, <1>3, <1>4, <1>5, <1>6, <1>7 DEF Fetch!Next

-----------------------------------------------------------------------------
(* The setup.  The last answer on its way brings the step that is stored.  *)

SetupSteps == {"welcome", "accounts", "ai", "model", "text", "done"}

SetupInv ==
  /\ replies \in Seq(SetupSteps) /\ stored \in SetupSteps /\ done \in BOOLEAN /\ signedIn \in BOOLEAN
  /\ open /\ ~done /\ ~late =>
       IF replies = <<>> THEN stored = screen ELSE replies[Len(replies)] = stored

LEMMA SetupStep == ASSUME SetupInv, [Wizard!Next]_wizard PROVE SetupInv'
<1>1. CASE Wizard!Finish
  <2>1. /\ replies' = Append(replies, "done") /\ stored' = stored /\ done' = TRUE /\ ~open'
        /\ signedIn' = signedIn
    BY <1>1 DEF Wizard!Finish, Wizard!Info, Wizard!IsDone, Wizard!Resume
  <2>. QED
    BY <2>1 DEF SetupInv, SetupSteps
<1>2. CASE Wizard!Reopen
  <2>1. /\ replies' = Append(replies, Wizard!Resume(done', "welcome")) /\ stored' = "welcome"
        /\ done' = signedIn /\ signedIn' = signedIn
    BY <1>2 DEF Wizard!Reopen, Wizard!Info, Wizard!IsDone, SetupInv
  <2>2. Wizard!Resume(done', "welcome") \in SetupSteps /\ "welcome" \in SetupSteps
    BY DEF Wizard!Resume, SetupSteps
  <2>3. replies' \in Seq(SetupSteps) /\ replies' # <<>> /\ replies'[Len(replies')] = Wizard!Resume(done', "welcome")
    BY <2>1, <2>2 DEF SetupInv
  <2>4. ~done' => Wizard!Resume(done', "welcome") = "welcome"
    BY DEF Wizard!Resume
  <2>. QED
    BY <2>1, <2>2, <2>3, <2>4 DEF SetupInv
<1>3. CASE Wizard!Reply
  <2>1. replies # <<>> /\ screen' = Head(replies) /\ replies' = Tail(replies) /\ UNCHANGED <<done, stored, signedIn, open, late>>
    BY <1>3 DEF Wizard!Reply
  <2>2. replies' \in Seq(SetupSteps) /\ Len(replies) \in Nat \ {0} /\ Len(replies') = Len(replies) - 1
    BY <2>1 DEF SetupInv
  <2>3. /\ Head(replies) = replies[1]
        /\ \A i \in 1 .. Len(replies) - 1 : replies'[i] = replies[i + 1]
        /\ replies' # <<>> => Len(replies') > 0
    BY <2>1, <2>2 DEF SetupInv
  <2>4. /\ replies' = <<>> => Head(replies) = replies[Len(replies)]
        /\ replies' # <<>> => replies'[Len(replies')] = replies[Len(replies)]
    BY <2>2, <2>3
  <2>. QED
    BY <2>1, <2>2, <2>4 DEF SetupInv
<1>4. CASE Wizard!SignIn \/ Wizard!Lapse \/ UNCHANGED wizard
  <2>1. UNCHANGED <<done, stored, open, screen, replies, late>> /\ signedIn' \in {signedIn, TRUE, FALSE}
    BY <1>4 DEF Wizard!SignIn, Wizard!Lapse, wizard
  <2>. QED
    BY <2>1 DEF SetupInv
<1>5. CASE Wizard!Relaunch
  BY <1>5 DEF Wizard!Relaunch, Wizard!IsDone, Wizard!Resume, SetupInv
<1>6. ASSUME NEW i \in DOMAIN Wizard!Steps, Wizard!GoTo(Wizard!Steps[i]) PROVE SetupInv'
  <2>1. i \in 1..6
    BY DEF Wizard!Steps
  <2>2. Wizard!Steps[i] \in SetupSteps
    BY <2>1 DEF Wizard!Steps, SetupSteps
  <2>. QED
    BY <1>6, <2>2 DEF Wizard!GoTo, Wizard!IsDone, Wizard!Stored, SetupInv
<1>. QED
  BY <1>1, <1>2, <1>3, <1>4, <1>5, <1>6 DEF Wizard!Next

-----------------------------------------------------------------------------
(* The config file.  As long as nobody wrote between the reading and the   *)
(* writing of the other, what either is about to write differs from the    *)
(* file only in what he means to change.                                   *)

ConfigFiles == [there : BOOLEAN, secrets : SUBSET Config!Choices, token : Nat, model : BOOLEAN]

ConfigInv ==
  /\ file \in ConfigFiles /\ met \in BOOLEAN /\ starts \in Nat
  /\ patch \in [step : {"none", "write"}, file : ConfigFiles, chose : Config!Choices]
  /\ reader \in [step : {"off", "listens", "up"}, file : ConfigFiles]
  /\ chosen \in Config!Choices
  /\ ~met =>
       /\ file.secrets = Config!Secret(chosen)
       /\ patch.step = "write" =>
            /\ reader.step # "listens"
            /\ patch.file.secrets = Config!Secret(patch.chose) /\ patch.file.token = file.token
       /\ reader.step = "listens" => reader.file.secrets = file.secrets
       /\ reader.step = "up" => reader.file.token = file.token

LEMMA ConfigStep == ASSUME ConfigInv, [Config!Next]_config PROVE ConfigInv'
<1>. DEFINE Patches == [step : {"none", "write"}, file : ConfigFiles, chose : Config!Choices]
            Readers == [step : {"off", "listens", "up"}, file : ConfigFiles]
<1>0. /\ file \in ConfigFiles /\ met \in BOOLEAN /\ starts \in Nat
      /\ patch \in Patches /\ reader \in Readers /\ chosen \in Config!Choices
      /\ patch.file \in ConfigFiles /\ reader.file \in ConfigFiles
      /\ patch.step \in {"none", "write"} /\ reader.step \in {"off", "listens", "up"} /\ patch.chose \in Config!Choices
  BY DEF ConfigInv
<1>1. Config!NoFile \in ConfigFiles /\ Config!NoPatch \in Patches /\ Config!NoDaemon \in Readers
      /\ Config!NoPatch.step = "none" /\ Config!NoDaemon.step = "off"
  <2>1. Config!NoFile \in ConfigFiles
    BY DEF Config!NoFile, ConfigFiles
  <2>2. "local" \in Config!Choices
    BY DEF Config!Choices
  <2>. QED
    BY <2>1, <2>2 DEF Config!NoPatch, Config!NoDaemon
<1>2. ASSUME NEW c \in Config!Choices \cup {"model"}, Config!Patch(c) PROVE ConfigInv'
  <2>. DEFINE f == IF c = "model" THEN [file EXCEPT !.there = TRUE, !.model = TRUE] ELSE Config!Choice(c)
              w == IF c = "model" THEN chosen ELSE c
  <2>1. /\ patch' = [step |-> "write", file |-> f, chose |-> w]
        /\ met' = (met \/ reader.step \notin {"none", "off", "up"})
        /\ UNCHANGED <<file, chosen, reader, starts>>
    BY <1>2 DEF Config!Patch, Config!Meets
  <2>2. f \in ConfigFiles /\ f.token = file.token /\ f.secrets = IF c = "model" THEN file.secrets ELSE Config!Secret(c)
    BY <1>0 DEF ConfigFiles, Config!Choice, Config!Secret
  <2>3. w \in Config!Choices
    BY <1>0 DEF Config!Choices
  <2>. HIDE DEF f, w
  <2>4. patch' \in Patches /\ patch'.step = "write" /\ patch'.file = f /\ patch'.chose = w
    BY <2>1, <2>2, <2>3
  <2>5. ~met' => ~met /\ reader.step # "listens"
    BY <2>1
  <2>6. ~met => f.secrets = Config!Secret(w)
    BY <2>2 DEF w, ConfigInv
  <2>7. met' \in BOOLEAN
    BY <1>0, <2>1
  <2>. QED
    BY <1>0, <2>1, <2>2, <2>4, <2>5, <2>6, <2>7 DEF ConfigInv
<1>3. CASE Config!PatchWrites
  <2>1. /\ patch.step = "write" /\ file' = patch.file /\ chosen' = patch.chose /\ patch' = Config!NoPatch
        /\ UNCHANGED <<reader, met, starts>>
    BY <1>3 DEF Config!PatchWrites, Config!bounds
  <2>. QED
    BY <1>0, <1>1, <2>1 DEF ConfigInv
<1>4. CASE Config!DaemonStarts
  <2>. DEFINE k == IF file.token = 0 THEN starts + 1 ELSE file.token
              f == [file EXCEPT !.there = TRUE, !.token = k]
  <2>1. /\ reader' = [step |-> "listens", file |-> f]
        /\ met' = (met \/ patch.step \notin {"none", "off", "up"})
        /\ UNCHANGED <<file, patch, chosen>> /\ starts' = starts + 1
    BY <1>4 DEF Config!DaemonStarts, Config!Meets
  <2>2. f \in ConfigFiles /\ f.secrets = file.secrets
    <3>1. k \in Nat
      BY <1>0 DEF ConfigFiles
    <3>. HIDE DEF k
    <3>. QED
      BY <1>0, <3>1 DEF ConfigFiles
  <2>. HIDE DEF f
  <2>3. reader' \in Readers /\ reader'.step = "listens" /\ reader'.file = f
    BY <1>0, <2>1, <2>2
  <2>4. met' \in BOOLEAN /\ (~met' => ~met /\ patch.step # "write") /\ starts' \in Nat
    <3>1. starts' \in Nat
      BY <1>0, <2>1
    <3>. QED
      BY <1>0, <2>1, <3>1
  <2>. QED
    BY <1>0, <2>1, <2>2, <2>3, <2>4 DEF ConfigInv
<1>5. CASE Config!DaemonSaves
  <2>1. /\ reader.step = "listens" /\ file' = reader.file /\ reader' = [reader EXCEPT !.step = "up"]
        /\ met' = (met \/ patch.step \notin {"none", "off", "up"})
        /\ UNCHANGED <<patch, chosen, starts>>
    BY <1>5 DEF Config!DaemonSaves, Config!Meets, Config!bounds
  <2>2. reader' \in Readers /\ reader'.step = "up" /\ reader'.file = reader.file
    BY <1>0, <2>1
  <2>3. met' \in BOOLEAN /\ (~met' => ~met /\ patch.step # "write")
    BY <1>0, <2>1
  <2>. QED
    BY <1>0, <2>1, <2>2, <2>3 DEF ConfigInv
<1>6. CASE Config!DaemonEnds
  BY <1>0, <1>1, <1>6 DEF Config!DaemonEnds, Config!bounds, ConfigInv
<1>7. CASE Config!Relaunch
  BY <1>0, <1>1, <1>7 DEF Config!Relaunch, ConfigInv
<1>8. CASE Config!Call \/ Config!Reload \/ UNCHANGED config
  BY <1>0, <1>8 DEF Config!Call, Config!Reload, Config!bounds, config, ConfigInv
<1>. QED
  BY <1>2, <1>3, <1>4, <1>5, <1>6, <1>7, <1>8 DEF Config!Next

-----------------------------------------------------------------------------
(* The photos.  What a failed download left is of this session; everything *)
(* else that stands in the way of a picture stands there for good.         *)

Lasting == misses \ {"download"} # {}

PhotosInv ==
  /\ at \subseteq Photos!Hops
  /\ url \in {Photos!Unknown, Photos!Nothing} \cup Photos!Hops
  /\ url = Photos!Nothing => at = {} \/ Lasting
  /\ photo = Photos!Miss => at = {} \/ misses # {}
  /\ task = "gravatar" => "people" \notin at \/ Lasting

LEMMA PhotosStep == ASSUME PhotosInv, [Photos!Next]_photos PROVE PhotosInv'
<1>. USE DEF Photos!Hops, Photos!Nothing, Photos!Miss, Photos!Unasked, Photos!Idle, Photos!Unknown, Photos!Missed,
             Photos!Trouble
<1>0. (Lasting => misses # {}) /\ (Lasting' => misses' # {})
  BY DEF Lasting
<1>9. misses \subseteq misses' => (Lasting => Lasting')
  BY DEF Lasting
<1>1. CASE Photos!Ask
  <2>1. misses' = (IF url = Photos!Unknown /\ ~online THEN misses \cup {"nobody"} ELSE misses)
        /\ UNCHANGED <<at, url>>
    BY <1>1 DEF Photos!Ask
  <2>2. misses \subseteq misses' /\ (url = Photos!Unknown /\ ~online => Lasting')
    BY <2>1 DEF Lasting
  <2>3. task' = "gravatar" => url # Photos!Nothing /\ url \notin Photos!Hops /\ ~online
    BY <1>1 DEF Photos!Ask
  <2>. QED
    BY <1>0, <1>1, <1>9, <2>1, <2>2, <2>3 DEF Photos!Ask, PhotosInv
<1>2. CASE Photos!People
  <2>1. \/ UNCHANGED misses /\ (task' = "gravatar" => "people" \notin at)
        \/ misses' = misses \cup {"people"}
    BY <1>2 DEF Photos!People
  <2>2. misses \subseteq misses' /\ (misses' = misses \cup {"people"} => Lasting')
    BY <2>1 DEF Lasting
  <2>. QED
    BY <1>0, <1>2, <1>9, <2>1, <2>2 DEF Photos!People, PhotosInv
<1>3. CASE Photos!Gravatar
  <2>1. /\ task = "gravatar" /\ task' # "gravatar" /\ at' = at
        /\ misses' = misses \cup {"gravatar"} \/ (misses' = misses /\ url' = Photos!Recorded("gravatar" \in at))
        /\ url' = Photos!Recorded("gravatar" \in at) \/ url' = Photos!Nothing
        /\ photo' = photo \/ (photo' = Photos!Miss /\ url' = Photos!Nothing)
    BY <1>3 DEF Photos!Gravatar, Photos!Recorded
  <2>2. misses \subseteq misses' /\ (misses' = misses \cup {"gravatar"} => Lasting')
    BY <2>1 DEF Lasting
  <2>. QED
    BY <1>0, <1>9, <2>1, <2>2 DEF Photos!Recorded, PhotosInv
<1>4. CASE Photos!Download
  <2>1. misses \subseteq misses' /\ (photo' = Photos!Miss => misses' # {} \/ url = Photos!Miss)
    BY <1>4 DEF Photos!Download
  <2>. QED
    BY <1>4, <1>9, <2>1 DEF Photos!Download, PhotosInv
<1>5. CASE Photos!SignOut \/ Photos!SignIn \/ Photos!Restart \/ UNCHANGED photos
  <2>1. /\ UNCHANGED <<at, url>> /\ task' \in {task, Photos!Idle} /\ photo' \in {photo, Photos!Unasked}
        /\ misses' = misses \/ (misses' = misses \ {"download"} /\ photo' = Photos!Unasked)
    BY <1>5 DEF Photos!SignOut, Photos!SignIn, Photos!Restart, photos
  <2>2. Lasting => Lasting'
    BY <2>1 DEF Lasting
  <2>. QED
    BY <2>1, <2>2 DEF PhotosInv
<1>. QED
  BY <1>1, <1>2, <1>3, <1>4, <1>5 DEF Photos!Next

-----------------------------------------------------------------------------
(* What the app keeps on this machine, all of it. *)

KeptInv == InstallInv /\ FileInv /\ SetupInv /\ ConfigInv /\ PhotosInv

(* What the launch keeps is current, what is installed is whole, a quit    *)
(* comes back to its screen, the choice of AI is the last one and a photo  *)
(* is recorded as missing only when there is none, each but for what its   *)
(* property excepts: for any number of versions, of failures and of blocks *)
(* of the file.                                                            *)
THEOREM Keeping == AllSpec => []KeptHolds
<1>1. ASSUME AllInit PROVE KeptInv
  <2>1. InstallInv
    BY <1>1, InstallInit DEF AllInit
  <2>2. FileInv
    BY <1>1 DEF AllInit, Fetch!Init, Fetch!NoRun, FileInv, Fetch!Whole
  <2>3. SetupInv
    <3>1. replies = <<>> /\ stored = "welcome" /\ screen = "welcome" /\ done = FALSE /\ signedIn = FALSE
      BY <1>1 DEF AllInit, Wizard!Init
    <3>. QED
      <4>1. stored \in SetupSteps
        BY <3>1 DEF SetupSteps
      <4>2. replies \in Seq(SetupSteps)
        BY <3>1
      <4>. QED
        BY <3>1, <4>1, <4>2, Zenon DEF SetupInv
  <2>4. ConfigInv
    BY <1>1 DEF AllInit, Config!Init, Config!NoFile, Config!NoPatch, Config!NoDaemon, Config!Secret, Config!Choices, ConfigFiles, ConfigInv
  <2>5. PhotosInv
    BY <1>1 DEF AllInit, Photos!Init, Photos!Nothing, Photos!Miss, Photos!Unasked, Photos!Unknown, Photos!Idle, PhotosInv
  <2>. QED
    BY <2>1, <2>2, <2>3, <2>4, <2>5 DEF KeptInv
<1>2. ASSUME KeptInv, [AllNext]_<<part, claude, model, download, signIn, install, wizard, config, sidebar, photos>>
      PROVE  KeptInv'
  BY <1>2, OneOfEach, InstallStep, FileStep, SetupStep, ConfigStep, PhotosStep DEF KeptInv
<1>3. ASSUME KeptInv PROVE KeptHolds
  <2>1. Bundle!KeptIsCurrent /\ Bundle!InstallHolds /\ Fetch!Whole
    BY <1>3, InstallIsRight DEF KeptInv, FileInv
  <2>2. Wizard!Resumes
    BY <1>3 DEF KeptInv, SetupInv, Wizard!Resumes
  <2>3. Config!ChoiceHolds
    BY <1>3 DEF KeptInv, ConfigInv, Config!ChoiceHolds
  <2>4. Photos!NothingIsNothing
    BY <1>3 DEF KeptInv, PhotosInv, Lasting, Photos!NothingIsNothing
  <2>. QED
    BY <2>1, <2>2, <2>3, <2>4 DEF KeptHolds
<1>. QED
  BY <1>1, <1>2, <1>3, PTL DEF AllSpec
=============================================================================
