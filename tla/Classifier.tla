---------------------------- MODULE Classifier ----------------------------
(***************************************************************************)
(* The background classifier: passes over the threads that want a verdict, *)
(* the reclassification a new category starts, filing by hand beside both, *)
(* and the sweep after the rules changed.                                  *)
(*                                                                         *)
(*   apps/desktop/electron/classify/pipeline.ts     Classifier             *)
(*   apps/desktop/electron/classify/corrections.ts  refileThread           *)
(*   apps/desktop/electron/ipc/ai.ts                categories:create      *)
(*   packages/store/src/queries/classify.ts         the threads wanted     *)
(*                                                                         *)
(* A message is a number of its thread, a verdict says which message was   *)
(* read for it and which it is recorded for.  Rules answer at once; for    *)
(* the rest the model is awaited, and the process does other things        *)
(* meanwhile.  Scores, types and Gmail labels are left out.                *)
(***************************************************************************)
EXTENDS Naturals, Sequences, SequencesExt, FiniteSets, FiniteSetsExt

CONSTANTS
  Threads,
  Ruled,       \* What the rules can type: pairs of a thread and a message.
  Batch,       \* Threads of a pass (40), one at least.
  MaxMsgs,     \* Bound: messages of a thread.
  MaxFilings,  \* Bound: threads filed by hand.
  MaxCreates,  \* Bound: categories created.
  MaxFaults    \* Bound: answers the model does not give, restarts.

VARIABLES
  newest,   \* The last message of a thread, 0 when there is no such thread.
  verdict,  \* classifications
  pass,     \* The pass that runs, or Idle.
  redo,     \* The reclassification that runs, or Idle.
  queued,   \* A poke came during a pass, or a full batch was done.
  paused,   \* Before pausedUntil.
  untold,   \* History: threads whose verdict changed with no threads:changed.
  late,     \* History: threads filed since the work of a pass was read.
  counted   \* filings, creates, faults

vars == <<newest, verdict, pass, redo, queued, paused, untold, late, counted>>

None == [source |-> "none", of |-> 0, last |-> 0]
Idle == [todo |-> <<>>, asked |-> 0, touched |-> {}, full |-> FALSE, runs |-> FALSE]
Run(threads, full) == [Idle EXCEPT !.todo = threads, !.full = full, !.runs = TRUE]

Here == {t \in Threads : newest[t] > 0}
Count(what) == counted' = [counted EXCEPT ![what] = @ + 1]

(* A fault: only threads with no verdict are wanted. *)
FaultyOutdated(t) == verdict[t] = None

(* No verdict, or one that is recorded for an older message. *)
Outdated(t) == verdict[t].last # newest[t]

(* A fault: what was filed by hand is not left out. *)
FaultyWanted == {t \in Here : Outdated(t)}

(* threadsNeedingClassification *)
Wanted == {t \in Here : verdict[t].source # "manual" /\ Outdated(t)}

(* The newest first; any order here. *)
Orders(S, n) == UNION {SetToSeqs(T) : T \in kSubset(n, S)}

Init ==
  /\ newest = [t \in Threads |-> 0]
  /\ verdict = [t \in Threads |-> None]
  /\ pass = Idle /\ redo = Idle
  /\ queued = FALSE /\ paused = FALSE
  /\ untold = {} /\ late = {}
  /\ counted = [filings |-> 0, creates |-> 0, faults |-> 0]

-----------------------------------------------------------------------------
(* A pass. *)

(* A pass begins, unless the model is away: the loop of run. *)
Begins(p) ==
  LET n == Min({Batch, Cardinality(Wanted)})
  IN  /\ IF paused \/ n = 0 THEN p = Idle
         ELSE \E todo \in Orders(Wanted, n) : p = Run(todo, n = Batch)
      /\ late' = {}

(* poke: a pass begins, or is asked for after the one that runs. *)
Poke ==
  IF pass.runs THEN queued' = TRUE /\ UNCHANGED <<pass, late>> ELSE queued' = FALSE /\ Begins(pass')

(* The sync brings a message. *)
Arrives(t) ==
  /\ newest[t] < MaxMsgs
  /\ newest' = [newest EXCEPT ![t] = @ + 1]
  /\ UNCHANGED <<verdict, pass, redo, queued, paused, untold, late, counted>>

(* Every minute, and when the sync changed a thread: poke. *)
Tick ==
  /\ ~pass.runs \/ ~queued
  /\ Poke
  /\ UNCHANGED <<newest, verdict, redo, paused, untold, counted>>

(* upsertClassification: recorded for the newest message there is now. *)
Record(t, source, of) ==
  verdict' = [verdict EXCEPT ![t] = [source |-> source, of |-> of, last |-> newest[t]]]

(* The thread at the head of a run, answered by the rules or asked of the  *)
(* model.                                                                  *)
Answered(run, t) ==
  [run EXCEPT !.todo = Tail(@), !.asked = 0, !.touched = @ \cup {t}]

Rules(run, new) ==
  LET t == Head(run.todo)
  IN  /\ run.asked = 0 /\ <<t, newest[t]>> \in Ruled
      /\ Record(t, "rule", newest[t])
      /\ new = Answered(run, t)
      /\ untold' = untold \cup {t}

Asks(run, new) ==
  LET t == Head(run.todo)
  IN  /\ run.asked = 0 /\ <<t, newest[t]>> \notin Ruled
      /\ new = [run EXCEPT !.asked = newest[t]]
      /\ UNCHANGED <<verdict, untold>>

Answers(run, new) ==
  LET t == Head(run.todo)
  IN  /\ run.asked # 0
      /\ Record(t, "local", run.asked)
      /\ new = Answered(run, t)
      /\ untold' = untold \cup {t}

PassRules == pass.todo # <<>> /\ Rules(pass, pass') /\ UNCHANGED <<newest, redo, queued, paused, late, counted>>
PassAsks == pass.todo # <<>> /\ Asks(pass, pass') /\ UNCHANGED <<newest, redo, queued, paused, late, counted>>
PassAnswers == pass.todo # <<>> /\ Answers(pass, pass') /\ UNCHANGED <<newest, redo, queued, paused, late, counted>>

(* A fault: a pass that stops early announces nothing. *)
FaultyTell(run) == IF run.todo = <<>> THEN untold \ run.touched ELSE untold

(* onChanged *)
Tell(run) == untold \ run.touched

(* The threads are done: what changed is announced, and another pass       *)
(* begins when one was asked for or the batch was full.                    *)
PassEnds ==
  /\ pass.runs /\ pass.todo = <<>>
  /\ untold' = Tell(pass)
  /\ queued' = FALSE
  /\ IF queued \/ pass.full THEN Begins(pass') ELSE pass' = Idle /\ UNCHANGED late
  /\ UNCHANGED <<newest, verdict, redo, paused, counted>>

(* AiError: three minutes without the model. *)
PassFails ==
  /\ pass.asked # 0 /\ counted.faults < MaxFaults /\ Count("faults")
  /\ paused' = TRUE
  /\ untold' = Tell(pass)
  /\ pass' = Idle /\ queued' = FALSE
  /\ UNCHANGED <<newest, verdict, redo, late>>

Unpause ==
  /\ paused /\ paused' = FALSE
  /\ UNCHANGED <<newest, verdict, pass, redo, queued, untold, late, counted>>

-----------------------------------------------------------------------------
(* Beside it. *)

(* refileThread: the verdict is the person's, for good. *)
Refile(t) ==
  /\ t \in Here /\ counted.filings < MaxFilings /\ Count("filings")
  /\ Record(t, "manual", newest[t])
  /\ late' = late \cup {t}
  /\ UNCHANGED <<newest, pass, redo, queued, paused, untold>>

(* categories:create, reclassifyRecent: every recent thread, whoever filed *)
(* it, asked of the model beside a pass.                                   *)
CreateCategory ==
  /\ counted.creates < MaxCreates /\ Count("creates")
  /\ ~redo.runs /\ Here # {}
  /\ \E todo \in SetToSeqs(Here) : redo' = Run(todo, FALSE)
  /\ UNCHANGED <<newest, verdict, pass, queued, paused, untold, late>>

RedoRules == redo.todo # <<>> /\ Rules(redo, redo') /\ UNCHANGED <<newest, pass, queued, paused, late, counted>>
RedoAsks == redo.todo # <<>> /\ Asks(redo, redo') /\ UNCHANGED <<newest, pass, queued, paused, late, counted>>
RedoAnswers == redo.todo # <<>> /\ Answers(redo, redo') /\ UNCHANGED <<newest, pass, queued, paused, late, counted>>

(* All done, or the model is away. *)
RedoEnds ==
  /\ redo.runs
  /\ \/ redo.todo = <<>> /\ UNCHANGED counted
     \/ redo.asked # 0 /\ counted.faults < MaxFaults /\ Count("faults")
  /\ untold' = Tell(redo)
  /\ redo' = Idle
  /\ UNCHANGED <<newest, verdict, pass, queued, paused, late>>

(* reclassifyAfterRuleChange: only the verdicts of the rules go. *)
Kept(v) == IF v.source = "rule" THEN None ELSE v

(* The app starts again, perhaps with new rules: they answer what they can *)
(* before the first pass (sweepRules), then everything is read afresh.     *)
Restart(bumped) ==
  /\ counted.faults < MaxFaults /\ Count("faults")
  /\ verdict' =
       IF ~bumped THEN verdict
       ELSE [t \in Threads |->
               IF Kept(verdict[t]) = None /\ <<t, newest[t]>> \in Ruled
               THEN [source |-> "rule", of |-> newest[t], last |-> newest[t]]
               ELSE Kept(verdict[t])]
  /\ pass' = Idle /\ redo' = Idle /\ queued' = FALSE /\ paused' = FALSE
  /\ untold' = {} /\ late' = {}
  /\ UNCHANGED newest

Next ==
  \/ \E t \in Threads : Arrives(t) \/ Refile(t)
  \/ Tick \/ Unpause
  \/ PassRules \/ PassAsks \/ PassAnswers \/ PassEnds \/ PassFails
  \/ CreateCategory \/ RedoRules \/ RedoAsks \/ RedoAnswers \/ RedoEnds
  \/ \E bumped \in BOOLEAN : Restart(bumped)

PassGoesOn == PassRules \/ PassAsks \/ PassAnswers \/ PassEnds

Fairness ==
  /\ WF_vars(Tick) /\ WF_vars(Unpause)
  /\ WF_vars(PassGoesOn)

Spec == Init /\ [][Next]_vars /\ Fairness

-----------------------------------------------------------------------------
(* Properties. *)

(* What was filed by hand is never decided again (pipeline.ts:209, "the    *)
(* manual rows a correction writes stay exactly where the user put them"), *)
(* but by a new category, and by a pass that read its work before.         *)
FiledStays ==
  [][\A t \in Threads : verdict[t].source = "manual" /\ verdict'[t].source # "manual" =>
       t \in late \/ (redo.runs /\ pass' = pass)]_vars

(* Whatever stops a pass or a reclassification, the list is told of every  *)
(* verdict it recorded.                                                    *)
Told == ~pass.runs /\ ~redo.runs => untold = {}

(* Every thread gets a verdict for its newest message, or one by hand,     *)
(* across pauses, full batches and restarts.                               *)
Sorted == <>[](\A t \in Here : verdict[t].source = "manual" \/ verdict[t].last = newest[t])

(* The local model is "never asked for parallel work" (pipeline.ts:2). *)
OneAtATime == pass.asked = 0 \/ redo.asked = 0

(* The manual rows stay exactly where the user put them. *)
ManualStays == [][\A t \in Threads : verdict[t].source = "manual" => verdict'[t].source = "manual"]_vars

(* A verdict recorded for the newest message was reached by reading it. *)
ReadForIt == \A t \in Threads : verdict[t].source # "manual" => verdict[t].of = verdict[t].last
=============================================================================
