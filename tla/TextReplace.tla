---------------------------- MODULE TextReplace ----------------------------
(***************************************************************************)
(* The text tool of the menu bar.  It reads the selection of another       *)
(* application, asks a model, and pastes the answer over the selection.    *)
(* What it has for that are the clipboard, which is the user's, and keys   *)
(* sent to whoever is in front.                                            *)
(*                                                                         *)
(*   packages/text-tools/Sources/ArcformaText/                             *)
(*     Replace/Replacer.swift          capture, verify, replace, restore   *)
(*     Replace/Pasteboard.swift        what was there is put back          *)
(*     Selection/ClipboardCapture.swift  a read by Cmd+C and a sentinel    *)
(*     Selection/SelectionWatcher.swift  the toolbar                       *)
(*     InFlight.swift                  the call that Escape cancels        *)
(*     AppDelegate.swift, Actions/Action.swift   the flows                 *)
(*     AI/AIClient.swift, AI/ClaudeCLI.swift     the model                 *)
(*                                                                         *)
(* A text is a number, the model's version of t is Fixed(t).  A flow is    *)
(* what one key press or click sets off.  The main thread runs one turn at *)
(* a time; between two turns, and during a read by Cmd+C, everybody else   *)
(* may act.  Flavors, rich hosts, line-copy editors, password fields and   *)
(* the grant of Accessibility are left out.                                *)
(***************************************************************************)
EXTENDS Integers, FiniteSets

CONSTANTS
  Hosts,     \* The applications.
  Web,       \* Those whose selection can only be read by Cmd+C.
  Shells,    \* The terminals.
  MaxTexts,  \* Bound: texts to select.
  MaxFlows,  \* Bound: key presses and clicks.
  MaxMoves   \* Bound: selections, copies, restarts.

ASSUME TextReplaceAssumption == MaxTexts \in Nat /\ MaxFlows \in Nat

Flows == 1..MaxFlows
Texts == 1..MaxTexts
Fixed(t) == IF t \in Texts THEN t + MaxTexts ELSE t
NoText == 0                          \* No text.
Sentinel(f) == 0 - f
Changed == 0 - MaxFlows - 1        \* .targetChanged

VARIABLES
  front,       \* The frontmost application.
  sel,         \* What is selected in each.
  clip,        \* The pasteboard: what it holds, and whose paste wrote it (the change count).
  keys,        \* Cmd+C and Cmd+V sent that their application has not handled,
  undos,       \* and the applications that have not handled a Cmd+Z.
  flow,        \* The flows.
  handle,      \* InFlightCoordinator: the flow Escape cancels, 0 for none
  generation,  \* and the newest run.
  last,        \* Replacer.last
  shown,       \* The toolbar: the session it was shown for.
  settling,    \* A mouse-up whose 150 ms are not over.
  panel, tool, \* The instruct panel is open; toolbarSession.
  opened,      \* History: the session the panel was opened for,
  users,       \* what the user put on the clipboard last,
  moves, slips \* and what came between (see the properties).

vars == <<front, sel, clip, keys, undos, flow, handle, generation, last, shown, settling,
          panel, tool, opened, users, moves, slips>>
user == <<front, sel, users, moves, undos>>
bars == <<shown, settling, panel, tool, opened>>

NoSession == [host |-> "none", text |-> NoText]
NoReplacement == [host |-> "none", text |-> NoText, new |-> NoText]
NoFlow == [step |-> "none", kind |-> "fix", reads |-> "capture", host |-> "none", text |-> NoText, new |-> NoText,
           want |-> NoText, home |-> "none", got |-> NoText, saved |-> NoText, gen |-> 0, stopped |-> "no"]

Resting == {"none", "done"}
Busy == {f \in Flows : flow[f].step \notin Resting}
Pasting == {f \in Busy : flow[f].step \in {"front", "armed", "posted"}}
Copying == {f \in Busy : flow[f].step = "copies"}
Checking == Pasting \cup {f \in Busy : flow[f].step \in {"copies", "heard"}}

Slips(S) == slips' = slips \cup S
Step(f, q) == flow' = [flow EXCEPT ![f] = q]
Done(q) == [q EXCEPT !.step = "done", !.reads = "capture", !.want = NoText, !.home = "none", !.got = NoText, !.saved = NoText]
Put(what, by) == clip' = [holds |-> what, by |-> by]

Init ==
  /\ front \in Hosts /\ sel = [h \in Hosts |-> NoText]
  /\ clip = [holds |-> NoText, by |-> 0] /\ users = NoText /\ keys = {} /\ undos = {}
  /\ flow = [f \in Flows |-> NoFlow] /\ handle = 0 /\ generation = 0
  /\ last = NoReplacement /\ shown = NoSession /\ settling = FALSE
  /\ panel = FALSE /\ tool = NoSession /\ opened = NoSession
  /\ moves = 0 /\ slips = {}

-----------------------------------------------------------------------------
(* The clipboard. *)

(* A fault: what is there now is put away, whoever wrote it. *)
FaultyOurs(f) == TRUE

(* restoreIfOurs of a paste: nobody has written since. *)
Ours(f) == clip.by = f

PutBack(f) == IF Ours(f) THEN Put(flow[f].saved, 0) ELSE UNCHANGED clip

(* isCapturedText: neither the sentinel nor what was there before. *)
IsCaptured(f) == clip.holds \notin {Sentinel(f), flow[f].saved, NoText}

(* restoreIfOurs of a read: it holds what we wrote, or what we took for    *)
(* the selection.                                                          *)
PutBackRead(f) ==
  IF clip.holds = Sentinel(f) \/ IsCaptured(f) THEN Put(flow[f].saved, 0) ELSE UNCHANGED clip

(* captureBlocking, one at a time: the front is looked at before the       *)
(* clipboard is touched.                                                   *)
CopyBegins(f) ==
  /\ flow[f].step = "queue" /\ Copying = {}
  /\ IF front # flow[f].host
     THEN /\ Step(f, [flow[f] EXCEPT !.step = "heard", !.got = Changed])
          /\ UNCHANGED <<clip, keys>>
     ELSE /\ Step(f, [flow[f] EXCEPT !.step = "copies", !.saved = clip.holds])
          /\ Put(Sentinel(f), 0)
          /\ keys' = keys \cup {[key |-> "c", host |-> front, flow |-> f]}
  /\ UNCHANGED <<user, handle, generation, last, bars, slips>>

(* 1200 ms. *)
Deadline(f) == ~IsCaptured(f)

Pending(f) == \E k \in keys : k.flow = f

CopyEnds(f) ==
  /\ flow[f].step = "copies" /\ (IsCaptured(f) \/ Deadline(f))
  /\ Step(f, [flow[f] EXCEPT !.step = "heard", !.got = IF IsCaptured(f) THEN clip.holds ELSE NoText])
  /\ PutBackRead(f)
  /\ Slips(IF Pending(f) THEN {"slow"} ELSE {})
  /\ UNCHANGED <<user, keys, handle, generation, last, bars>>

-----------------------------------------------------------------------------
(* Replacing.  Replace is what verify and paste do to flow f, whose record *)
(* is q, in one turn.                                                      *)

Paste(f, q) ==
  /\ Step(f, [q EXCEPT !.step = IF front = q.host THEN "armed" ELSE "front", !.saved = clip.holds])
  /\ Put(q.new, f)

(* A fault: the selection is not read again. *)
FaultyReadsTheSame(q) == TRUE

ReadsTheSame(q) == sel[q.host] = q.text

(* verify: the session may be older than five minutes. *)
Replace(f, q) ==
  \/ Step(f, Done(q)) /\ UNCHANGED clip
  \/ /\ front = q.host /\ q.host \in Web
     /\ Step(f, [q EXCEPT !.step = "queue", !.reads = "verify"]) /\ UNCHANGED clip
  \/ front = q.host /\ q.host \notin Web /\ ReadsTheSame(q) /\ Paste(f, q)

(* A fault: the end of any run disarms Escape. *)
FaultyEnds(f) == flow'[f].step = "done"

(* end: of the newest run. *)
Ends(f) == flow'[f].step = "done" /\ flow'[f].gen = generation'

Release(f) == handle' = IF Ends(f) THEN 0 ELSE handle

(* run: a model is asked, and Escape armed; Bold needs none. *)
Run(f, q) ==
  LET r == [q EXCEPT !.gen = generation + 1]
  IN  /\ generation' = generation + 1
      /\ IF q.kind = "bold"
         THEN Replace(f, [r EXCEPT !.new = Fixed(q.text)]) /\ Release(f)
         ELSE Step(f, [r EXCEPT !.step = "asked"]) /\ handle' = f /\ UNCHANGED clip
      /\ UNCHANGED last

(* restoreLast: the selection is the replacement, or the host undoes. *)
Restored(f, q) ==
  /\ IF q.text = q.want /\ q.host = q.home
     THEN Replace(f, q) /\ UNCHANGED <<last, undos>>
     ELSE /\ Step(f, Done(q)) /\ UNCHANGED clip
          /\ IF front = q.home /\ front \notin Shells
             THEN last' = NoReplacement /\ undos' = undos \cup {front}
             ELSE UNCHANGED <<last, undos>>
  /\ UNCHANGED <<handle, generation>>

(* What a selection that was read is read for. *)
Captured(f, q) ==
  CASE q.kind = "panel" -> Step(f, Done(q)) /\ UNCHANGED <<clip, last, undos, handle, generation>>
    [] q.kind = "restore" -> Restored(f, q)
    [] OTHER -> Run(f, q) /\ UNCHANGED undos

NotCaptured(f, q) ==
  IF q.kind = "restore" /\ q.got = NoText
  THEN Restored(f, q)
  ELSE Step(f, Done(q)) /\ UNCHANGED <<clip, last, undos, handle, generation>>

(* capture, in the turn of the key. *)
Capture(f, q) ==
  IF q.host \in Shells THEN NotCaptured(f, [q EXCEPT !.got = Changed])
  ELSE IF q.host \in Web
  THEN Step(f, [q EXCEPT !.step = "queue"]) /\ UNCHANGED <<clip, last, undos, handle, generation>>
  ELSE IF sel[q.host] = NoText THEN NotCaptured(f, q)
  ELSE Captured(f, [q EXCEPT !.text = sel[q.host]])

(* openInstruct, for a flow that was to open the panel and has a session. *)
Panel(f, isOpen, session) ==
  LET q == flow'[f]
  IN  IF q.kind = "panel" /\ q.step = "done" /\ q.text # NoText
      THEN /\ panel' = TRUE
           /\ tool' = [host |-> q.host, text |-> q.text] /\ opened' = tool'
      ELSE panel' = isOpen /\ tool' = session /\ UNCHANGED opened

-----------------------------------------------------------------------------
(* The keys and clicks that start a flow. *)

Starts(f) ==
  /\ flow[f].step = "none" /\ \A g \in 1..(f - 1) : flow[g].step # "none"
  /\ Slips(IF Busy # {} THEN {"overlap"} ELSE {})

Fresh(kind) == [NoFlow EXCEPT !.kind = kind, !.host = front]

(* closeInstructPanel *)
Closed == IF panel THEN NoSession ELSE tool

(* Cmd+J and Cmd+Shift+J: not while a call is in flight. *)
Fix(f) ==
  /\ Starts(f) /\ handle = 0 /\ shown' = NoSession
  /\ Capture(f, Fresh("fix")) /\ Panel(f, FALSE, Closed)
  /\ UNCHANGED <<front, sel, users, moves, keys, settling>>

Instruct(f) ==
  /\ Starts(f) /\ handle = 0 /\ shown' = NoSession
  /\ Capture(f, Fresh("panel")) /\ Panel(f, panel, tool)
  /\ UNCHANGED <<front, sel, users, moves, keys, settling>>

(* Cmd+Option+J *)
Restore(f) ==
  /\ Starts(f) /\ last # NoReplacement /\ shown' = NoSession
  /\ Capture(f, [Fresh("restore") EXCEPT !.new = last.text, !.want = last.new, !.home = last.host])
  /\ Panel(f, FALSE, Closed)
  /\ UNCHANGED <<front, sel, users, moves, keys, settling>>

(* A button of the toolbar, for its session or for what is read now. *)
Click(f, kind) ==
  /\ shown # NoSession /\ Starts(f) /\ shown' = NoSession
  /\ IF tool = NoSession
     THEN Capture(f, Fresh(kind))
     ELSE Captured(f, [Fresh(kind) EXCEPT !.host = tool.host, !.text = tool.text])
  /\ Panel(f, panel, tool)
  /\ UNCHANGED <<front, sel, users, moves, keys, settling>>

(* Return in the panel; the call begins 80 ms later. *)
Submit(f) ==
  /\ panel /\ tool # NoSession /\ Starts(f)
  /\ Step(f, [Fresh("edit") EXCEPT !.step = "soon", !.host = tool.host, !.text = tool.text])
  /\ Panel(f, FALSE, tool)
  /\ UNCHANGED <<user, clip, keys, handle, generation, last, shown, settling>>

(* Escape in the panel, or Return when the toolbar has taken its session. *)
CancelPanel ==
  /\ panel /\ panel' = FALSE /\ tool' = NoSession
  /\ UNCHANGED <<user, keys, clip, flow, handle, generation, last, shown, settling, opened, slips>>

-----------------------------------------------------------------------------
(* The turns of a flow. *)

EditBegins(f) ==
  /\ flow[f].step = "soon"
  /\ Run(f, flow[f])
  /\ UNCHANGED <<user, keys, bars, slips>>

(* classify: not after Escape, but for a claude that was not running yet   *)
(* when it came, and so was not ended by it.                               *)
Taken(f) == flow[f].stopped # "call"

Answers(f) ==
  /\ flow[f].step = "asked"
  /\ \E good \in BOOLEAN, unheard \in BOOLEAN :
       /\ unheard => good /\ ~Taken(f)
       /\ Step(f, [flow[f] EXCEPT !.step = "answered",
                                  !.new = IF good /\ (Taken(f) \/ unheard) THEN Fixed(flow[f].text) ELSE NoText])
       /\ Slips(IF unheard THEN {"unheard"} ELSE {})
  /\ UNCHANGED <<user, clip, keys, handle, generation, last, bars>>

(* runModel: no answer, none that will do, or nothing to change end it. *)
Answered(f) ==
  /\ flow[f].step = "answered"
  /\ IF flow[f].new \in {NoText, flow[f].text}
     THEN Step(f, Done(flow[f])) /\ UNCHANGED clip
     ELSE Replace(f, flow[f])
  /\ UNCHANGED <<user, keys, generation, last, bars, slips>>
  /\ Release(f)

(* The read is over, on the main thread. *)
Heard(f) ==
  /\ flow[f].step = "heard"
  /\ LET q == flow[f]
     IN  IF q.reads = "verify"
         THEN /\ IF q.got = q.text THEN Paste(f, q) ELSE Step(f, Done(q)) /\ UNCHANGED clip
              /\ UNCHANGED <<undos, generation, last>> /\ Release(f)
         ELSE IF q.got \in {NoText, Changed} THEN NotCaptured(f, q)
         ELSE Captured(f, [q EXCEPT !.text = q.got])
  /\ Panel(f, panel, tool)
  /\ UNCHANGED <<front, sel, users, moves, keys, shown, settling, slips>>

(* ensureFrontmost *)
Activates(f) ==
  /\ flow[f].step = "front"
  /\ front' = flow[f].host /\ shown' = NoSession
  /\ Step(f, [flow[f] EXCEPT !.step = "armed"])
  /\ UNCHANGED <<sel, users, moves, clip, keys, undos, handle, generation, last, settling, panel, tool, opened, slips>>

GivesUp(f) ==
  /\ flow[f].step = "front"
  /\ PutBack(f)
  /\ Step(f, Done(flow[f]))
  /\ UNCHANGED <<user, keys, generation, last, bars, slips>>
  /\ Release(f)

(* After 40 ms, to whoever is in front. *)
Posts(f) ==
  /\ flow[f].step = "armed"
  /\ keys' = keys \cup {[key |-> "v", host |-> front, flow |-> f]}
  /\ Step(f, [flow[f] EXCEPT !.step = "posted"])
  /\ UNCHANGED <<user, clip, handle, generation, last, bars, slips>>

(* After 350 ms. *)
PutsBack(f) ==
  /\ flow[f].step = "posted"
  /\ PutBack(f)
  /\ Slips(IF Pending(f) THEN {"slow"} ELSE {})
  /\ last' = IF flow[f].kind = "restore" THEN NoReplacement
             ELSE [host |-> flow[f].host, text |-> flow[f].text, new |-> flow[f].new]
  /\ Step(f, Done(flow[f]))
  /\ UNCHANGED <<user, keys, generation, bars>>
  /\ Release(f)

(* Escape, while it is armed. *)
Escape ==
  /\ handle # 0 /\ handle' = 0
  /\ flow' = [flow EXCEPT ![handle].stopped = IF flow[handle].step = "asked" THEN "call" ELSE "late"]
  /\ UNCHANGED <<user, clip, keys, generation, last, bars, slips>>

-----------------------------------------------------------------------------
(* The toolbar. *)

Session(h) == IF h \in Web THEN NoSession ELSE [host |-> h, text |-> sel[h]]

(* evaluate: 150 ms after the mouse went up.  What it shows is the         *)
(* toolbar's session, and from now on toolbarSession.                      *)
Evaluate ==
  /\ settling /\ settling' = FALSE
  /\ IF front \in Shells \/ (front \notin Web /\ sel[front] = NoText)
     THEN UNCHANGED <<shown, tool>>
     ELSE shown' = [host |-> front, text |-> Session(front).text] /\ tool' = Session(front)
  /\ UNCHANGED <<user, clip, keys, flow, handle, generation, last, panel, opened, slips>>

(* pollSelection, or the 12 s of a host that cannot be read. *)
Dismiss ==
  /\ shown # NoSession
  /\ shown.host # front \/ shown.host \in Web \/ sel[shown.host] # shown.text
  /\ shown' = NoSession
  /\ UNCHANGED <<user, clip, keys, flow, handle, generation, last, settling, panel, tool, opened, slips>>

-----------------------------------------------------------------------------
(* The user and the applications. *)

Moves == moves < MaxMoves /\ moves' = moves + 1

(* A text is selected with the mouse, here or in another application. *)
Select(h, t) ==
  /\ Moves /\ <<h, t>> # <<front, sel[h]>>
  /\ front' = h /\ sel' = [sel EXCEPT ![h] = t]
  /\ shown' = NoSession /\ panel' = FALSE /\ tool' = Closed /\ settling' = (t # NoText)
  /\ Slips(IF Checking # {} THEN {"moved"} ELSE {})
  /\ UNCHANGED <<users, clip, keys, undos, flow, handle, generation, last, opened>>

Copy ==
  /\ Moves /\ sel[front] # NoText
  /\ Put(sel[front], 0) /\ users' = sel[front]
  /\ Slips((IF Copying # {} THEN {"copied"} ELSE {}) \cup (IF Pasting # {} THEN {"replaced"} ELSE {}))
  /\ UNCHANGED <<front, sel, keys, undos, flow, handle, generation, last, bars>>

(* The tool is ended and starts again. *)
Quit ==
  /\ Moves
  /\ flow' = [f \in Flows |-> IF f \in Busy THEN Done(flow[f]) ELSE flow[f]]
  /\ handle' = 0 /\ generation' = 0 /\ last' = NoReplacement
  /\ shown' = NoSession /\ settling' = FALSE /\ panel' = FALSE /\ tool' = NoSession
  /\ Slips(IF Busy # {} THEN {"quit"} ELSE {})
  /\ UNCHANGED <<front, sel, users, clip, keys, undos, opened>>

(* An application handles a key. *)
Handles(k) ==
  /\ keys' = keys \ {k}
  /\ IF k.key = "v"
     THEN sel' = [sel EXCEPT ![k.host] = NoText] /\ UNCHANGED clip
     ELSE /\ IF sel[k.host] # NoText THEN Put(sel[k.host], 0) ELSE UNCHANGED clip
          /\ UNCHANGED sel
  /\ UNCHANGED <<front, users, moves, undos, flow, handle, generation, last, bars, slips>>

(* It undoes: another text is selected in it, or none. *)
Undoes(h) ==
  /\ undos' = undos \ {h}
  /\ \E t \in Texts \cup {NoText} : sel' = [sel EXCEPT ![h] = t]
  /\ Slips(IF Checking # {} THEN {"moved"} ELSE {})
  /\ UNCHANGED <<front, users, moves, clip, keys, flow, handle, generation, last, bars>>

GoesOn(f) ==
  \/ EditBegins(f) \/ CopyBegins(f) \/ CopyEnds(f) \/ Answers(f) \/ Answered(f) \/ Heard(f)
  \/ Activates(f) \/ GivesUp(f) \/ Posts(f) \/ PutsBack(f)

Selectable == Texts \cup {NoText} \cup ({last.new} \ {NoText})

Next ==
  \/ \E f \in Flows :
       \/ Fix(f) \/ Instruct(f) \/ Restore(f) \/ Submit(f) \/ GoesOn(f)
       \/ \E kind \in {"fix", "bold", "panel"} : Click(f, kind)
  \/ \E h \in Hosts, t \in Selectable : Select(h, t)
  \/ \E k \in keys : Handles(k)
  \/ \E h \in undos : Undoes(h)
  \/ CancelPanel \/ Escape \/ Evaluate \/ Dismiss \/ Copy \/ Quit

Fairness == \A f \in Flows : WF_vars(GoesOn(f))

Spec == Init /\ [][Next]_vars /\ Fairness

-----------------------------------------------------------------------------
(* Properties. *)

TypeOK ==
  /\ front \in Hosts /\ sel \in [Hosts -> 0..(2 * MaxTexts)]
  /\ clip \in [holds : (0 - MaxFlows)..(2 * MaxTexts), by : 0..MaxFlows]
  /\ handle \in 0..MaxFlows /\ generation \in 0..MaxFlows /\ moves \in 0..MaxMoves
  /\ \A f \in Flows : flow[f].gen <= MaxFlows
  /\ \A k \in keys : k.flow \in Flows
  /\ undos \subseteq Hosts \ Shells

(* A paste puts the replacement over the text that was read, in the        *)
(* application it was read in ("Every path fails closed: no paste unless   *)
(* the selection is re-read and matches the session", Replacer.swift:3),   *)
(* whatever was selected, copied or pressed before the last look.  Between *)
(* the look and the paste lie 40 ms, or a read by Cmd+C: what comes then   *)
(* is a slip.                                                              *)
LandsWhereItWasRead(k) ==
  /\ k.host = flow[k.flow].host
  /\ sel[k.host] = flow[k.flow].text /\ clip.holds = flow[k.flow].new

PastesOver ==
  [][\A k \in keys : k.key = "v" /\ k \notin keys' =>
       \/ LandsWhereItWasRead(k)
       \/ slips \cap {"moved", "replaced", "copied", "slow", "overlap", "quit"} # {}]_vars

(* When nothing is under way the clipboard holds what the user put there   *)
(* last, though a read and two pastes wrote over it and the user copies in *)
(* between ("A user copy in the window wins", Pasteboard.swift:46).        *)
ClipboardIsTheUsers ==
  Busy = {} /\ keys = {} /\ slips \cap {"copied", "slow", "overlap", "quit"} = {} => clip.holds = users

(* A call that Escape ended pastes nothing, however late its answer is. *)
StoppedStays ==
  \A f \in Pasting : flow[f].stopped = "call" => "unheard" \in slips

(* Escape is taken from everybody else exactly while the newest call runs, *)
(* though older runs end meanwhile (InFlight.swift:3).                     *)
Newest == {f \in Busy : flow[f].gen = generation}

EscapeFits ==
  /\ handle # 0 => Newest # {}
  /\ \A f \in Newest : flow[f].step = "asked" /\ flow[f].stopped = "no" => handle = f

(* Escape works: it is taken while there is something to end, and what it  *)
(* ended stays ended.                                                      *)
EscapeWorks == StoppedStays /\ EscapeFits

(* Escape leaves the text as it is ("Cancels a model call in flight",      *)
(* README.md:17 of the tool; the chip says Cancelled).                     *)
EscapeIsNo == \A f \in Pasting : flow[f].stopped = "no"

(* Nothing is pasted into a terminal. *)
NoCommand == \A k \in keys : k.key = "v" => k.host \notin Shells

(* What is typed into the panel is done to what it was opened for. *)
PanelIsItsOwn == panel => tool = opened

(* A call that is under way can be ended by Escape. *)
CanBeStopped == \A f \in Busy : flow[f].step = "asked" /\ flow[f].stopped = "no" => handle = f
=============================================================================
