----------------------------- MODULE Composer -----------------------------
(***************************************************************************)
(* The compose box of the window and the drafts it writes: typing, the     *)
(* autosave, closing, parking, sending, undoing.                           *)
(*                                                                         *)
(*   apps/desktop/src/state/store.ts          the compose half             *)
(*   apps/desktop/electron/ipc/compose.ts     drafts:*, compose:send       *)
(*   apps/desktop/electron/compose/queue.ts   queueSend                    *)
(*   packages/store/src/queries/drafts.ts     the drafts table             *)
(*                                                                         *)
(* A letter is what the writer has in mind; a text is one version of one   *)
(* letter.  The window never waits: a step runs to its first await, the    *)
(* rest is either in calls (an answer on its way; the handlers of those    *)
(* channels do not await, so calls are answered in order), in slow (an     *)
(* answer that takes its time), or in waiting (behind the autosave in      *)
(* flight).  What a call changes in the store is done as it is made: only  *)
(* its answer can tell the window.  Modes, recipients and files are left   *)
(* out; a reply and a reply to all of one thread are one letter.           *)
(***************************************************************************)
EXTENDS Naturals, Sequences, FiniteSets, SequencesExt, Functions

CONSTANTS
  Threads,      \* Threads the reading pane can show.
  Panel, None,  \* The floating panel; nothing.
  Slips,        \* The slips, see below, that may happen.
  MaxSlips,     \* Bound: slips in one behaviour.
  MaxLetters,   \* Bound: letters ever begun.
  MaxVersions,  \* Bound: versions of one letter.
  MaxCalls,     \* Bound: answers on their way when the next key is pressed.
  MaxWaiting,   \* Bound: steps that wait when the next key is pressed.
  MaxSends,     \* Bound: messages ever sent.
  MaxRows,      \* Bound: rows of the drafts table ever made.
  MaxGmail      \* Bound: changes the reconcile brings.

(* A slip is something that goes wrong, or a race the code does not close: *)
(*   typed    a key while a close or a send has yet to end                 *)
(*   opened   another box opened while one is saved, closed or sent        *)
(*   again    sent or closed again meanwhile                               *)
(*   strip    reopened or closed while the save of its strip is on its way *)
(*   over     a saved draft opened over a docked reply                     *)
(*   stale    a draft opened from a list that is behind the table          *)
(*   adopted  Gmail's version taken over keys not yet saved                *)
(*   gone     the row of the open box deleted under it                     *)
(*   refused  compose:send fails after the row has left the table, or when *)
(*            the box is no longer what was sent                           *)
AllSlips == {"typed", "opened", "again", "strip", "over", "stale", "adopted",
             "gone", "refused"}

ASSUME ComposerAssumption ==
  /\ Slips \subseteq AllSlips
  /\ Panel \notin Threads /\ None \notin Threads /\ None # Panel

VARIABLES
  compose,    \* The open box: letter, version and draftId; letter 0 is none.
  dock,       \* Panel or the thread under which it is docked (inlineAnchor).
  collapsed,  \* inlineCollapsed: the docked reply shows as a strip.
  autoRow,    \* autosavedDraftId
  saved,      \* lastSaved: the row and the text, row 0 when null.
  timer,      \* The autosave timer is running.
  fresh,      \* The autosave in flight is of this composeSession.
  open,       \* The thread in the reading pane.
  drafts,     \* The drafts the window knows: row to text.
  waiting,    \* The steps behind the autosave in flight, oldest first.
  calls,      \* Calls to the main process, oldest first.
  slow,       \* compose:send and send:undo.
  rows,       \* The drafts table: row to text.
  sends,      \* The send queue: text and whether it was undone.
  letters,    \* The place each letter belongs to.
  lastRow,    \* The last id of the drafts table.
  news,       \* Changes the reconcile brought.
  latest,     \* Each letter's last version, written here or in Gmail.
  owed,       \* The texts the writer has last written and not given up.
  told,       \* The text of the last DRAFT KEPT.
  slips       \* The slips so far.

box == <<compose, dock, collapsed, autoRow, saved, fresh>>
table == <<rows, lastRow>>
lines == <<waiting, calls, slow>>
history == <<letters, news, latest, owed, told>>
vars == <<box, timer, open, drafts, lines, table, sends, history, slips>>

NoText == [letter |-> 0, version |-> 0]
NoBox == [letter |-> 0, version |-> 0, row |-> 0]
Text(d) == [letter |-> d.letter, version |-> d.version]
Open == compose.letter # 0
Written(d) == d.version > 0
Inline == dock # Panel

(* autosaveInflight *)
Saving == \E i \in DOMAIN calls : calls[i].kind = "autosave"

(* A step of its own starts when no step that waited is still to go on. *)
Quiet == Saving \/ waiting = <<>>

(* The window takes the writer's next key. *)
Key == Quiet /\ Len(calls) < MaxCalls /\ Len(waiting) < MaxWaiting

Or(r, s) == IF r # 0 THEN r ELSE s
Without(f, x) == Restrict(f, DOMAIN f \ {x})
With(f, x, v) == [y \in DOMAIN f \cup {x} |-> IF y = x THEN v ELSE f[y]]

(* A close or a send of what is in the box has begun and not ended. *)
Ending == \/ \E i \in DOMAIN waiting : waiting[i].kind # "autosave"
          \/ \E c \in slow : c.kind = "send"

(* The save of a strip is on its way. *)
Stripping == \E i \in DOMAIN calls : calls[i].kind = "strip"

Slip(now) ==
  /\ slips' = slips \cup now
  /\ now \subseteq Slips
  /\ Cardinality(slips') <= MaxSlips

When(condition, slip) == IF condition THEN {slip} ELSE {}

Happened(some) == slips \cap some # {}

-----------------------------------------------------------------------------

Init ==
  /\ compose = NoBox /\ dock = Panel /\ collapsed = FALSE
  /\ autoRow = 0 /\ saved = [row |-> 0, text |-> NoText]
  /\ timer = FALSE /\ fresh = FALSE
  /\ open = None
  /\ drafts = <<>> /\ rows = <<>> /\ sends = <<>>
  /\ waiting = <<>> /\ calls = <<>> /\ slow = {}
  /\ letters = <<>> /\ latest = <<>>
  /\ lastRow = 0 /\ news = 0
  /\ owed = {} /\ told = NoText /\ slips = {}

-----------------------------------------------------------------------------
(* The main process. *)

(* saveDraft: without an id a new row; with one an update, which finds     *)
(* nothing to update when the row is gone.                                 *)
SaveDraft(r, t) ==
  IF r = 0
  THEN /\ lastRow < MaxRows
       /\ lastRow' = lastRow + 1
       /\ rows' = With(rows, lastRow', t)
  ELSE /\ rows' = IF r \in DOMAIN rows THEN [rows EXCEPT ![r] = t] ELSE rows
       /\ UNCHANGED lastRow

SavedRow(r) == IF r = 0 THEN lastRow + 1 ELSE r

DeleteRow(r) == rows' = Without(rows, r) /\ UNCHANGED lastRow

Call(kind, t, r) == [kind |-> kind, text |-> t, row |-> r, list |-> <<>>]

(* drafts:list reads the table when its turn comes, which is now. *)
List(tbl) == [kind |-> "list", text |-> NoText, row |-> 0, list |-> tbl]

-----------------------------------------------------------------------------
(* Closing the box. *)

NoneOpen ==
  /\ compose' = NoBox /\ dock' = Panel /\ collapsed' = FALSE
  /\ autoRow' = 0 /\ saved' = [row |-> 0, text |-> NoText] /\ fresh' = FALSE

Waiter(kind, keep) == [kind |-> kind, d |-> compose, keep |-> keep]

(* d.draftId ?? autosavedDraftId *)
RowOf(d) == Or(d.row, autoRow)

(* The end of closeCompose: what is worth keeping is saved, what is not    *)
(* and has a row is deleted.  cs is what is on its way so far.             *)
Keep(d, keep, cs) ==
  \/ /\ keep /\ Written(d)
     /\ SaveDraft(RowOf(d), Text(d))
     /\ calls' = Append(cs, Call("keep", Text(d), SavedRow(RowOf(d))))
  \/ /\ ~(keep /\ Written(d))
     /\ DeleteRow(RowOf(d))
     /\ calls' = IF RowOf(d) = 0 THEN cs ELSE Append(cs, Call("delete", NoText, RowOf(d)))

(* A fault: a close does not wait for the autosave in flight. *)
FaultyBehindSave == FALSE

(* while (autosaveInflight) await autosaveInflight *)
BehindSave == Saving

(* closeCompose up to what it does to the box: behind the autosave in      *)
(* flight, or at once.                                                     *)
Closing(keep, cs) ==
  /\ timer' = FALSE
  /\ IF BehindSave
     THEN /\ waiting' = Append(waiting, Waiter("close", keep))
          /\ calls' = cs
          /\ UNCHANGED table
     ELSE Keep(compose, keep, cs) /\ UNCHANGED waiting

(* A fault: the box is replaced without a close. *)
FaultyPark == UNCHANGED <<timer, table, calls, waiting>>

(* closeCompose(true) by what replaces the box. *)
Park == IF Open THEN Closing(TRUE, calls) ELSE UNCHANGED <<timer, table, calls, waiting>>

(* closeCompose, by the writer. *)
Close(keep) ==
  /\ Key /\ Open
  /\ Slip(When(Ending, "again") \cup When(Stripping, "strip"))
  /\ Closing(keep, calls)
  /\ IF BehindSave THEN UNCHANGED box ELSE NoneOpen
  /\ owed' = IF keep THEN owed ELSE {t \in owed : t.letter # compose.letter}
  /\ UNCHANGED <<open, drafts, slow, sends, letters, news, latest, told>>

(* dismissCompose: Escape collapses a reply with text to its strip; of     *)
(* anything else it is a close.                                            *)
Strip(d) ==
  /\ collapsed' = TRUE
  /\ SaveDraft(RowOf(d), Text(d))
  /\ calls' = Append(calls, Call("strip", Text(d), SavedRow(RowOf(d))))
  /\ UNCHANGED <<compose, dock, autoRow, saved, fresh>>

Dismiss ==
  /\ Key /\ Open /\ Inline /\ ~collapsed /\ Written(compose)
  /\ Slip(When(Ending, "again"))
  /\ timer' = FALSE
  /\ IF BehindSave
     THEN /\ waiting' = Append(waiting, Waiter("strip", TRUE))
          /\ UNCHANGED <<box, table, calls>>
     ELSE Strip(compose) /\ UNCHANGED waiting
  /\ UNCHANGED <<open, drafts, slow, sends, history>>

(* expandInline, also what R does on a strip. *)
Expand ==
  /\ Key /\ Open /\ Inline /\ collapsed
  /\ Slip(When(Stripping, "strip"))
  /\ collapsed' = FALSE
  /\ UNCHANGED <<compose, dock, autoRow, saved, fresh, timer, open, drafts, lines, table, sends, history>>

-----------------------------------------------------------------------------
(* Opening a box: openCompose. *)

(* A reply is docked under the thread that is showing. *)
Docked == Open /\ Inline /\ dock = open

(* A fault: autosavedDraftId stays that of the box before. *)
FaultySetBox(d, place) ==
  /\ compose' = d /\ dock' = place /\ collapsed' = FALSE
  /\ saved' = [row |-> 0, text |-> NoText]
  /\ UNCHANGED <<autoRow, fresh>>

SetBox(d, place) ==
  /\ compose' = d /\ dock' = place /\ collapsed' = FALSE
  /\ autoRow' = 0 /\ saved' = [row |-> 0, text |-> NoText] /\ fresh' = FALSE

OpenNew(place) ==
  /\ Len(letters) < MaxLetters
  /\ Park
  /\ letters' = Append(letters, place)
  /\ latest' = Append(latest, 0)
  /\ SetBox([NoBox EXCEPT !.letter = Len(letters')], place)

(* C *)
NewMessage ==
  /\ Key
  /\ Slip(When(Ending \/ Saving, "opened") \cup When(Stripping, "strip"))
  /\ OpenNew(Panel)
  /\ UNCHANGED <<open, drafts, slow, sends, news, owed, told>>

(* What openCompose does with opts.draft: the box it replaces is parked    *)
(* unless it is docked.                                                    *)
OpenDraft(t, r) ==
  /\ IF Docked THEN UNCHANGED <<timer, table, calls, waiting>> ELSE Park
  /\ SetBox([letter |-> t.letter, version |-> t.version, row |-> r],
            IF letters[t.letter] = open THEN open ELSE Panel)

(* The slips that opening a saved draft can be. *)
DraftSlips(t, r) ==
  When(Ending \/ Saving, "opened")
    \cup When(Docked /\ Written(compose), "over")
    \cup When(Stripping, "strip")
    \cup When((r \in DOMAIN rows /\ rows[r] # t) \/ r \notin DOMAIN rows \/ RowOf(compose) = r, "stale")

(* openDraft: a click in the list of drafts. *)
FromList(r) ==
  /\ Key
  /\ r \in DOMAIN drafts
  /\ Slip(DraftSlips(drafts[r], r))
  /\ OpenDraft(drafts[r], r)
  /\ UNCHANGED <<open, drafts, slow, sends, history>>

(* The reply to the open thread that was saved before. *)
Parked == {r \in DOMAIN drafts : letters[drafts[r].letter] = open}

(* R with nothing docked: the parked reply if there is one, a fresh one    *)
(* under the thread if not.                                                *)
Reply ==
  /\ Key /\ open # None /\ ~Docked
  /\ \/ \E r \in Parked :
          /\ Slip(DraftSlips(drafts[r], r))
          /\ OpenDraft(drafts[r], r)
          /\ UNCHANGED <<letters, latest>>
     \/ /\ Parked = {}
        /\ Slip(When(Ending \/ Saving, "opened") \cup When(Stripping, "strip")
                  \cup When(\E r \in DOMAIN rows : letters[rows[r].letter] = open, "stale")
                  \cup When(Open /\ letters[compose.letter] = open, "stale"))
        /\ OpenNew(open)
  /\ UNCHANGED <<open, drafts, slow, sends, news, owed, told>>

(* An earlier answer is dropped (openSeq); there is one at most. *)
DropGet(cs) ==
  IF \E i \in DOMAIN cs : cs[i].kind = "get"
  THEN RemoveAt(cs, CHOOSE i \in DOMAIN cs : cs[i].kind = "get") ELSE cs

(* openThreadById asks for a thread. *)
Ask(t) ==
  /\ Key /\ t # open
  /\ calls' = Append(DropGet(calls), [Call("get", NoText, 0) EXCEPT !.list = t])
  /\ UNCHANGED <<box, timer, open, drafts, waiting, slow, table, sends, history, slips>>

(* The pane shows another thread or none: the subscription parks the reply *)
(* that is docked under the one it showed.                                 *)
Show(t, cs) ==
  /\ open' = t
  /\ IF Open /\ Inline /\ dock # t
     THEN /\ Slip(When(Ending, "again") \cup When(Stripping, "strip"))
          /\ Closing(TRUE, cs)
          /\ IF BehindSave THEN UNCHANGED box ELSE NoneOpen
     ELSE /\ calls' = cs
          /\ UNCHANGED <<box, timer, table, waiting, slips>>
  /\ UNCHANGED <<drafts, slow, sends, history>>

(* closeThread *)
CloseThread ==
  /\ Key /\ open # None
  /\ Show(None, DropGet(calls))

-----------------------------------------------------------------------------
(* Typing and saving. *)

NewVersion(l) ==
  /\ latest[l] < MaxVersions
  /\ latest' = [latest EXCEPT ![l] = @ + 1]

(* The letter is to be kept with this text. *)
Instead(t) == {s \in owed : s.letter # t.letter} \cup {t}

(* updateCompose *)
Type ==
  /\ Key /\ Open /\ ~collapsed
  /\ Slip(When(Ending, "typed"))
  /\ NewVersion(compose.letter)
  /\ compose' = [compose EXCEPT !.version = latest'[compose.letter]]
  /\ owed' = Instead(Text(compose'))
  /\ timer' = TRUE
  /\ UNCHANGED <<dock, collapsed, autoRow, saved, fresh, open, drafts, lines, table, sends, letters, news, told>>

(* Nothing was typed since the last save. *)
Unchanged ==
  /\ RowOf(compose) # 0
  /\ saved = [row |-> RowOf(compose), text |-> Text(compose)]

(* autosaveCompose with nothing in flight. *)
Autosave ==
  IF Open /\ ~collapsed /\ Written(compose) /\ ~Unchanged
  THEN /\ SaveDraft(RowOf(compose), Text(compose))
       /\ calls' = Append(calls, Call("autosave", Text(compose), SavedRow(RowOf(compose))))
       /\ fresh' = TRUE
  ELSE UNCHANGED <<table, calls, fresh>>

(* The timer of updateCompose: one save at a time. *)
AutosaveFires ==
  /\ Quiet /\ timer
  /\ timer' = FALSE
  /\ IF Saving
     THEN /\ waiting' = Append(waiting, Waiter("autosave", TRUE))
          /\ UNCHANGED <<table, calls, fresh>>
     ELSE Autosave /\ UNCHANGED waiting
  /\ UNCHANGED <<compose, dock, collapsed, autoRow, saved, open, drafts, slow, sends, history, slips>>

-----------------------------------------------------------------------------
(* Sending. *)

(* detachDraftForSend *)
Detach(d) == DeleteRow(RowOf(d))

(* compose:send leaves: the row goes at once, the answer takes its time. *)
Post(d) ==
  /\ Detach(d)
  /\ slow' = slow \cup {[kind |-> "send", text |-> Text(d), row |-> RowOf(d)]}

(* sendCompose; its waiter carries the text as it was. *)
Send ==
  /\ Key /\ Open /\ Written(compose)
  /\ Len(sends) + Cardinality(slow) < MaxSends
  /\ Slip(When(Ending, "again") \cup When(Stripping, "strip"))
  /\ timer' = FALSE
  /\ IF BehindSave
     THEN waiting' = Append(waiting, Waiter("send", TRUE)) /\ UNCHANGED <<table, slow>>
     ELSE Post(compose) /\ UNCHANGED waiting
  /\ UNCHANGED <<box, open, drafts, calls, sends, history>>

(* The message has left: whatever box is open goes. *)
AfterSend == NoneOpen

(* queueSend queued the message. *)
Sent(c) ==
  /\ Quiet
  /\ c \in slow /\ c.kind = "send"
  /\ slow' = slow \ {c}
  /\ sends' = Append(sends, [text |-> c.text, undone |-> FALSE])
  /\ AfterSend
  /\ calls' = Append(calls, List(rows))
  /\ UNCHANGED <<timer, open, drafts, waiting, table, history, slips>>

(* queueSend threw (a file that cannot be read): NOT SENT, the box stays.  *)
Refused(c) ==
  /\ Quiet
  /\ c \in slow /\ c.kind = "send"
  /\ Slip(When(c.row # 0 \/ slow # {c} \/ c.text # Text(compose), "refused"))
  /\ slow' = slow \ {c}
  /\ UNCHANGED <<box, timer, open, drafts, waiting, calls, table, sends, history>>

(* send:undo: undoSend and restoreDraft, a new row; drafts:changed. *)
Undo(i) ==
  /\ Key /\ i \in DOMAIN sends /\ ~sends[i].undone
  /\ sends' = [sends EXCEPT ![i].undone = TRUE]
  /\ SaveDraft(0, sends[i].text)
  /\ calls' = Append(calls, List(rows'))
  /\ slow' = slow \cup {[kind |-> "undo", text |-> sends[i].text, row |-> lastRow']}
  /\ UNCHANGED <<box, timer, open, drafts, waiting, history, slips>>

(* Its answer: openCompose with the draft. *)
Undone(c) ==
  /\ Quiet
  /\ c \in slow /\ c.kind = "undo"
  /\ slow' = slow \ {c}
  /\ Slip(DraftSlips(c.text, c.row))
  /\ OpenDraft(c.text, c.row)
  /\ UNCHANGED <<open, drafts, sends, history>>

-----------------------------------------------------------------------------
(* What waited goes on, in order, when no autosave is in flight. *)

GoesOn(w) ==
  \/ /\ w.kind = "autosave"
     /\ Autosave
     /\ UNCHANGED <<compose, dock, collapsed, autoRow, saved, slow>>
  \/ /\ w.kind = "close"
     /\ Keep(w.d, w.keep, calls)
     /\ NoneOpen
     /\ UNCHANGED slow
  \/ /\ w.kind = "strip"
     /\ Strip(w.d)
     /\ UNCHANGED slow
  \/ /\ w.kind = "send"
     /\ Post(w.d)
     /\ UNCHANGED <<box, calls>>

Resume ==
  /\ ~Quiet
  /\ waiting' = Tail(waiting)
  /\ GoesOn(Head(waiting))
  /\ UNCHANGED <<timer, open, drafts, sends, history, slips>>

-----------------------------------------------------------------------------
(* Answers. *)

(* composeSession === session && compose *)
Mine == fresh /\ Open

AutosaveLands(c, cs) ==
  /\ saved' = [row |-> c.row, text |-> c.text]
  /\ autoRow' = IF Mine THEN c.row ELSE autoRow
  /\ fresh' = FALSE
  /\ calls' = Append(cs, List(rows))
  /\ UNCHANGED <<compose, dock, collapsed, timer, open, drafts, owed, told, slips>>

KeepLands(c, cs) ==
  /\ told' = c.text
  /\ calls' = Append(cs, List(rows))
  /\ UNCHANGED <<box, timer, open, drafts, owed, slips>>

(* The strip knows its row, if the box is still of that thread. *)
StripLands(c, cs) ==
  /\ saved' = [row |-> c.row, text |-> c.text]
  /\ IF Open /\ letters[compose.letter] = letters[c.text.letter]
     THEN compose' = [compose EXCEPT !.row = c.row] /\ autoRow' = 0
     ELSE UNCHANGED <<compose, autoRow>>
  /\ calls' = Append(cs, List(rows))
  /\ UNCHANGED <<dock, collapsed, fresh, timer, open, drafts, owed, told, slips>>

DeleteLands(cs) ==
  /\ calls' = Append(cs, List(rows))
  /\ UNCHANGED <<box, timer, open, drafts, owed, told, slips>>

(* The row of the open box has another text than was saved from here. *)
ChangedElsewhere(list) ==
  LET r == RowOf(compose)
  IN  /\ Open /\ r # 0 /\ saved.row = r /\ r \in DOMAIN list
      /\ list[r] # saved.text /\ list[r] # Text(compose)

(* loadDrafts, then adoptDraftChange. *)
ListLands(c, cs) ==
  /\ drafts' = c.list
  /\ calls' = cs
  /\ LET r == RowOf(compose)
     IN  IF ChangedElsewhere(c.list)
         THEN /\ Slip(When(Text(compose) # saved.text, "adopted"))
              /\ owed' = IF Text(compose) = saved.text /\ ~Ending THEN Instead(c.list[r]) ELSE owed
              /\ compose' = [compose EXCEPT !.letter = c.list[r].letter, !.version = c.list[r].version]
              /\ saved' = [row |-> r, text |-> c.list[r]]
              /\ timer' = FALSE
         ELSE UNCHANGED <<compose, saved, timer, slips, owed>>
  /\ UNCHANGED <<dock, collapsed, autoRow, fresh, open, told>>

Lands ==
  /\ Quiet /\ calls # <<>>
  /\ LET c == Head(calls)
         cs == Tail(calls)
     IN  \/ c.kind = "autosave" /\ AutosaveLands(c, cs)
         \/ c.kind = "keep" /\ KeepLands(c, cs)
         \/ c.kind = "strip" /\ StripLands(c, cs)
         \/ c.kind = "delete" /\ DeleteLands(cs)
         \/ c.kind = "list" /\ ListLands(c, cs)
  /\ UNCHANGED <<waiting, slow, table, sends, letters, news, latest>>

ThreadLands ==
  /\ Quiet /\ calls # <<>> /\ Head(calls).kind = "get"
  /\ Show(Head(calls).list, Tail(calls))

-----------------------------------------------------------------------------
(* What the reconcile does to the table, and deleteDraft. *)

Held(r) == \/ Open /\ RowOf(compose) = r
           \/ \E i \in DOMAIN waiting : waiting[i].d.row = r
           \/ Open /\ \E i \in DOMAIN calls : calls[i].kind \in {"autosave", "strip"} /\ calls[i].row = r

(* upsertGmailDraft: an edit made in Gmail replaces a text that is older   *)
(* than a minute; drafts:changed.                                          *)
GmailEdits(r) ==
  /\ Key /\ news < MaxGmail /\ r \in DOMAIN rows
  /\ ~Saving
  /\ LET l == rows[r].letter
         t == [letter |-> l, version |-> latest'[l]]
     IN  /\ NewVersion(l)
         /\ rows' = [rows EXCEPT ![r] = t]
         /\ owed' = IF rows[r] \in owed /\ ~Held(r) THEN Instead(t) ELSE owed
  /\ news' = news + 1
  /\ calls' = Append(calls, List(rows'))
  /\ UNCHANGED <<box, timer, open, drafts, waiting, slow, lastRow, sends, letters, told, slips>>

(* deleteDraft, by the writer from a list or a strip, or the reconcile of  *)
(* a draft that is gone in Gmail.                                          *)
RowGoes(r) ==
  /\ Key /\ r \in DOMAIN rows
  /\ Slip(When(Held(r), "gone"))
  /\ owed' = owed \ {rows[r]}
  /\ DeleteRow(r)
  /\ calls' = Append(calls, Call("delete", NoText, r))
  /\ UNCHANGED <<box, timer, open, drafts, waiting, slow, sends, letters, news, latest, told>>

-----------------------------------------------------------------------------

Next ==
  \/ \E keep \in BOOLEAN : Close(keep)
  \/ Dismiss \/ Expand
  \/ NewMessage \/ Reply
  \/ \E r \in DOMAIN drafts : FromList(r)
  \/ \E t \in Threads : Ask(t)
  \/ CloseThread
  \/ Type \/ AutosaveFires
  \/ Send
  \/ \E c \in slow : Sent(c) \/ Refused(c) \/ Undone(c)
  \/ \E i \in DOMAIN sends : Undo(i)
  \/ Resume \/ Lands \/ ThreadLands
  \/ \E r \in DOMAIN rows : GmailEdits(r) \/ RowGoes(r)

Spec == Init /\ [][Next]_vars

-----------------------------------------------------------------------------
(* Properties. *)

(* Where a text is kept. *)
Kept ==
  {Text(compose)} \cup Range(rows)
    \cup {sends[i].text : i \in {j \in DOMAIN sends : ~sends[j].undone}}
    \cup {c.text : c \in slow}
    \cup {Text(waiting[i].d) : i \in {j \in DOMAIN waiting : waiting[j].kind # "autosave"}}

(* What the writer wrote last and did not throw away is in the box, in the *)
(* drafts table or in the send queue: the promise of autosaveCompose and   *)
(* closeCompose, which no order of keys, saves and answers breaks but the  *)
(* slips named.                                                            *)
TextKept ==
  owed \subseteq Kept
    \/ Happened({"typed", "opened", "strip", "over", "stale", "adopted", "gone", "refused"})

(* A letter has one row, but for the slips named: "a second save leaving   *)
(* before the first has its row id back would open a second row for the    *)
(* same text" (autosaveCompose).                                           *)
OneRowEach ==
  \/ \A q, r \in DOMAIN rows : rows[q].letter = rows[r].letter => q = r
  \/ Happened({"typed", "opened", "again", "strip", "stale"})

(* A letter is sent once at most, whatever was undone before, but for the  *)
(* slips named.                                                            *)
SentOnce ==
  \/ \A i, j \in DOMAIN sends :
        sends[i].text.letter = sends[j].text.letter /\ ~sends[i].undone /\ ~sends[j].undone => i = j
  \/ Happened({"typed", "opened", "again", "strip", "stale"})

(* A row is of one letter for good: a new box forgets the row of the one   *)
(* before, and no save of it finds that row; but for the slips named, in   *)
(* which one does.                                                         *)
RowsStayTheirs ==
  [][\A r \in DOMAIN rows \cap DOMAIN rows' : rows'[r].letter = rows[r].letter
       \/ Happened({"opened", "strip"})]_vars

(* A message that is in the send queue has no draft, but for the slips     *)
(* named.                                                                  *)
SentHasNoDraft ==
  \/ \A i \in DOMAIN sends : sends[i].undone \/ sends[i].text \notin Range(rows)
  \/ Happened({"opened", "again", "strip", "stale"})

(* One letter is one thing: one draft, one message, and never both, each   *)
(* part but for its slips.                                                 *)
LetterIsOne == OneRowEach /\ SentOnce /\ SentHasNoDraft

(* The toast DRAFT KEPT is true: the text is in the table, unless it was   *)
(* thrown away or reopened since (Compose.tsx:28, "The draft is kept under *)
(* Drafts and in Gmail").                                                  *)
KeptIsKept == [][told' # told => told' \notin owed' \/ told' \in Kept']_vars
=============================================================================
