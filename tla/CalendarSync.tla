--------------------------- MODULE CalendarSync ---------------------------
(***************************************************************************)
(* The calendar of one account: incremental reads by sync token, a full    *)
(* window when there is none, when it has lapsed or when Google answers    *)
(* 410, and what a read leaves in the store.                               *)
(*                                                                         *)
(*   apps/desktop/electron/calendar.ts      CalendarSync                   *)
(*   packages/gmail/src/calendar.ts         syncCalendar                   *)
(*   packages/store/src/queries/misc.ts     calendar_events, calendar_sync *)
(*   apps/desktop/electron/auth-state.ts    clearAccountOnSignOut          *)
(*                                                                         *)
(* Google numbers its changes; a token is the number its read began at.    *)
(* An answer comes in two pages.  An event is in the window, outside it or *)
(* not there.  Times, attendees and the rail are left out.                 *)
(***************************************************************************)
EXTENDS Naturals, FiniteSets

CONSTANTS
  Events,
  NoToken,
  MaxEdits,    \* Bound: changes made in Google.
  MaxTroubles, \* Bound: failures, tokens that lapse or die.
  MaxSigns,    \* Bound: sign-outs.
  Interrupts   \* Whether a sign-out may come while a read is under way.

VARIABLES
  google,    \* Each event: where it is, and the number of its last change.
  edits,     \* How many changes Google has seen.
  local,     \* calendar_events
  token,     \* calendar_sync: the sync token,
  lapsed,    \* that it is older than a day,
  dead,      \* and that Google has forgotten it.
  read,      \* The run in flight.
  signedIn,
  troubles,
  signs

store == <<local, token>>
vars == <<google, edits, store, lapsed, dead, read, signedIn, troubles, signs>>

Places == {"in", "out", "gone"}
NoRead == [kind |-> "none", items |-> {}, page |-> {}, since |-> 0, from |-> 0]

(* What Google lists: the window, or what changed since the token, which   *)
(* is pinned to its window.                                                *)
Listed(kind) ==
  IF kind = "full" THEN {e \in Events : google[e].at = "in"}
  ELSE {e \in Events : google[e].n > read.since /\ google[e].at # "out"}

Item(e) == [id |-> e, at |-> google[e].at, n |-> google[e].n]

(* fullParams, or the token *)
Begin(kind) == [NoRead EXCEPT !.kind = kind, !.from = edits]

Trouble == troubles < MaxTroubles /\ troubles' = troubles + 1

Init ==
  /\ google = [e \in Events |-> [at |-> "gone", n |-> 0]] /\ edits = 0
  /\ local = {} /\ token = NoToken
  /\ lapsed = FALSE /\ dead = FALSE
  /\ read = NoRead
  /\ signedIn = TRUE
  /\ troubles = 0 /\ signs = 0

(* An event is made, changed, moved or deleted in Google. *)
Edit(e, to) ==
  /\ edits < MaxEdits
  /\ google[e].at # "gone" \/ to # "gone"
  /\ edits' = edits + 1
  /\ google' = [google EXCEPT ![e] = [at |-> to, n |-> edits']]
  /\ UNCHANGED <<store, lapsed, dead, read, signedIn, troubles, signs>>

TokenLapses ==
  /\ token # NoToken /\ ~lapsed /\ Trouble
  /\ lapsed' = TRUE
  /\ UNCHANGED <<google, edits, store, dead, read, signedIn, signs>>

TokenDies ==
  /\ token # NoToken /\ ~dead /\ Trouble
  /\ dead' = TRUE
  /\ UNCHANGED <<google, edits, store, lapsed, read, signedIn, signs>>

(* runAll, runOne: every five minutes and after a sign-in. *)
Run ==
  /\ signedIn /\ read = NoRead
  /\ read' = IF token = NoToken \/ lapsed THEN Begin("full")
             ELSE [Begin("changes") EXCEPT !.since = token]
  /\ UNCHANGED <<google, edits, store, lapsed, dead, signedIn, troubles, signs>>

Refused == read.kind = "changes" /\ dead

(* The first page: some of what is listed. *)
Page(S) ==
  /\ read # NoRead /\ read.page = {} /\ ~Refused
  /\ S # {} /\ S \subseteq Listed(read.kind)
  /\ read' = [read EXCEPT !.page = S, !.items = {Item(e) : e \in S}]
  /\ UNCHANGED <<google, edits, store, lapsed, dead, signedIn, troubles, signs>>

(* 410: a full window, from nothing. *)
Afresh == Begin("full")

Gone ==
  /\ Refused
  /\ read' = Afresh
  /\ UNCHANGED <<google, edits, store, lapsed, dead, signedIn, troubles, signs>>

(* A fault: what the window no longer has stays. *)
FaultyStale(kind, items) == {}

(* removeStaleCalendarEvents: after a full window, what it does not have.  *)
Stale(kind, items) ==
  IF kind = "full" THEN {l \in local : l.at = "in" /\ \A i \in items : i.id # l.id} ELSE {}

(* The last page, and what it leaves: upserts, removals, stale rows, token. *)
Lands ==
  /\ read # NoRead /\ ~Refused
  /\ LET items == read.items \cup {Item(e) : e \in Listed(read.kind) \ read.page}
         upserts == {i \in items : i.at # "gone"}
         ids == {i.id : i \in items}
     IN  local' = ({l \in local : l.id \notin ids} \ Stale(read.kind, upserts)) \cup upserts
  /\ token' = read.from
  /\ IF read.kind = "full" THEN lapsed' = FALSE /\ dead' = FALSE ELSE UNCHANGED <<lapsed, dead>>
  /\ read' = NoRead
  /\ UNCHANGED <<google, edits, signedIn, troubles, signs>>

(* Five attempts, a refused scope, a dead sign-in: the next run tries. *)
Fails ==
  /\ read # NoRead /\ Trouble
  /\ read' = NoRead
  /\ UNCHANGED <<google, edits, store, lapsed, dead, signedIn, signs>>

(* clearCalendarForAccount; a run in flight goes on. *)
SignOut ==
  /\ signedIn /\ signs < MaxSigns /\ signs' = signs + 1
  /\ Interrupts \/ read = NoRead
  /\ signedIn' = FALSE
  /\ local' = {} /\ token' = NoToken
  /\ UNCHANGED <<google, edits, lapsed, dead, read, troubles>>

SignIn ==
  /\ ~signedIn /\ signedIn' = TRUE
  /\ UNCHANGED <<google, edits, store, lapsed, dead, read, troubles, signs>>

Next ==
  \/ \E e \in Events, to \in Places : Edit(e, to)
  \/ TokenLapses \/ TokenDies
  \/ Run \/ Gone \/ Lands \/ Fails
  \/ \E S \in SUBSET Events : Page(S)
  \/ SignOut \/ SignIn

Spec == Init /\ [][Next]_vars /\ WF_vars(Run) /\ WF_vars(Gone) /\ WF_vars(Lands)

-----------------------------------------------------------------------------
(* Properties. *)

(* When nothing has changed since the last read began, the store holds the *)
(* window: every event of it as it is, and none that is gone.              *)
Same(e) ==
  LET mine == {l \in local : l.id = e}
  IN  CASE google[e].at = "in" -> mine = {Item(e)}
        [] google[e].at = "gone" -> mine = {}
        [] OTHER -> TRUE
Mirrored == token = edits => \A e \in Events : Same(e)

(* The rail catches up with the last change, across 410s, lapsed tokens,   *)
(* failed reads and sign-ins.                                              *)
CatchesUp == <>[](signedIn => token = edits /\ \A e \in Events : Same(e))

(* "the rail stops showing a calendar the app can no longer read"          *)
(* (misc.ts:190)                                                           *)
SignedOutIsEmpty == ~signedIn => local = {}
=============================================================================
