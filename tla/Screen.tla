------------------------------ MODULE Screen ------------------------------
(***************************************************************************)
(* The list and the reading pane of the window: what is read from the      *)
(* store, what a key changes on screen before the store has answered, and  *)
(* the sequence numbers that keep the one from landing over the other.     *)
(*                                                                         *)
(*   apps/desktop/src/state/store.ts      loadThreads to runSearch         *)
(*   apps/desktop/electron/ipc/threads.ts the handlers behind them         *)
(*                                                                         *)
(* A list is a set of threads as the store had them when it was read; a    *)
(* key acts on any thread of it (the cursor follows the pointer).  What    *)
(* handlers that do not await answer, and what the main process announces, *)
(* reaches the window in order; threads:get may fetch bodies and answers   *)
(* when it can.  live says that the sequence number a read took is still   *)
(* the newest.  Paging, counts, queues and reminders are left out.         *)
(***************************************************************************)
EXTENDS Naturals, Sequences, SequencesExt, FiniteSets, Functions

CONSTANTS
  Threads,     \* The threads of the account.
  Hits,        \* Those the query finds.
  None,
  MaxChanges,  \* Bound: changes the sync brings.
  MaxKeys,     \* Bound: keys that act on a thread.
  MaxLooks,    \* Bound: changes of view, searches and openings.
  MaxCalls     \* Bound: answers on their way when a key is pressed.

ASSUME ScreenAssumption == Hits \subseteq Threads /\ None \notin Threads

VARIABLES
  store,      \* Main: where each thread is, whether unread, whether starred.
  view,       \* "inbox" or "archive".
  rows,       \* The list: some threads, as a read or a key left them.
  searching,  \* searchHits is not null.
  query,      \* The search box holds a query.
  calls,      \* Answers and announcements on their way, oldest first.
  gets,       \* threads:get under way.
  open,       \* The thread in the reading pane.
  opening,    \* openingThread
  wanted,     \* History: the thread last asked for, None once taken back.
  offer,      \* The undo of the toast.
  owed,       \* A key dropped a read or hid a row of the Done list, a page took
              \* the place of hits, or one read before an opening landed after
              \* it; and no read landed since.
  counted     \* changes, keys, looks

listVars == <<view, rows, searching, query, owed>>
paneVars == <<gets, open, opening, wanted>>
vars == <<store, listVars, paneVars, calls, offer, counted>>

Views == {"inbox", "archive"}
Places == Views \cup {"snoozed", "gone"}
NoOffer == [thread |-> None, kind |-> "none", to |-> None]

Without(f, x) == Restrict(f, DOMAIN f \ {x})

(* threads:list: the threads of a view. *)
Page(st, v) == Restrict(st, {t \in Threads : st[t].at = v})

(* search:query finds threads wherever they are. *)
Found(st) == Restrict(st, {t \in Hits : st[t].at # "gone"})

Read(kind, page, again) ==
  [kind |-> kind, page |-> page, again |-> again, live |-> TRUE, behind |-> FALSE]
Changed == [kind |-> "changed"]

(* A sequence number grows: the reads of those kinds are not the newest. *)
Stale(cs, kinds) ==
  [i \in DOMAIN cs |-> IF cs[i].kind \in kinds THEN [cs[i] EXCEPT !.live = FALSE] ELSE cs[i]]

Lists == {"list", "counts"}

(* An opening marks a row read and invalidates no read under way. *)
Behind(cs) ==
  [i \in DOMAIN cs |-> IF cs[i].kind \in Lists THEN [cs[i] EXCEPT !.behind = TRUE] ELSE cs[i]]

Loading(cs) == \E i \in DOMAIN cs : cs[i].kind \in Lists /\ cs[i].live

(* openSeq grows: what was opening does not open, E does not advance. *)
Dropped(gs) == {[g EXCEPT !.live = FALSE] : g \in gs}
Unadvanced(cs) ==
  [i \in DOMAIN cs |-> IF cs[i].kind = "act" THEN [cs[i] EXCEPT !.advance = FALSE] ELSE cs[i]]

(* runSearch(keepPlace) *)
SearchAgain(cs) == Append(Stale(cs, {"search"}), Read("search", Found(store), TRUE))

(* loadThreads(true): a search stays a search and is run again. *)
Load(v, srch, cs) ==
  IF srch THEN SearchAgain(cs) ELSE Append(Stale(cs, Lists), Read("list", Page(store, v), FALSE))

Count(what) == counted' = [counted EXCEPT ![what] = @ + 1]
Look == counted.looks < MaxLooks /\ Len(calls) < MaxCalls /\ Count("looks")
Key == counted.keys < MaxKeys /\ Len(calls) < MaxCalls /\ Count("keys")

-----------------------------------------------------------------------------

Init ==
  /\ store \in [Threads -> [at : Views, unread : {TRUE}, starred : {FALSE}]]
  /\ view = "inbox" /\ rows = Page(store, "inbox")
  /\ searching = FALSE /\ query = FALSE
  /\ calls = <<>> /\ gets = {}
  /\ open = None /\ opening = None /\ wanted = None
  /\ offer = NoOffer /\ owed = FALSE
  /\ counted = [changes |-> 0, keys |-> 0, looks |-> 0]

(* What Gmail may say of a thread next: moved or deleted, read, starred. *)
FromGmail(t) ==
  {[store[t] EXCEPT !.at = p] : p \in Places \ {"snoozed"}}
    \cup {[store[t] EXCEPT !.unread = ~@], [store[t] EXCEPT !.starred = ~@]}

(* The sync applies it and announces it. *)
SyncChanges(t, to) ==
  /\ counted.changes < MaxChanges /\ Len(calls) < MaxCalls
  /\ store[t].at # "gone" /\ store[t] # to
  /\ Count("changes")
  /\ store' = [store EXCEPT ![t] = to]
  /\ calls' = Append(calls, Changed)
  /\ UNCHANGED <<listVars, paneVars, offer>>

-----------------------------------------------------------------------------
(* What a key does to a thread. *)

(* A fault: the reads under way are not invalidated. *)
FaultyInvalidate == calls

(* invalidateThreadList *)
Invalidate == Stale(calls, Lists)

(* The handler: mutate refuses a thread that is gone. *)
Write(t, to) ==
  store' = IF store[t].at = "gone" THEN store ELSE [store EXCEPT ![t] = to]

(* What the answer of a key brings: an undo, a read after a failure. *)
Act(kind, t, undo, advance) ==
  [kind |-> "act", thread |-> t, ok |-> store[t].at # "gone", undo |-> undo,
   reloads |-> kind # "star", advance |-> advance]

Press(kind, t, to, undo, advance) ==
  /\ Key
  /\ Write(t, to)
  /\ calls' = Append(IF advance THEN Unadvanced(Invalidate) ELSE Invalidate,
                     Act(kind, t, undo, advance))

(* What takes an action back: reverse. *)
Back(kind, t, to) == [thread |-> t, kind |-> kind, to |-> to]

(* archiveSelected: the row goes; the thread closes, and does not open any *)
(* more if it was about to.                                                *)
Archive(t) ==
  /\ t \in DOMAIN rows
  /\ LET was == t \in {open, opening}
     IN  /\ Press("archive", t, [store[t] EXCEPT !.at = "archive"], Back("at", t, "inbox"), was)
         /\ open' = IF was THEN None ELSE open
         /\ opening' = IF was THEN None ELSE opening
         /\ wanted' = IF was THEN None ELSE wanted
         /\ gets' = IF was THEN Dropped(gets) ELSE gets
  /\ rows' = Without(rows, t)
  /\ owed' = (owed \/ Loading(calls) \/ view = "archive")
  /\ UNCHANGED <<view, searching, query, offer>>

(* snoozeSelected: the row goes and the thread closes. *)
Snooze(t) ==
  /\ t \in DOMAIN rows
  /\ Press("snooze", t, [store[t] EXCEPT !.at = "snoozed"], Back("at", t, "inbox"), FALSE)
  /\ open' = IF open = t THEN None ELSE open
  /\ rows' = Without(rows, t)
  /\ owed' = (owed \/ Loading(calls))
  /\ UNCHANGED <<view, searching, query, offer, gets, opening, wanted>>

(* moveToInboxSelected: the open thread before the cursor; from the Done   *)
(* list the row goes, elsewhere it says that it is in the inbox.           *)
MoveToInbox(t) ==
  /\ open \in {None, t}
  /\ t \in DOMAIN rows /\ rows[t].at # "inbox"
  /\ Press("moveToInbox", t, [store[t] EXCEPT !.at = "inbox"], Back("at", t, "archive"), FALSE)
  /\ rows' = IF view = "archive" THEN Without(rows, t) ELSE [rows EXCEPT ![t].at = "inbox"]
  /\ owed' = (owed \/ Loading(calls))
  /\ UNCHANGED <<view, searching, query, offer, paneVars>>

(* toggleReadSelected: the list is read again when it did not work. *)
ToggleRead(t) ==
  /\ t \in DOMAIN rows
  /\ Press("markRead", t, [store[t] EXCEPT !.unread = ~rows[t].unread], NoOffer, FALSE)
  /\ rows' = [rows EXCEPT ![t].unread = ~@]
  /\ owed' = (owed \/ Loading(calls))
  /\ UNCHANGED <<view, searching, query, offer, paneVars>>

(* starSelected *)
Star(t) ==
  /\ t \in DOMAIN rows
  /\ Press("star", t, [store[t] EXCEPT !.starred = ~rows[t].starred],
           Back("star", t, rows[t].starred), FALSE)
  /\ rows' = [rows EXCEPT ![t].starred = ~@]
  /\ owed' = (owed \/ Loading(calls))
  /\ UNCHANGED <<view, searching, query, offer, paneVars>>

(* Z: the reverse write; what it changed is read when it is answered. *)
Undo ==
  /\ Key
  /\ offer # NoOffer
  /\ LET t == offer.thread
     IN  /\ Write(t, IF offer.kind = "at" THEN [store[t] EXCEPT !.at = offer.to]
                     ELSE [store[t] EXCEPT !.starred = offer.to])
         /\ calls' = Append(calls, [kind |-> "undone", ok |-> store[t].at # "gone"])
  /\ UNCHANGED <<listVars, paneVars, offer>>

-----------------------------------------------------------------------------
(* Reading. *)

(* setView *)
SetView(v) ==
  /\ Look /\ v # view
  /\ view' = v /\ searching' = FALSE /\ query' = FALSE
  /\ open' = None /\ wanted' = None /\ gets' = Dropped(gets)
  /\ calls' = Load(v, FALSE, Unadvanced(calls))
  /\ UNCHANGED <<store, rows, opening, offer, owed>>

(* setSearchQuery, then Enter or a second without a key: runSearch. *)
Search ==
  /\ Look
  /\ query' = TRUE
  /\ calls' = Append(Stale(calls, {"search"}), Read("search", Found(store), FALSE))
  /\ UNCHANGED <<store, view, rows, searching, paneVars, offer, owed>>

(* leaveSearch *)
LeaveSearch ==
  /\ Look /\ query
  /\ query' = FALSE /\ searching' = FALSE
  /\ LET cs == Stale(calls, {"search"})
     IN  calls' = IF searching THEN Load(view, FALSE, cs) ELSE cs
  /\ UNCHANGED <<store, view, rows, paneVars, offer, owed>>

Get(kind, t) == [kind |-> kind, thread |-> t, found |-> store[t].at # "gone", live |-> TRUE]

(* openThreadById *)
Open(t) ==
  /\ opening' = t /\ wanted' = t
  /\ gets' = Dropped(gets) \cup {Get("open", t)}
  /\ UNCHANGED open

OpenThread(t) ==
  /\ Look /\ t \in DOMAIN rows
  /\ Open(t)
  /\ calls' = Unadvanced(calls)
  /\ UNCHANGED <<store, listVars, offer>>

CloseThread ==
  /\ Look /\ open # None
  /\ open' = None /\ opening' = None /\ wanted' = None
  /\ gets' = Dropped(gets)
  /\ calls' = Unadvanced(calls)
  /\ UNCHANGED <<store, listVars, offer>>

(* refreshOpen: not while a thread is being opened (openLoading). *)
RefreshOpen(gs) ==
  IF open # None /\ opening = None THEN gs \cup {Get("refresh", open)} ELSE gs

-----------------------------------------------------------------------------
(* What lands. *)

(* A fault: whichever page lands counts. *)
FaultyNewest(c) == TRUE

(* seq === listSeq, seq === searchSeq *)
Newest(c) == c.live

(* threads:changed *)
ChangedLands(c, cs) ==
  /\ c.kind = "changed"
  /\ calls' = Load(view, searching, cs)
  /\ gets' = RefreshOpen(gets)
  /\ UNCHANGED <<listVars, open, opening, wanted, offer>>

(* threads:list answers, sidebar:counts is asked. *)
ListLands(c, cs) ==
  /\ c.kind = "list"
  /\ calls' = Append(cs, [c EXCEPT !.kind = "counts"])
  /\ UNCHANGED <<listVars, paneVars, offer>>

(* sidebar:counts answers: the page goes on screen, over hits that came    *)
(* in since as well.                                                       *)
CountsLand(c, cs) ==
  /\ c.kind = "counts"
  /\ calls' = cs
  /\ IF Newest(c)
     THEN rows' = c.page /\ searching' = FALSE /\ owed' = (searching \/ c.behind)
     ELSE UNCHANGED <<rows, searching, owed>>
  /\ UNCHANGED <<view, query, paneVars, offer>>

(* search:query answers; hits of a new search close the pane. *)
SearchLands(c, cs) ==
  /\ c.kind = "search"
  /\ calls' = cs
  /\ IF Newest(c)
     THEN /\ rows' = c.page /\ searching' = TRUE
          /\ open' = IF c.again THEN open ELSE None
     ELSE UNCHANGED <<rows, searching, open>>
  /\ UNCHANGED <<view, query, owed, gets, opening, wanted, offer>>

(* A key is answered: the toast offers its undo, E opens the next thread   *)
(* unless another was asked for; what did not work is read again.          *)
ActLands(c, cs) ==
  /\ c.kind = "act"
  /\ offer' = IF ~c.ok THEN offer ELSE c.undo
  /\ IF c.ok /\ c.advance /\ rows # <<>>
     THEN \E t \in DOMAIN rows : Open(t) /\ calls' = Unadvanced(cs)
     ELSE /\ calls' = IF ~c.ok /\ c.reloads THEN Load(view, searching, cs) ELSE cs
          /\ UNCHANGED paneVars
  /\ UNCHANGED listVars

(* An undo is answered; its toast offers none. *)
UndoneLands(c, cs) ==
  /\ c.kind = "undone"
  /\ offer' = NoOffer
  /\ calls' = IF c.ok THEN Load(view, searching, cs) ELSE cs
  /\ gets' = IF c.ok THEN RefreshOpen(gets) ELSE gets
  /\ UNCHANGED <<listVars, open, opening, wanted>>

Lands ==
  /\ calls # <<>>
  /\ LET c == Head(calls)
         cs == Tail(calls)
     IN  \/ ChangedLands(c, cs) \/ ListLands(c, cs) \/ CountsLand(c, cs)
         \/ SearchLands(c, cs) \/ ActLands(c, cs) \/ UndoneLands(c, cs)
  /\ UNCHANGED <<store, counted>>

(* A fault: seq is not compared with openSeq. *)
FaultyLastAsked(g) == TRUE

(* seq === openSeq *)
LastAsked(g) == g.live

(* threads:get answers an opening: the thread shows, or an error; its row  *)
(* is marked read, here and in the store.                                  *)
OpenLands(g) ==
  /\ g \in gets /\ g.kind = "open"
  /\ gets' = gets \ {g}
  /\ IF LastAsked(g)
     THEN open' = (IF g.found THEN g.thread ELSE open) /\ opening' = None
     ELSE UNCHANGED <<open, opening>>
  /\ LET t == g.thread
     IN  IF LastAsked(g) /\ g.found /\ t \in DOMAIN rows /\ rows[t].unread
         THEN /\ Write(t, [store[t] EXCEPT !.unread = FALSE])
              /\ rows' = [rows EXCEPT ![t].unread = FALSE]
              /\ calls' = Behind(calls)
         ELSE UNCHANGED <<store, rows, calls>>
  /\ UNCHANGED <<view, searching, query, owed, wanted, offer, counted>>

(* threads:get answers a refresh: a thread that is gone closes. *)
RefreshLands(g) ==
  /\ g \in gets /\ g.kind = "refresh"
  /\ IF LastAsked(g) /\ ~g.found /\ open = g.thread
     THEN /\ open' = None /\ opening' = None /\ wanted' = None
          /\ gets' = Dropped(gets \ {g}) /\ calls' = Unadvanced(calls)
     ELSE gets' = gets \ {g} /\ UNCHANGED <<open, opening, wanted, calls>>
  /\ UNCHANGED <<store, listVars, offer, counted>>

Next ==
  \/ \E t \in Threads : \E to \in FromGmail(t) : SyncChanges(t, to)
  \/ \E t \in Threads : Archive(t) \/ Snooze(t) \/ MoveToInbox(t) \/ OpenThread(t)
  \/ \E t \in Threads : ToggleRead(t) \/ Star(t)
  \/ Undo
  \/ \E v \in Views : SetView(v)
  \/ Search \/ LeaveSearch \/ CloseThread
  \/ \E g \in gets : OpenLands(g) \/ RefreshLands(g)
  \/ Lands

Spec == Init /\ [][Next]_vars

-----------------------------------------------------------------------------
(* Properties. *)

(* Once every call is answered the list is what the store holds for the    *)
(* view, dot by dot, unless a key dropped the last read, or hid a row of   *)
(* the Done list, and nothing was read since.                              *)
Agrees == calls = <<>> /\ ~searching /\ ~owed => rows = Page(store, view)

(* "The person's action always wins over a read that started before it"    *)
(* (store.ts:370): a row that comes into a list is of that list by what    *)
(* the store holds, or news of it is on its way.                           *)
OnItsWay == \E i \in DOMAIN calls : calls[i].kind \in {"list", "counts", "search", "changed", "undone"}
NothingComesBack ==
  [][~searching' => \A t \in DOMAIN rows' \ DOMAIN rows :
       store'[t].at = view' \/ OnItsWay']_vars

(* What opens is what was asked for last, and was not archived or left     *)
(* while it was on its way (store.ts:359).                                 *)
OpenIsAsked == [][open' \notin {None, open} => open' = wanted]_vars

(* "Gone from the store: [...] The pane closes rather than showing stale   *)
(* mail as current" (store.ts:1611).                                       *)
PaneIsThere == calls = <<>> /\ gets = {} /\ open # None => store[open].at # "gone"

(* "A search stays a search" (store.ts:681): the hits leave the screen     *)
(* only when the search is left.                                           *)
SearchStays == [][searching /\ ~searching' => ~query']_vars
=============================================================================
