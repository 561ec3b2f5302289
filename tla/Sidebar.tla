------------------------------ MODULE Sidebar ------------------------------
(***************************************************************************)
(* The rows of the sidebar: what the person arranged, against the rows     *)
(* that exist.                                                             *)
(*                                                                         *)
(*   apps/desktop/src/lib/sidebarLayout.ts         descriptors, reconcile  *)
(*   apps/desktop/src/components/useSidebarLayout.ts, AddRowPopover.tsx    *)
(*   apps/desktop/electron/ipc/sidebar.ts, ai.ts   the tables behind it    *)
(*   packages/store/src/queries/sidebar.ts         the stored layout       *)
(*                                                                         *)
(* Rows are descriptors: builtins, one of each category and one of each    *)
(* saved search.  A layout maps a group to its rows in order, each hidden  *)
(* or not; it is written by the person's moves only and reconciled with    *)
(* the descriptors whenever it is drawn.  Answers of the main process come *)
(* in the order of the calls.  Counts, and the folding of rows that hold   *)
(* nothing, are left out.                                                  *)
(***************************************************************************)
EXTENDS Naturals, Sequences, SequencesExt, FiniteSets

CONSTANTS
  Groups,     \* The groups, in order.
  Builtins,   \* The builtin descriptors, in order, each since an edition.
  Home,       \* The group a category lands in, and a search.
  Names,      \* Categories that may be created; the id is the name's slug.
  Editions,   \* Bound: editions of the app.
  MaxSearches,\* Bound: saved searches created.
  MaxActs,    \* Bound: what the person does.
  MaxStarts   \* Bound: starts of the app.

VARIABLES
  cats,      \* categories: the custom ones, in order.
  queries,   \* saved_searches: their ids, in order.
  made,      \* The id of AUTOINCREMENT.
  disk,      \* settings.sidebarLayout, or NoLayout.
  edition,   \* The edition of the app that runs.
  lists,     \* The window's categories and savedSearches.
  arranged,  \* The window's sidebarLayout, or NoLayout.
  answers,   \* Answers of categories:* and searches:* on their way.
  meant,     \* History: what the person saw after the last act, less rows removed since.
  slips,     \* History: what the code does not make up for.
  acts, starts

vars == <<cats, queries, made, disk, edition, lists, arranged, answers, meant, slips, acts, starts>>

NoLayout == <<>>
None == <<>>
NoGroup == "none"
Category(n) == <<"category", n>>
Search(n) == <<"search", n>>

Row(id, hidden) == [id |-> id, hidden |-> hidden]
Ids(s) == {s[i].id : i \in DOMAIN s}
Placed(l) == UNION {Ids(l[g]) : g \in DOMAIN l}

(* rowDescriptors: builtins, categories, searches; only the order within a *)
(* group counts.                                                           *)
Plain(id, group) == [id |-> id, group |-> group, after |-> None, first |-> FALSE, hidden |-> FALSE]
Descriptors(known, e) ==
  SelectSeq(Builtins, LAMBDA d : d.since <= e)
    \o [i \in DOMAIN known.cats |-> Plain(Category(known.cats[i]), Home.category)]
    \o [i \in DOMAIN known.queries |-> Plain(Search(known.queries[i]), Home.search)]

(* defaultLayout *)
DefaultLayout(rows) ==
  [g \in ToSet(Groups) |->
     LET own == SelectSeq(rows, LAMBDA d : d.group = g)
     IN  [i \in DOMAIN own |-> Row(own[i].id, own[i].hidden)]]

(* A row the layout never saw: behind the row it names, at the head, or at *)
(* the end of its group.                                                   *)
Landed(s, d) ==
  LET row == Row(d.id, d.hidden)
      at == SelectInSeq(s, LAMBDA r : r.id = d.after)
  IN  IF at > 0 THEN InsertAt(s, at + 1, row)
      ELSE IF d.first THEN <<row>> \o s ELSE Append(s, row)

Unplaced(l, d) ==
  IF d.id \in Placed(l) THEN l ELSE [l EXCEPT ![d.group] = Landed(@, d)]

(* A fault: a row that is gone stays. *)
FaultyReconcile(saved, rows) ==
  IF saved = NoLayout THEN DefaultLayout(rows) ELSE FoldLeft(Unplaced, saved, rows)

(* reconcileLayout: a row is placed once, a row that is gone is dropped. *)
Reconcile(saved, rows) ==
  IF saved = NoLayout THEN DefaultLayout(rows)
  ELSE LET Kept(g) == SelectSeq(saved[g], LAMBDA r : \E i \in DOMAIN rows : rows[i].id = r.id)
       IN  FoldLeft(Unplaced, [g \in DOMAIN saved |-> Kept(g)], rows)

(* moveRow: before a row of the group, or to its end. *)
MoveRow(l, id, to, before) ==
  LET row == CHOOSE r \in UNION {ToSet(l[g]) : g \in DOMAIN l} : r.id = id
      Without(g) == SelectSeq(l[g], LAMBDA r : r.id # id)
      at == SelectInSeq(Without(to), LAMBDA r : r.id = before)
  IN  IF id \notin Placed(l) \/ id = before THEN l
      ELSE [g \in DOMAIN l |->
              IF g # to THEN Without(g)
              ELSE IF at = 0 THEN Append(Without(g), row) ELSE InsertAt(Without(g), at, row)]

(* setRowHidden *)
SetRowHidden(l, id, hidden) ==
  [g \in DOMAIN l |-> [i \in DOMAIN l[g] |-> IF l[g][i].id = id THEN Row(id, hidden) ELSE l[g][i]]]

There == [cats |-> cats, queries |-> queries]
Shown == Reconcile(arranged, Descriptors(lists, edition))

Init ==
  /\ cats = <<>> /\ queries = <<>> /\ made = 0
  /\ disk = NoLayout /\ arranged = NoLayout /\ meant = NoLayout
  /\ edition = 1 /\ lists = There /\ answers = <<>>
  /\ slips = {} /\ acts = 0 /\ starts = 0

Acts == acts < MaxActs /\ acts' = acts + 1

(* saveSidebarLayout *)
Save(l) == arranged' = l /\ disk' = l

-----------------------------------------------------------------------------
(* The person's moves. *)

(* persist: only what differs from what is drawn is written. *)
Persist(l) == l # Shown /\ Save(l)

(* What the person has in mind: what is drawn, or what was arranged before *)
(* a start that could not read it.                                         *)
InMind ==
  IF "unread" \in slips /\ meant # NoLayout THEN Reconcile(meant, Descriptors(There, edition)) ELSE Shown

(* visibleRows *)
Visible == {r.id : r \in {x \in UNION {ToSet(Shown[g]) : g \in DOMAIN Shown} : ~x.hidden}}

(* A drag, from a visible row to a visible row or to the end of a group. *)
Drag(id, to, before) ==
  /\ Acts
  /\ id \in Visible /\ before \in {None} \cup (Visible \cap Ids(Shown[to]))
  /\ Persist(MoveRow(Shown, id, to, before)) /\ meant' = MoveRow(InMind, id, to, before)
  /\ UNCHANGED <<cats, queries, made, edition, lists, answers, slips, starts>>

(* Hide in the menu of a row, and a hidden row back. *)
Toggle(id, hidden) ==
  /\ Acts
  /\ id \in Placed(Shown)
  /\ Persist(SetRowHidden(Shown, id, hidden)) /\ meant' = SetRowHidden(InMind, id, hidden)
  /\ UNCHANGED <<cats, queries, made, edition, lists, answers, slips, starts>>

(* An answer carries the whole list as it is by then; own is the row made, *)
(* for the group whose + made it, before the categories known at the call. *)
Answer(known, own, group) ==
  answers' = Append(answers, [known |-> known, own |-> own, group |-> group, before |-> ToSet(lists.cats)])

(* categories:create, from a group's +, or from Settings for no group. *)
AddCategory(n, group) ==
  /\ Acts
  /\ n \notin ToSet(cats) /\ cats' = Append(cats, n)
  /\ Answer([There EXCEPT !.cats = cats'], Category(n), group)
  /\ slips' = IF disk # NoLayout /\ Category(n) \in Placed(disk) THEN slips \cup {"reborn"} ELSE slips
  /\ UNCHANGED <<queries, made, disk, edition, lists, arranged, meant, starts>>

(* searches:create *)
AddSearch(group) ==
  /\ Acts
  /\ made < MaxSearches /\ made' = made + 1
  /\ queries' = Append(queries, made')
  /\ Answer([There EXCEPT !.queries = queries'], Search(made'), group)
  /\ UNCHANGED <<cats, disk, edition, lists, arranged, meant, slips, starts>>

(* The row is not meant to be anywhere any more; the layout keeps it. *)
Forgotten(id) ==
  IF meant = NoLayout THEN NoLayout
  ELSE [g \in DOMAIN meant |-> SelectSeq(meant[g], LAMBDA r : r.id # id)]

(* categories:delete, from the menu of a row or from Settings. *)
DropCategory(n) ==
  /\ Acts
  /\ n \in ToSet(lists.cats) /\ n \in ToSet(cats) /\ cats' = Remove(cats, n)
  /\ meant' = Forgotten(Category(n))
  /\ Answer([There EXCEPT !.cats = cats'], None, NoGroup)
  /\ UNCHANGED <<queries, made, disk, edition, lists, arranged, slips, starts>>

(* searches:delete, from the menu of its row. *)
DropSearch(n) ==
  /\ Acts
  /\ n \in ToSet(lists.queries) /\ n \in ToSet(queries) /\ queries' = Remove(queries, n)
  /\ meant' = Forgotten(Search(n))
  /\ Answer([There EXCEPT !.queries = queries'], None, NoGroup)
  /\ UNCHANGED <<cats, made, disk, edition, lists, arranged, slips, starts>>

(* addCategory, addSearch: the row taken for the new one. *)
Taken(a, known) ==
  IF a.own[1] = "search" THEN Search(FoldLeft(LAMBDA x, y : IF x > y THEN x ELSE y, 0, known.queries))
  ELSE LET at == SelectInSeq(known.cats, LAMBDA n : n \notin a.before)
       IN  IF at = 0 THEN None ELSE Category(known.cats[at])

(* The first answer: the list is the window's, and adopt reads it afresh.  *)
(* Whoever made a row with a + means it to be shown at the end there.      *)
Answered ==
  LET a == Head(answers)
      drawn == Reconcile(arranged, Descriptors(a.known, edition))
      taken == IF a.group = NoGroup THEN None ELSE Taken(a, a.known)
  IN  /\ answers # <<>> /\ answers' = Tail(answers)
      /\ lists' = a.known
      /\ IF taken = None THEN UNCHANGED <<arranged, disk>>
         ELSE Save(MoveRow(drawn, taken, a.group, None))
      /\ meant' = IF a.group = NoGroup THEN meant
                  ELSE SetRowHidden(MoveRow(drawn, a.own, a.group, None), a.own, FALSE)
      /\ slips' = IF a.group # NoGroup /\ taken # a.own THEN slips \cup {"crossed"} ELSE slips
      /\ UNCHANGED <<cats, queries, made, edition, acts, starts>>

(* The app starts, perhaps a later edition of it: what init cannot read is *)
(* empty.                                                                  *)
Start(unread) ==
  /\ starts < MaxStarts /\ starts' = starts + 1
  /\ edition' \in edition..Editions
  /\ lists' = [cats |-> IF "cats" \in unread THEN <<>> ELSE cats,
               queries |-> IF "queries" \in unread THEN <<>> ELSE queries]
  /\ arranged' = IF "layout" \in unread THEN NoLayout ELSE disk
  /\ answers' = <<>>
  /\ slips' = IF unread # {} THEN slips \cup {"unread"} ELSE slips
  /\ UNCHANGED <<cats, queries, made, disk, meant, acts>>

Rows == {d.id : d \in ToSet(Builtins)} \cup {Category(n) : n \in Names} \cup {Search(n) : n \in 1..MaxSearches}
Lists == {"cats", "queries", "layout"}

Next ==
  \/ \E id \in Rows, to \in ToSet(Groups), before \in Rows \cup {None} : Drag(id, to, before)
  \/ \E id \in Rows, hidden \in BOOLEAN : Toggle(id, hidden)
  \/ \E n \in Names, group \in ToSet(Groups) \cup {NoGroup} : AddCategory(n, group)
  \/ \E group \in ToSet(Groups) : AddSearch(group)
  \/ \E n \in Names : DropCategory(n)
  \/ \E n \in 1..MaxSearches : DropSearch(n)
  \/ Answered
  \/ \E unread \in SUBSET Lists : Start(unread)

Spec == Init /\ [][Next]_vars

-----------------------------------------------------------------------------
(* Properties. *)

(* Every row there is is drawn in one place, whatever was stored. *)
EachOnce ==
  LET all == FlattenSeq([i \in DOMAIN Groups |-> Shown[Groups[i]]])
  IN  /\ Len(all) = Cardinality(Ids(all))
      /\ Ids(all) = {d.id : d \in ToSet(Descriptors(lists, edition))}

(* Of two layouts, the rows of the second. *)
Only(l, ids) == [g \in DOMAIN l |-> SelectSeq(l[g], LAMBDA r : r.id \in ids)]

(* "Known rows keep their saved group, order, and hidden flag"             *)
(* (sidebarLayout.ts:155): what the next start draws is what the person    *)
(* arranged, through rows that come and go and later editions; a row       *)
(* nobody placed is where its descriptor says.  Not so after a start that  *)
(* could not read a list, for an id that is used again, and for two        *)
(* additions at a time.                                                    *)
Arranged ==
  LET rows == Descriptors(There, edition)
      next == Reconcile(disk, rows)
  IN  /\ EachOnce
      /\ slips = {} /\ meant # NoLayout =>
           /\ Only(next, Placed(meant)) = Only(meant, Placed(next))
           /\ \A d \in ToSet(rows) : d.id \notin Placed(meant) =>
                Row(d.id, d.hidden) \in ToSet(next[d.group])
=============================================================================
