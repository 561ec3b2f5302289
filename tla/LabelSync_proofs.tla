-------------------------- MODULE LabelSync_proofs --------------------------
(***************************************************************************)
(* Changes made here win, and the two sides meet, for any threads, any     *)
(* finite set of messages, any labels, any number of changes on both       *)
(* sides, and faults of every kind.                                        *)
(*                                                                         *)
(* LocalWins.  A step disturbs it when it writes labels or moves rows.     *)
(* Labels are written with the open rows laid over them (WriteThreads), or *)
(* where there is no open row (Apply); a row that is added is laid over    *)
(* them at once (Change), and one that leaves was the oldest, which        *)
(* decides about a label only as long as it is the only one to touch it.   *)
(*                                                                         *)
(* SidesMatch speaks only of a caught-up moment.  SInv says of every       *)
(* moment where what is not the same here and there will come from: the    *)
(* part of the history beyond Mark, a thread to be listed or fetched       *)
(* (Unlisted, OnItsWay), or one to be read again after its ack (Owed).     *)
(* Gmail's steps record what they change (GmailMoves), the steps that land *)
(* an answer settle what they deal with (HistoryTrue, ThreadsLandTrue), a  *)
(* change made here owes what it hides (ChangeOwed), and for all the       *)
(* others NothingMoves is enough.                                          *)
(***************************************************************************)
EXTENDS LabelSync, FiniteSetTheorems, SequenceTheorems, TLAPS

Row == [thread : Threads, add : SUBSET Labels, remove : SUBSET Labels, due : BOOLEAN]

(* What LocalWins needs to know of the variables. *)
Typed ==
  /\ here \subseteq Messages
  /\ local \in [Messages -> SUBSET Labels]
  /\ rows \in Seq(Row)
  /\ run \in {"call", "applied"} => rows # <<>>

IInv == Typed /\ LocalWins

(* Reapplied, for any rows s. *)
OpenIn(s, t) == {i \in DOMAIN s : s[i].thread = t}

Over(s, t, labels) ==
  {l \in Labels :
     \/ \E i \in OpenIn(s, t) :
          /\ Touches(s[i], l)
          /\ \A j \in OpenIn(s, t) : Touches(s[j], l) => j <= i
          /\ l \in s[i].add
     \/ l \in labels /\ \A i \in OpenIn(s, t) : ~Touches(s[i], l)}

LEMMA OverRows ==
  ASSUME NEW t, NEW labels
  PROVE  Reapplied(t, labels) = Over(rows, t, labels)
BY DEF Reapplied, Over, OpenFor, OpenIn, Decides

LEMMA OverRowsNext ==
  ASSUME NEW t, NEW labels
  PROVE  Reapplied(t, labels)' = Over(rows', t, labels')
BY DEF Reapplied, Over, OpenFor, OpenIn, Decides

(* Laid over twice is laid over once. *)
LEMMA Twice ==
  ASSUME NEW s, NEW t, NEW labels
  PROVE  Over(s, t, Over(s, t, labels)) = Over(s, t, labels)
BY DEF Over

(* Without an open row nothing changes. *)
LEMMA Unmasked ==
  ASSUME NEW s, NEW t, NEW labels \in SUBSET Labels, OpenIn(s, t) = {}
  PROVE  Over(s, t, labels) = labels
BY DEF Over

(* Rows that differ in whether they are due decide the same. *)
LEMMA SameRows ==
  ASSUME NEW s \in Seq(Row), NEW r \in Seq(Row), DOMAIN s = DOMAIN r,
         \A i \in DOMAIN s : /\ s[i].thread = r[i].thread
                             /\ s[i].add = r[i].add /\ s[i].remove = r[i].remove,
         NEW t, NEW labels
  PROVE  Over(s, t, labels) = Over(r, t, labels)
<1>1. OpenIn(s, t) = OpenIn(r, t)
  BY DEF OpenIn
<1>2. \A i \in OpenIn(s, t) : \A l : Touches(s[i], l) <=> Touches(r[i], l)
  BY DEF OpenIn, Touches
<1>3. \A i \in OpenIn(s, t) : s[i].add = r[i].add
  BY DEF OpenIn
<1>. QED
  BY <1>1, <1>2, <1>3 DEF Over

(* A row of another thread decides nothing. *)
LEMMA AnotherRow ==
  ASSUME NEW s \in Seq(Row), NEW r \in Row, NEW t, r.thread # t, NEW labels
  PROVE  Over(Append(s, r), t, labels) = Over(s, t, labels)
<1>1. OpenIn(Append(s, r), t) = OpenIn(s, t)
  BY AppendProperties DEF OpenIn
<1>2. \A i \in OpenIn(s, t) : Append(s, r)[i] = s[i]
  BY AppendProperties DEF OpenIn
<1>. QED
  BY <1>1, <1>2 DEF Over

(* Labels that held against the rows hold against one more, once it is     *)
(* laid over them.                                                         *)
LEMMA OneMoreRow ==
  ASSUME NEW s \in Seq(Row), NEW r \in Row, NEW t, r.thread = t,
         NEW labels \in SUBSET Labels, labels = Over(s, t, labels)
  PROVE  Applied(r, labels) = Over(Append(s, r), t, Applied(r, labels))
<1>. DEFINE n == Len(s) + 1
            q == Append(s, r)
            new == Applied(r, labels)
<1>0. /\ n \in Nat /\ q[n] = r
      /\ \A i \in DOMAIN s : q[i] = s[i] /\ i \in Nat /\ i < n
      /\ OpenIn(q, t) = OpenIn(s, t) \cup {n}
      /\ OpenIn(s, t) \subseteq DOMAIN s
  BY AppendProperties, LenProperties DEF OpenIn
<1>1. new \subseteq Labels
  BY DEF Applied, Row
<1>2. ASSUME NEW l \in Labels, Touches(r, l)
      PROVE  l \in new <=> l \in Over(q, t, new)
  <2>1. \A j \in OpenIn(q, t) : j <= n
    BY <1>0
  <2>2. \A i \in OpenIn(q, t) : n <= i => i = n
    BY <1>0
  <2>3. l \in new <=> l \in r.add
    BY <1>2 DEF Applied, Touches
  <2>4. Touches(q[n], l) /\ n \in OpenIn(q, t)
    BY <1>0, <1>2
  <2>. QED
    BY <1>0, <2>1, <2>2, <2>3, <2>4 DEF Over
<1>3. ASSUME NEW l \in Labels, ~Touches(r, l)
      PROVE  l \in new <=> l \in Over(q, t, new)
  <2>1. l \in new <=> l \in labels
    BY <1>3 DEF Applied, Touches
  <2>2. l \in labels <=> l \in Over(s, t, labels)
    OBVIOUS
  <2>3. \A i \in OpenIn(q, t) : Touches(q[i], l) => i \in OpenIn(s, t)
    BY <1>0, <1>3
  <2>. QED
    BY <1>0, <1>3, <2>1, <2>2, <2>3 DEF Over
<1>. QED
  BY <1>1, <1>2, <1>3 DEF Over

(* Labels that hold against the rows hold without the oldest one. *)
LEMMA OneRowLess ==
  ASSUME NEW s \in Seq(Row), s # <<>>, NEW t,
         NEW labels \in SUBSET Labels, labels = Over(s, t, labels)
  PROVE  labels = Over(Tail(s), t, labels)
<1>. DEFINE q == Tail(s)
<1>0. /\ Len(s) \in Nat \ {0} /\ DOMAIN s = 1 .. Len(s) /\ DOMAIN q = 1 .. Len(s) - 1
      /\ \A i \in DOMAIN q : q[i] = s[i + 1]
  BY HeadTailProperties, LenProperties, EmptySeq
<1>1. \A i : i \in OpenIn(q, t) <=> i \in DOMAIN q /\ i + 1 \in OpenIn(s, t)
  BY <1>0 DEF OpenIn
<1>2. \A j \in OpenIn(s, t) : j = 1 \/ (j - 1 \in OpenIn(q, t) /\ s[j] = q[j - 1])
  BY <1>0 DEF OpenIn
<1>3. ASSUME NEW l \in Labels, \A i \in OpenIn(q, t) : ~Touches(q[i], l)
      PROVE  l \in labels <=> l \in Over(q, t, labels)
  BY <1>3 DEF Over
<1>4. ASSUME NEW l \in Labels, NEW k \in OpenIn(q, t), Touches(q[k], l)
      PROVE  l \in labels <=> l \in Over(q, t, labels)
  <2>0. k + 1 \in OpenIn(s, t) /\ Touches(s[k + 1], l) /\ k \in 1 .. Len(s) - 1
    BY <1>0, <1>1, <1>4
  <2>1. ASSUME NEW i \in OpenIn(s, t), Touches(s[i], l),
               \A j \in OpenIn(s, t) : Touches(s[j], l) => j <= i
        PROVE  /\ i - 1 \in OpenIn(q, t) /\ q[i - 1] = s[i]
               /\ \A j \in OpenIn(q, t) : Touches(q[j], l) => j <= i - 1
    <3>1. k + 1 <= i /\ i \in 1 .. Len(s)
      BY <1>0, <2>0, <2>1 DEF OpenIn
    <3>2. i - 1 \in OpenIn(q, t) /\ q[i - 1] = s[i]
      BY <1>2, <2>0, <3>1
    <3>3. ASSUME NEW j \in OpenIn(q, t), Touches(q[j], l) PROVE j <= i - 1
      <4>1. j \in DOMAIN q /\ j + 1 \in OpenIn(s, t) /\ Touches(s[j + 1], l)
        BY <1>0, <1>1, <3>3
      <4>. QED
        BY <1>0, <2>1, <3>1, <4>1
    <3>. QED
      BY <3>2, <3>3
  <2>2. ASSUME NEW i \in OpenIn(q, t), Touches(q[i], l),
               \A j \in OpenIn(q, t) : Touches(q[j], l) => j <= i
        PROVE  /\ i + 1 \in OpenIn(s, t) /\ s[i + 1] = q[i]
               /\ \A j \in OpenIn(s, t) : Touches(s[j], l) => j <= i + 1
    <3>1. i \in DOMAIN q /\ i + 1 \in OpenIn(s, t) /\ s[i + 1] = q[i]
      BY <1>0, <1>1
    <3>2. ASSUME NEW j \in OpenIn(s, t), Touches(s[j], l) PROVE j <= i + 1
      <4>1. CASE j = 1
        BY <1>0, <3>1, <4>1
      <4>2. CASE j # 1
        <5>1. j \in 1 .. Len(s) /\ j - 1 \in OpenIn(q, t) /\ Touches(q[j - 1], l)
          BY <1>0, <1>2, <3>2, <4>2 DEF OpenIn
        <5>. QED
          BY <1>0, <2>2, <3>1, <5>1
      <4>. QED
        BY <4>1, <4>2
    <3>. QED
      BY <3>1, <3>2
  <2>3. l \in labels <=> \E i \in OpenIn(s, t) :
                            /\ Touches(s[i], l)
                            /\ \A j \in OpenIn(s, t) : Touches(s[j], l) => j <= i
                            /\ l \in s[i].add
    BY <2>0 DEF Over
  <2>4. l \in Over(q, t, labels) <=> \E i \in OpenIn(q, t) :
                            /\ Touches(q[i], l)
                            /\ \A j \in OpenIn(q, t) : Touches(q[j], l) => j <= i
                            /\ l \in q[i].add
    BY <1>4 DEF Over
  <2>5. l \in labels => l \in Over(q, t, labels)
    BY <2>1, <2>3, <2>4
  <2>6. l \in Over(q, t, labels) => l \in labels
    BY <2>2, <2>3, <2>4
  <2>. QED
    BY <2>5, <2>6
<1>. QED
  BY <1>3, <1>4 DEF Over

-----------------------------------------------------------------------------
(* What the steps do to labels and rows. *)

LEMMA Wins ==
  /\ LocalWins <=> \A m \in here : local[m] = Over(rows, ThreadOf[m], local[m])
  /\ LocalWins' <=> \A m \in here' : local'[m] = Over(rows', ThreadOf[m], local'[m])
BY OverRows, OverRowsNext DEF LocalWins

(* Nothing. *)
LEMMA NothingWritten ==
  ASSUME IInv, UNCHANGED <<here, local, rows>>,
         run' \in {"call", "applied"} => rows # <<>>
  PROVE  IInv'
BY Wins DEF IInv, Typed

(* The oldest row leaves. *)
LEMMA OldestLeaves ==
  ASSUME IInv, rows # <<>>, rows' = Tail(rows), UNCHANGED <<here, local>>,
         run' \notin {"call", "applied"}
  PROVE  IInv'
<1>1. Typed'
  BY HeadTailProperties DEF IInv, Typed
<1>2. ASSUME NEW m \in here PROVE local[m] = Over(Tail(rows), ThreadOf[m], local[m])
  <2>1. rows \in Seq(Row) /\ local[m] \in SUBSET Labels
    BY DEF IInv, Typed
  <2>2. local[m] = Over(rows, ThreadOf[m], local[m])
    BY Wins DEF IInv
  <2>. QED
    BY <2>1, <2>2, OneRowLess
<1>. QED
  BY <1>1, <1>2, Wins DEF IInv

(* The oldest row begins or ends to wait. *)
LEMMA OldestWaits ==
  ASSUME IInv, rows # <<>>, NEW b \in BOOLEAN, rows' = [rows EXCEPT ![1].due = b],
         UNCHANGED <<here, local>>
  PROVE  IInv'
<1>0. rows \in Seq(Row)
  BY DEF IInv, Typed
<1>1. 1 \in DOMAIN rows /\ DOMAIN rows = 1 .. Len(rows) /\ Len(rows) \in Nat /\ rows[1] \in Row
  BY <1>0, EmptySeq, LenProperties, ElementOfSeq
<1>2. rows' \in Seq(Row) /\ DOMAIN rows' = DOMAIN rows /\ rows' # <<>>
  <2>1. [rows[1] EXCEPT !.due = b] \in Row
    BY <1>1 DEF Row
  <2>2. rows' = [rows EXCEPT ![1] = [rows[1] EXCEPT !.due = b]]
    OBVIOUS
  <2>. QED
    BY <1>0, <1>1, <2>1, <2>2, ExceptSeq
<1>3. \A i \in DOMAIN rows : /\ rows[i].thread = rows'[i].thread
                             /\ rows[i].add = rows'[i].add /\ rows[i].remove = rows'[i].remove
  BY <1>0, <1>1 DEF Row
<1>4. Typed'
  BY <1>2 DEF IInv, Typed
<1>5. ASSUME NEW m \in here PROVE local[m] = Over(rows', ThreadOf[m], local[m])
  <2>1. local[m] = Over(rows, ThreadOf[m], local[m])
    BY Wins DEF IInv
  <2>2. \A t, labels : Over(rows, t, labels) = Over(rows', t, labels)
    BY <1>0, <1>2, <1>3, SameRows
  <2>. QED
    BY <2>1, <2>2
<1>. QED
  BY <1>4, <1>5, Wins DEF IInv

(* Threads fetched whole land, with the open rows laid over them. *)
LEMMA ThreadsLand ==
  ASSUME IInv, WriteThreads, UNCHANGED rows, run' \notin {"call", "applied"}
  PROVE  IInv'
<1>1. ASSUME NEW t, NEW labels PROVE Over(rows, t, labels) \in SUBSET Labels
  BY DEF Over
<1>2. local' \in [Messages -> SUBSET Labels]
  BY <1>1, OverRows DEF WriteThreads, IInv, Typed
<1>3. Typed'
  BY <1>2 DEF WriteThreads, IInv, Typed
<1>4. ASSUME NEW m \in here' PROVE local'[m] = Over(rows, ThreadOf[m], local'[m])
  <2>0. m \in Messages
    BY DEF WriteThreads
  <2>1. CASE Got(ThreadOf[m])
    <3>1. Listed(m)
      BY <2>0, <2>1 DEF WriteThreads
    <3>2. local'[m] = Over(rows, ThreadOf[m], reads[ThreadOf[m]].labels[m])
      BY <2>0, <2>1, <3>1, OverRows DEF WriteThreads
    <3>. QED
      BY <3>2, Twice
  <2>2. CASE ~Got(ThreadOf[m])
    <3>1. m \in here /\ local'[m] = local[m]
      BY <2>0, <2>2 DEF WriteThreads
    <3>. QED
      BY <3>1, Wins DEF IInv
  <2>. QED
    BY <2>1, <2>2
<1>. QED
  BY <1>3, <1>4, Wins DEF IInv

(* A change made here is laid over the labels as its row is added. *)
LEMMA ChangeShows ==
  ASSUME IInv, MailAssumption, NEW t \in Threads, NEW c \in Changes, Change(t, c)
  PROVE  IInv'
<1>. DEFINE r == [thread |-> t, add |-> c.add, remove |-> c.remove, due |-> TRUE]
<1>0. /\ c.add \in SUBSET Labels /\ c.remove \in SUBSET Labels
      /\ r \in Row /\ rows \in Seq(Row)
      /\ rows' = Append(rows, r) /\ here' = here /\ run' = run
  BY DEF MailAssumption, Change, IInv, Typed, Row
<1>1. rows' \in Seq(Row) /\ rows' # <<>>
  BY <1>0, AppendProperties
<1>2. local' \in [Messages -> SUBSET Labels]
  BY <1>0 DEF Change, Applied, IInv, Typed
<1>3. Typed'
  BY <1>0, <1>1, <1>2 DEF IInv, Typed
<1>4. ASSUME NEW m \in here PROVE local'[m] = Over(rows', ThreadOf[m], local'[m])
  <2>0. m \in Messages /\ local[m] \in SUBSET Labels
    BY DEF IInv, Typed
  <2>1. local[m] = Over(rows, ThreadOf[m], local[m])
    BY Wins DEF IInv
  <2>2. CASE ThreadOf[m] = t
    <3>1. local'[m] = Applied(r, local[m])
      BY <2>0, <2>2 DEF Change, Applied
    <3>2. Applied(r, local[m]) = Over(Append(rows, r), t, Applied(r, local[m]))
      <4>1. r.thread = t
        OBVIOUS
      <4>. QED
        BY <1>0, <2>0, <2>1, <2>2, <4>1, OneMoreRow
    <3>. QED
      BY <1>0, <2>2, <3>1, <3>2
  <2>3. CASE ThreadOf[m] # t
    <3>1. local'[m] = local[m]
      BY <2>0, <2>3 DEF Change
    <3>2. Over(Append(rows, r), ThreadOf[m], local[m]) = Over(rows, ThreadOf[m], local[m])
      <4>1. r.thread # ThreadOf[m]
        BY <2>3
      <4>. QED
        BY <1>0, <4>1, AnotherRow
    <3>. QED
      BY <1>0, <2>1, <3>1, <3>2
  <2>. QED
    BY <2>2, <2>3
<1>. QED
  BY <1>0, <1>3, <1>4, Wins DEF IInv

(* History changes the labels of threads without an open row only. *)
LEMMA HistoryApplies ==
  ASSUME IInv, Apply
  PROVE  IInv'
<1>0. rows' = rows /\ here' \subseteq here /\ run' \notin {"call", "applied"}
  BY DEF Apply
<1>1. \A m : Replayed(m) \in SUBSET Labels
  BY DEF Replayed
<1>2. local' \in [Messages -> SUBSET Labels]
  BY <1>1 DEF Apply, IInv, Typed
<1>3. Typed'
  BY <1>0, <1>2 DEF IInv, Typed
<1>4. ASSUME NEW m \in here' PROVE local'[m] = Over(rows, ThreadOf[m], local'[m])
  <2>0. m \in here /\ m \in Messages /\ m \notin Deleted
    BY <1>0 DEF Apply, IInv, Typed
  <2>1. CASE HasPendingMask(ThreadOf[m])
    <3>1. local'[m] = local[m]
      BY <2>0, <2>1 DEF Apply
    <3>. QED
      BY <2>0, <3>1, Wins DEF IInv
  <2>2. CASE ~HasPendingMask(ThreadOf[m])
    <3>1. local'[m] \in SUBSET Labels
      BY <1>2, <2>0
    <3>2. OpenIn(rows, ThreadOf[m]) = {}
      BY <2>2 DEF HasPendingMask, OpenFor, OpenIn
    <3>. QED
      BY <3>1, <3>2, Unmasked
  <2>. QED
    BY <2>1, <2>2
<1>. QED
  BY <1>0, <1>3, <1>4, Wins DEF IInv

-----------------------------------------------------------------------------

LEMMA Start == Init => IInv
<1>. SUFFICES ASSUME Init PROVE IInv
  OBVIOUS
<1>1. <<>> \in Seq(Row)
  BY EmptySeq
<1>. QED
  BY <1>1 DEF Init, IInv, Typed, LocalWins

LEMMA Step ==
  ASSUME IInv, [Next]_vars, MailAssumption
  PROVE  IInv'
<1>. USE DEF store, server, memory, counters
<1>1. ASSUME NEW t \in Threads, NEW c \in Changes, Change(t, c) PROVE IInv'
  BY <1>1, ChangeShows
<1>2. ASSUME NEW m \in Messages, GmailNew(m) PROVE IInv'
  BY <1>2, NothingWritten DEF GmailNew, RemoteChange, IInv, Typed
<1>3. ASSUME NEW m \in Messages, GmailDelete(m) PROVE IInv'
  BY <1>3, NothingWritten DEF GmailDelete, RemoteChange, IInv, Typed
<1>4. ASSUME NEW m \in Messages, NEW c \in Changes, GmailLabels(m, c) PROVE IInv'
  BY <1>4, NothingWritten DEF GmailLabels, RemoteChange, IInv, Typed
<1>5. CASE StartRun
  <2>1. run' \notin {"call", "applied"}
    BY <1>5 DEF StartRun
  <2>. QED
    BY <1>5, <2>1, NothingWritten DEF StartRun
<1>6. CASE Profile
  BY <1>6, NothingWritten DEF Profile
<1>7. CASE List
  <2>1. UNCHANGED <<here, local, rows>> /\ run' \notin {"call", "applied"}
    BY <1>7 DEF List
  <2>. QED
    BY <2>1, NothingWritten
<1>8. CASE LandPage
  <2>1. WriteThreads /\ rows' = rows /\ run' \notin {"call", "applied"}
    BY <1>8 DEF LandPage
  <2>. QED
    BY <2>1, ThreadsLand
<1>9. CASE PageThrows
  BY <1>9, NothingWritten DEF PageThrows
<1>10. CASE Pull
  BY <1>10, NothingWritten DEF Pull
<1>11. CASE Apply
  BY <1>11, HistoryApplies
<1>12. CASE LandPoll
  <2>1. WriteThreads /\ rows' = rows /\ run' \notin {"call", "applied"}
    BY <1>12 DEF LandPoll
  <2>. QED
    BY <2>1, ThreadsLand
<1>13. CASE TakeNext
  BY <1>13, NothingWritten DEF TakeNext, HeadIsDue
<1>14. CASE GmailModifies
  <2>1. UNCHANGED <<here, local, rows>> /\ rows # <<>>
    BY <1>14 DEF GmailModifies, IInv, Typed
  <2>. QED
    BY <2>1, NothingWritten
<1>15. CASE Ack
  BY <1>15, OldestLeaves DEF Ack, IInv, Typed
<1>16. CASE FailTerminal
  <2>1. /\ rows # <<>> /\ rows' = Tail(rows) /\ UNCHANGED <<here, local>>
        /\ run' \notin {"call", "applied"}
    BY <1>16 DEF FailTerminal, GiveUp, IInv, Typed
  <2>. QED
    BY <2>1, OldestLeaves
<1>17. CASE EndDrain
  <2>1. UNCHANGED <<here, local, rows>> /\ run' \notin {"call", "applied"}
    BY <1>17 DEF EndDrain
  <2>. QED
    BY <2>1, NothingWritten
<1>18. CASE LandReread
  <2>1. WriteThreads /\ rows' = rows /\ run' \notin {"call", "applied"}
    BY <1>18 DEF LandReread
  <2>. QED
    BY <2>1, ThreadsLand
<1>19. ASSUME NEW t \in wanted, Read(t) \/ ReadFails(t) PROVE IInv'
  <2>1. UNCHANGED <<here, local, rows, run>>
    BY <1>19 DEF Read, ReadFails
  <2>. QED
    BY <2>1, NothingWritten DEF IInv, Typed
<1>20. CASE BecomeDue
  BY <1>20, OldestWaits DEF BecomeDue
<1>21. CASE PullFails \/ PullExpired
  <2>1. UNCHANGED <<here, local, rows>> /\ run' \notin {"call", "applied"}
    BY <1>21 DEF PullFails, PullExpired
  <2>. QED
    BY <2>1, NothingWritten
<1>22. CASE BatchThrows \/ RereadThrows \/ Crash
  <2>1. UNCHANGED <<here, local, rows>> /\ run' \notin {"call", "applied"}
    BY <1>22 DEF BatchThrows, RereadThrows, Crash
  <2>. QED
    BY <2>1, NothingWritten
<1>23. CASE FailRetry
  BY <1>23, OldestWaits DEF FailRetry, IInv, Typed
<1>24. CASE FailAuth
  <2>1. /\ rows # <<>> /\ rows' = Tail(rows) /\ UNCHANGED <<here, local>>
        /\ run' \notin {"call", "applied"}
    BY <1>24 DEF FailAuth, GiveUp, IInv, Typed
  <2>. QED
    BY <2>1, OldestLeaves
<1>25. CASE UNCHANGED vars
  BY <1>25, NothingWritten DEF vars, IInv, Typed
<1>. QED
  BY <1>1, <1>2, <1>3, <1>4, <1>5, <1>6, <1>7, <1>8, <1>9, <1>10, <1>11, <1>12, <1>13,
     <1>14, <1>15, <1>16, <1>17, <1>18, <1>19, <1>20, <1>21, <1>22, <1>23, <1>24, <1>25
  DEF Next, User, Gmail, Backfill, Poll, Drain, Reading, Failing

(* A change made here and not yet delivered shows on every message of its  *)
(* thread, whatever Gmail says meanwhile and whatever fails                *)
(* (changeThreadLabels, applyHistory, reapplyPendingMasks).                *)
THEOREM LocalChangesWin == Spec => []LocalWins
<1>1. Init => IInv
  BY Start
<1>2. IInv /\ [Next]_vars => IInv'
  BY MailAssumption, Step
<1>3. IInv => LocalWins
  BY DEF IInv
<1>. QED
  BY <1>1, <1>2, <1>3, PTL DEF Spec
-----------------------------------------------------------------------------
(* Both sides hold the same.  What is not the same is on its way: in the   *)
(* history that is still to be read, in a thread still to be listed,       *)
(* fetched or read again, or in a change still to be delivered.            *)

Rec == [op : {"added", "labels", "deleted"}, msg : Messages, add : SUBSET Labels, remove : SUBSET Labels]

(* What a change adds it does not take away. *)
Apart(c) == c.add \subseteq Labels /\ c.remove \subseteq Labels /\ c.add \cap c.remove = {}

Known ==
  /\ here \subseteq Messages /\ there \subseteq Messages
  /\ gmail \in [Messages -> SUBSET Labels]
  /\ log \in Seq(Rec)
  /\ watermark \in 0 .. Len(log) /\ upto \in 0 .. Len(log)
  /\ DOMAIN reads = Threads /\ wanted \subseteq Threads
  /\ acked \subseteq Threads /\ cursor \subseteq Threads
  /\ \A t \in Threads : reads[t].how \in {"none", "gone", "failed", "ok"}
  /\ retry \in [Threads -> Nat]
  /\ faults \in Seq(Faults)
  /\ rows \in Seq(Row) /\ \A i \in DOMAIN rows : Apart(rows[i])

(* The history up to here is dealt with, or will be when the fetch lands. *)
Mark == IF run = "fetch" THEN upto ELSE watermark

About(r, l) == r.op = "added" \/ Touches(r, l)

Later(m) == {i \in DOMAIN log : i > Mark /\ log[i].msg = m}
Pending(m, l) == \E i \in Later(m) : About(log[i], l)
Arrives(m) == \E i \in Later(m) : log[i].op = "added"
Goes(m) == \E i \in Later(m) : log[i].op = "deleted"

(* What the run is doing goes with what it holds. *)
Shape ==
  /\ run \in {"apply", "fetch"} => watermark <= upto
  /\ \A t \in Threads : reads[t].how # "none" => t \in wanted
  /\ ~Fetching => wanted = {}
  /\ run \in {"list", "page"} => sync # "live"
  /\ run = "profile" => sync = "new"
  /\ run \notin {"idle", "profile", "list", "page"} => sync = "live"
  /\ run \notin {"drain", "call", "applied", "drained"} => acked = {}
  /\ \A t \in Threads : retry[t] + (IF reads[t].how = "failed" THEN 1 ELSE 0) <= Len(faults)

(* The last record about a label says what Gmail holds, and a message that *)
(* was deleted does not come back.                                         *)
History ==
  \A m \in there :
    /\ \A i \in DOMAIN log : log[i].msg = m => log[i].op # "deleted"
    /\ \A l \in Labels, i \in DOMAIN log :
         /\ log[i].msg = m /\ About(log[i], l)
         /\ \A j \in DOMAIN log : log[j].msg = m /\ About(log[j], l) => j <= i
         => (l \in gmail[m] <=> l \in log[i].add)

(* What was read of a thread is what Gmail holds, but for later news. *)
ReadTrue(t) ==
  /\ Got(t) =>
       /\ \A m \in Of(t) \cap there :
            \/ Arrives(m)
            \/ /\ Listed(m)
               /\ \A l \in Labels : (l \in reads[t].labels[m] <=> l \in gmail[m]) \/ Pending(m, l)
       /\ \A m \in Of(t) \ there : Listed(m) => Goes(m)
  /\ reads[t].how = "gone" => \A m \in Of(t) \cap there : Arrives(m)

ReadsTrue == \A t \in Threads : ReadTrue(t)

(* The backfill has still to list the thread. *)
Unlisted(t) ==
  \/ sync = "new" /\ run \in {"idle", "profile", "list"}
  \/ sync # "live" /\ t \in cursor

GhostsGo ==
  ~Happened("expired") =>
    /\ sync = "new" => here = {}
    /\ \A m \in here \ there : Goes(m)

(* History has still to bring the message, or it did and the thread is     *)
(* being fetched.                                                          *)
OnItsWay(m) ==
  \E i \in DOMAIN log :
    /\ i > watermark /\ log[i].msg = m /\ log[i].op # "deleted"
    /\ run = "fetch" => i > upto \/ ThreadOf[m] \in wanted

MissingCome ==
  ~Happened("crash") /\ NoneGivenUp =>
    \A m \in there \ here : Unlisted(ThreadOf[m]) \/ retry[ThreadOf[m]] > 0 \/ OnItsWay(m)

(* The thread has a change to deliver, or is to be read whole. *)
Owed(t) ==
  \/ HasPendingMask(t) \/ t \in acked \/ Unlisted(t) \/ retry[t] > 0
  \/ run = "reread" /\ t \in wanted

LabelsCome ==
  Remembers =>
    \A m \in here \cap there, l \in Labels :
      \/ l \in local[m] <=> l \in gmail[m]
      \/ Pending(m, l)
      \/ Owed(ThreadOf[m])

SInv == Known /\ Shape /\ History /\ ReadsTrue /\ GhostsGo /\ MissingCome /\ LabelsCome

(* Histories grow. *)
Grows(r, s) == DOMAIN r \subseteq DOMAIN s /\ \A i \in DOMAIN r : s[i] = r[i]

(* A fault is not forgotten. *)
LEMMA FaultStays ==
  ASSUME Known, NEW k \in Faults, faults' = Append(faults, k)
  PROVE  /\ Happened(k)'
         /\ \A x : Happened(x) => Happened(x)'
         /\ NoneGivenUp' => NoneGivenUp
         /\ faults' \in Seq(Faults) /\ Len(faults') = Len(faults) + 1
<1>1. /\ faults' \in Seq(Faults) /\ Len(faults') = Len(faults) + 1 /\ Len(faults) \in Nat
      /\ DOMAIN faults = 1 .. Len(faults) /\ DOMAIN faults' = 1 .. Len(faults')
      /\ \A i \in DOMAIN faults : faults'[i] = faults[i]
      /\ faults'[Len(faults) + 1] = k
  BY AppendProperties, LenProperties DEF Known
<1>2. NoneGivenUp' => NoneGivenUp
  BY <1>1, AttemptsAssumption DEF NoneGivenUp
<1>. QED
  BY <1>1, <1>2 DEF Happened, ToSet

MayFail == UNCHANGED faults \/ \E k \in Faults : Fault(k)

(* A fault that happened is not taken back. *)
LEMMA FaultsStay ==
  ASSUME Known, MayFail
  PROVE  /\ \A x : Happened(x) => Happened(x)'
         /\ NoneGivenUp' => NoneGivenUp
         /\ Remembers' => Remembers
BY FaultStays DEF MayFail, Fault, Happened, NoneGivenUp, Remembers

(* News stays news as long as the mark does not move past it. *)
LEMMA NewsStays ==
  ASSUME Known, Grows(log, log'), Mark' <= Mark, Mark' \in Nat, NEW m
  PROVE  /\ Arrives(m) => Arrives(m)'
         /\ Goes(m) => Goes(m)'
         /\ \A l : Pending(m, l) => Pending(m, l)'
<1>1. Mark \in Nat /\ DOMAIN log \subseteq Nat
  BY LenProperties DEF Known, Mark
<1>2. \A i \in Later(m) : i \in Later(m)' /\ log'[i] = log[i]
  BY <1>1 DEF Later, Grows
<1>. QED
  BY <1>2 DEF Arrives, Goes, Pending, About

(* Once caught up there is no news and nothing owed. *)
LEMMA Settled ==
  ASSUME SInv
  PROVE  SidesMatch
<1>. SUFFICES ASSUME CaughtUp PROVE SidesMatch
  BY DEF SidesMatch, LabelsAgree, SidesAgree, NothingMissing, AllHere, NoGhosts
<1>0. Known /\ Shape /\ MailAssumption
  BY MailAssumption DEF SInv
<1>1. \A m : Later(m) = {}
  BY <1>0, LenProperties DEF CaughtUp, Later, Mark, Known
<1>2. \A m \in Messages : ThreadOf[m] \in Threads
  BY <1>0 DEF MailAssumption
<1>3. \A m \in Messages : ~Unlisted(ThreadOf[m]) /\ ~(retry[ThreadOf[m]] > 0)
  BY <1>2 DEF CaughtUp, Unlisted
<1>4. \A m \in Messages : ~Owed(ThreadOf[m])
  BY <1>0, <1>3 DEF CaughtUp, Shape, Owed, HasPendingMask, OpenFor
<1>5. \A m : ~OnItsWay(m)
  BY <1>0, LenProperties DEF CaughtUp, OnItsWay, Known
<1>6. NoGhosts
  BY <1>1 DEF SInv, GhostsGo, Goes, NoGhosts
<1>7. NothingMissing
  BY <1>0, <1>3, <1>5 DEF SInv, MissingCome, NothingMissing, AllHere, Known
<1>8. LabelsAgree
  BY <1>0, <1>1, <1>4 DEF SInv, LabelsCome, LabelsAgree, SidesAgree, Pending, Known
<1>. QED
  BY <1>6, <1>7, <1>8 DEF SidesMatch

(* At first both sides hold the same, and nothing is on its way. *)
LEMMA BothStart == Init => SInv
<1>. SUFFICES ASSUME Init PROVE SInv
  OBVIOUS
<1>0. MailAssumption
  BY MailAssumption
<1>1. /\ <<>> \in Seq(Rec) /\ <<>> \in Seq(Faults) /\ Len(<<>>) = 0 /\ DOMAIN <<>> = {}
  BY EmptySeq
<1>2. Known
  BY <1>0, <1>1 DEF Init, Known, NotRead, MailAssumption
<1>3. Shape
  BY <1>1 DEF Init, Shape, NotRead, Fetching
<1>4. History /\ ReadsTrue /\ GhostsGo
  BY <1>1 DEF Init, History, ReadsTrue, ReadTrue, Got, NotRead, GhostsGo
<1>5. MissingCome /\ LabelsCome
  BY DEF Init, MissingCome, LabelsCome, Unlisted
<1>. QED
  BY <1>2, <1>3, <1>4, <1>5 DEF SInv

(* A step that writes neither messages, labels nor history. *)
LEMMA NothingMoves ==
  ASSUME SInv, MailAssumption, Known',
         UNCHANGED <<here, local, there, gmail, log, watermark>>,
         MayFail,
         \A t \in Threads : reads'[t] = reads[t] \/ reads'[t].how \in {"none", "failed"},
         run' = "fetch" => run = "fetch" /\ UNCHANGED <<wanted, upto>>,
         Shape,
         ~Happened("expired")' => (sync' = "new" => sync = "new"),
         ~Happened("crash")' /\ NoneGivenUp' =>
           /\ UNCHANGED retry
           /\ \A m \in there : Unlisted(ThreadOf[m]) => Unlisted(ThreadOf[m])',
         Remembers' => \A m \in there : Owed(ThreadOf[m]) => Owed(ThreadOf[m])'
  PROVE  History' /\ ReadsTrue' /\ GhostsGo' /\ MissingCome' /\ LabelsCome'
<1>0. Known
  BY DEF SInv
<1>1. Grows(log, log')
  BY DEF Grows
<1>2. Mark' <= Mark /\ Mark' \in Nat
  BY <1>0, LenProperties DEF Known, Mark, Shape
<1>3. \A m : /\ Arrives(m) => Arrives(m)'
             /\ Goes(m) => Goes(m)'
             /\ \A l : Pending(m, l) => Pending(m, l)'
  BY <1>0, <1>1, <1>2, NewsStays
<1>4. /\ \A x : Happened(x) => Happened(x)'
      /\ NoneGivenUp' => NoneGivenUp
      /\ Remembers' => Remembers
  BY <1>0, FaultsStay
<1>5. History'
  BY DEF SInv, History, About
<1>6. ReadsTrue'
  <2>. SUFFICES ASSUME NEW t \in Threads PROVE ReadTrue(t)'
    BY DEF ReadsTrue
  <2>0. ReadTrue(t)
    BY DEF SInv, ReadsTrue
  <2>1. CASE reads'[t].how \in {"none", "failed"}
    BY <2>1 DEF ReadTrue, Got
  <2>2. CASE reads'[t] = reads[t]
    BY <2>0, <2>2, <1>3 DEF ReadTrue, Got, Listed, Of
  <2>. QED
    BY <2>1, <2>2
<1>7. GhostsGo'
  BY <1>3, <1>4 DEF SInv, GhostsGo
<1>8. MissingCome'
  <2>. SUFFICES ASSUME ~Happened("crash")', NoneGivenUp', NEW m \in there, m \notin here
                PROVE  Unlisted(ThreadOf[m])' \/ retry'[ThreadOf[m]] > 0 \/ OnItsWay(m)'
    BY DEF MissingCome
  <2>1. Unlisted(ThreadOf[m]) \/ retry[ThreadOf[m]] > 0 \/ OnItsWay(m)
    BY <1>4 DEF SInv, MissingCome
  <2>2. OnItsWay(m) => OnItsWay(m)'
    BY DEF OnItsWay
  <2>. QED
    BY <2>1, <2>2
<1>9. LabelsCome'
  <2>. SUFFICES ASSUME Remembers', NEW m \in here, m \in there, NEW l \in Labels
                PROVE  (l \in local[m] <=> l \in gmail[m]) \/ Pending(m, l)' \/ Owed(ThreadOf[m])'
    BY DEF LabelsCome
  <2>1. (l \in local[m] <=> l \in gmail[m]) \/ Pending(m, l) \/ Owed(ThreadOf[m])
    BY <1>4 DEF SInv, LabelsCome
  <2>. QED
    BY <2>1, <1>3
<1>. QED
  BY <1>5, <1>6, <1>7, <1>8, <1>9

(* A change in Gmail is recorded: the new records say what it holds now,   *)
(* and it holds what it held where no new record says otherwise.           *)
New == {i \in DOMAIN log' : i > Len(log)}

Recorded ==
  /\ log' \in Seq(Rec) /\ Grows(log, log') /\ Len(log) <= Len(log')
  /\ \A m \in there' : \A i \in New : log'[i].msg = m => log'[i].op # "deleted"
  /\ \A m \in there' \ there :
       /\ \A i \in DOMAIN log : log[i].msg # m
       /\ \E i \in New : log'[i].msg = m /\ log'[i].op = "added"
  /\ \A m \in there \ there' : \E i \in New : log'[i].msg = m /\ log'[i].op = "deleted"
  /\ \A m \in there', l \in Labels :
       \/ \E i \in New : log'[i].msg = m /\ About(log'[i], l)
       \/ m \in there /\ (l \in gmail'[m] <=> l \in gmail[m])
  /\ \A m \in there', l \in Labels, i \in New :
       log'[i].msg = m /\ About(log'[i], l) => (l \in gmail'[m] <=> l \in log'[i].add)

(* Gmail's steps keep SInv: what they change beyond this store is recorded *)
(* behind Mark.                                                            *)
LEMMA GmailMoves ==
  ASSUME SInv, MailAssumption, Recorded,
         UNCHANGED <<here, local, watermark, upto, sync, cursor, wanted, reads, retry, acked, rows, faults>>,
         run' = run \/ (run = "call" /\ run' = "applied")
  PROVE  History' /\ ReadsTrue' /\ GhostsGo' /\ MissingCome' /\ LabelsCome'
<1>0. /\ Known /\ Len(log) \in Nat /\ Len(log') \in Nat
      /\ DOMAIN log = 1 .. Len(log) /\ DOMAIN log' = 1 .. Len(log')
      /\ Grows(log, log') /\ here \subseteq Messages
  BY LenProperties DEF SInv, Known, Recorded
<1>1. Mark' = Mark /\ Mark \in 0 .. Len(log)
  BY <1>0 DEF Known, Mark
<1>2. \A m : /\ Arrives(m) => Arrives(m)'
             /\ Goes(m) => Goes(m)'
             /\ \A l : Pending(m, l) => Pending(m, l)'
  <2>. Mark' <= Mark /\ Mark' \in Nat
    BY <1>0, <1>1
  <2>. QED
    BY <1>0, NewsStays
<1>3. \A m, i : i \in New /\ log'[i].msg = m => i \in Later(m)'
  BY <1>0, <1>1 DEF New, Later
<1>4. \A m \in there' \ there : Arrives(m)'
  BY <1>3 DEF Recorded, Arrives
<1>5. \A m \in there \ there' : Goes(m)'
  BY <1>3 DEF Recorded, Goes
<1>6. \A m \in there', l \in Labels :
        Pending(m, l)' \/ (m \in there /\ (l \in gmail'[m] <=> l \in gmail[m]))
  BY <1>3 DEF Recorded, Pending
<1>7. \A m : Arrives(m)' => \A l : Pending(m, l)'
  BY DEF Arrives, Pending, About
<1>8. \A i \in DOMAIN log' : i \in New \/ (i \in DOMAIN log /\ log'[i] = log[i])
  BY <1>0 DEF New, Grows
<1>9. /\ \A x : Happened(x)' <=> Happened(x)
      /\ NoneGivenUp' <=> NoneGivenUp
      /\ Remembers' <=> Remembers
  BY DEF Happened, NoneGivenUp, Remembers
<1>10. \A t : Unlisted(t) <=> Unlisted(t)'
  BY DEF Unlisted
<1>11. History'
  <2>. SUFFICES ASSUME NEW m \in there'
                PROVE  /\ \A i \in DOMAIN log' : log'[i].msg = m => log'[i].op # "deleted"
                       /\ \A l \in Labels, i \in DOMAIN log' :
                            /\ log'[i].msg = m /\ About(log'[i], l)
                            /\ \A j \in DOMAIN log' : log'[j].msg = m /\ About(log'[j], l) => j <= i
                            => (l \in gmail'[m] <=> l \in log'[i].add)
    BY DEF History, About, Touches
  <2>1. ASSUME NEW i \in DOMAIN log', log'[i].msg = m PROVE log'[i].op # "deleted"
    BY <1>8, <2>1 DEF SInv, History, Recorded
  <2>2. ASSUME NEW l \in Labels, NEW i \in DOMAIN log', log'[i].msg = m, About(log'[i], l),
               \A j \in DOMAIN log' : log'[j].msg = m /\ About(log'[j], l) => j <= i
        PROVE  l \in gmail'[m] <=> l \in log'[i].add
    <3>1. CASE i \in New
      BY <2>2, <3>1 DEF Recorded
    <3>2. CASE i \notin New
      <4>1. i \in DOMAIN log /\ log'[i] = log[i]
        BY <1>8, <3>2
      <4>2. \A j \in New : ~(log'[j].msg = m /\ About(log'[j], l))
        BY <1>0, <2>2, <4>1 DEF New
      <4>3. m \in there /\ (l \in gmail'[m] <=> l \in gmail[m])
        BY <4>2 DEF Recorded
      <4>4. \A j \in DOMAIN log : log[j].msg = m /\ About(log[j], l) => j <= i
        BY <1>0, <2>2 DEF Grows
      <4>. QED
        BY <2>2, <4>1, <4>3, <4>4 DEF SInv, History
    <3>. QED
      BY <3>1, <3>2
  <2>. QED
    BY <2>1, <2>2
<1>12. ReadsTrue'
  <2>. SUFFICES ASSUME NEW t \in Threads PROVE ReadTrue(t)'
    BY DEF ReadsTrue
  <2>0. ReadTrue(t)
    BY DEF SInv, ReadsTrue
  <2>1. ASSUME Got(t), NEW m \in Of(t), m \in there'
        PROVE  \/ Arrives(m)'
               \/ /\ Listed(m)
                  /\ \A l \in Labels : (l \in reads[t].labels[m] <=> l \in gmail'[m]) \/ Pending(m, l)'
    BY <1>2, <1>4, <1>6, <2>0, <2>1 DEF ReadTrue
  <2>2. ASSUME Got(t), NEW m \in Of(t), m \notin there', Listed(m)
        PROVE  Goes(m)'
    BY <1>2, <1>5, <2>0, <2>2 DEF ReadTrue
  <2>3. ASSUME reads[t].how = "gone", NEW m \in Of(t), m \in there'
        PROVE  Arrives(m)'
    BY <1>2, <1>4, <2>0, <2>3 DEF ReadTrue
  <2>. QED
    BY <2>1, <2>2, <2>3 DEF ReadTrue, Got, Listed, Of
<1>13. GhostsGo'
  BY <1>2, <1>5, <1>9 DEF SInv, GhostsGo
<1>14. MissingCome'
  <2>. SUFFICES ASSUME ~Happened("crash"), NoneGivenUp, NEW m \in there', m \notin here
                PROVE  Unlisted(ThreadOf[m])' \/ retry'[ThreadOf[m]] > 0 \/ OnItsWay(m)'
    BY <1>9 DEF MissingCome
  <2>1. CASE m \in there
    <3>1. Unlisted(ThreadOf[m]) \/ retry[ThreadOf[m]] > 0 \/ OnItsWay(m)
      BY <2>1 DEF SInv, MissingCome
    <3>2. OnItsWay(m) => OnItsWay(m)'
      BY <1>0 DEF OnItsWay, Grows
    <3>. QED
      BY <1>10, <3>1, <3>2
  <2>2. CASE m \notin there
    <3>1. PICK i \in New : log'[i].msg = m /\ log'[i].op = "added"
      BY <2>2 DEF Recorded
    <3>2. i > watermark /\ i > upto /\ i \in DOMAIN log'
      BY <1>0, <3>1 DEF New, Known
    <3>. QED
      BY <3>1, <3>2 DEF OnItsWay
  <2>. QED
    BY <2>1, <2>2
<1>15. LabelsCome'
  <2>. SUFFICES ASSUME Remembers, NEW m \in here, m \in there', NEW l \in Labels
                PROVE  (l \in local[m] <=> l \in gmail'[m]) \/ Pending(m, l)' \/ Owed(ThreadOf[m])'
    BY <1>9 DEF LabelsCome
  <2>1. CASE Pending(m, l)'
    BY <2>1
  <2>2. CASE m \in there /\ (l \in gmail'[m] <=> l \in gmail[m])
    <3>1. (l \in local[m] <=> l \in gmail[m]) \/ Pending(m, l) \/ Owed(ThreadOf[m])
      BY <2>2 DEF SInv, LabelsCome
    <3>2. Owed(ThreadOf[m]) => Owed(ThreadOf[m])'
      BY <1>10 DEF Owed, HasPendingMask, OpenFor
    <3>. QED
      BY <1>2, <2>2, <3>1, <3>2
  <2>. QED
    BY <1>6, <2>1, <2>2
<1>. QED
  BY <1>11, <1>12, <1>13, <1>14, <1>15

(* One more record in the history. *)
LEMMA OneRecord ==
  ASSUME Known, NEW r \in Rec, log' = Append(log, r)
  PROVE  /\ log' \in Seq(Rec) /\ Grows(log, log') /\ Len(log) <= Len(log')
         /\ New = {Len(log) + 1} /\ log'[Len(log) + 1] = r
<1>1. /\ log' \in Seq(Rec) /\ Len(log') = Len(log) + 1 /\ Len(log) \in Nat
      /\ DOMAIN log = 1 .. Len(log) /\ DOMAIN log' = 1 .. Len(log')
      /\ \A i \in DOMAIN log : log'[i] = log[i]
      /\ log'[Len(log) + 1] = r
  BY AppendProperties, LenProperties DEF Known
<1>. QED
  BY <1>1 DEF Grows, New

(* A message arrives. *)
LEMMA NewRecorded ==
  ASSUME SInv, NEW m \in Messages, GmailNew(m)
  PROVE  Recorded
<1>. DEFINE r == Record("added", m, Labels, {})
<1>0. Known /\ r \in Rec /\ log' = Append(log, r)
  BY DEF SInv, GmailNew, Record, Rec
<1>1. /\ log' \in Seq(Rec) /\ Grows(log, log') /\ Len(log) <= Len(log')
      /\ New = {Len(log) + 1} /\ log'[Len(log) + 1] = r
  BY <1>0, OneRecord
<1>2. r.op = "added" /\ r.msg = m /\ r.add = Labels
  BY DEF Record
<1>3. /\ m \notin there /\ there' = there \cup {m} /\ \A i \in DOMAIN log : log[i].msg # m
      /\ gmail'[m] = Labels /\ \A n \in Messages : n # m => gmail'[n] = gmail[n]
  BY <1>0 DEF GmailNew, NeverSeen, Known
<1>4. there' \subseteq Messages
  BY <1>0, <1>3 DEF Known
<1>. QED
  BY <1>1, <1>2, <1>3, <1>4 DEF Recorded, About

(* A message is deleted. *)
LEMMA DeletionRecorded ==
  ASSUME SInv, NEW m \in Messages, GmailDelete(m)
  PROVE  Recorded
<1>. DEFINE r == Record("deleted", m, {}, {})
<1>0. Known /\ r \in Rec /\ log' = Append(log, r)
  BY DEF SInv, GmailDelete, Record, Rec
<1>1. /\ log' \in Seq(Rec) /\ Grows(log, log') /\ Len(log) <= Len(log')
      /\ New = {Len(log) + 1} /\ log'[Len(log) + 1] = r
  BY <1>0, OneRecord
<1>2. r.op = "deleted" /\ r.msg = m
  BY DEF Record
<1>3. /\ m \in there /\ there' = there \ {m}
      /\ \A n \in Messages : n # m => gmail'[n] = gmail[n]
  BY <1>0 DEF GmailDelete, Known
<1>4. there' \subseteq Messages
  BY <1>0, <1>3 DEF Known
<1>. QED
  BY <1>1, <1>2, <1>3, <1>4 DEF Recorded

(* The record of a change of labels names what it changed. *)
Said(r, c, m, held) ==
  /\ r \in Rec /\ r.op = "labels" /\ r.msg = m
  /\ Applied(c, held) \in SUBSET Labels
  /\ \A l \in Labels : About(r, l) => (l \in Applied(c, held) <=> l \in r.add)
  /\ \A l \in Labels : About(r, l) \/ (l \in Applied(c, held) <=> l \in held)

(* What a change leaves of the labels, label by label. *)
LEMMA ChangeOfLabels ==
  ASSUME NEW c, Apart(c), NEW held \in SUBSET Labels, NEW m \in Messages
  PROVE  Said(Record("labels", m, c.add \ held, c.remove \cap held), c, m, held)
BY DEF Said, Record, Rec, Applied, Apart, About, Touches

(* Labels of some messages are changed. *)
LEMMA LabelsRecorded ==
  ASSUME SInv, MailAssumption, NEW m \in Messages, NEW c \in Changes, GmailLabels(m, c)
  PROVE  Recorded
<1>. DEFINE r == Record("labels", m, c.add \ gmail[m], c.remove \cap gmail[m])
<1>0. Known /\ log' = Append(log, r)
  BY DEF SInv, GmailLabels
<1>1. /\ r \in Rec /\ r.op = "labels" /\ r.msg = m
      /\ \A l \in Labels : About(r, l) => (l \in Applied(c, gmail[m]) <=> l \in r.add)
      /\ \A l \in Labels : About(r, l) \/ (l \in Applied(c, gmail[m]) <=> l \in gmail[m])
  <2>1. Apart(c) /\ gmail[m] \in SUBSET Labels
    BY <1>0 DEF MailAssumption, Apart, Known
  <2>2. Said(r, c, m, gmail[m])
    BY <2>1, ChangeOfLabels
  <2>. QED
    BY <2>2 DEF Said
<1>2. /\ log' \in Seq(Rec) /\ Grows(log, log') /\ Len(log) <= Len(log')
      /\ New = {Len(log) + 1} /\ log'[Len(log) + 1] = r
  BY <1>0, <1>1, OneRecord
<1>3. /\ m \in there /\ there' = there /\ gmail'[m] = Applied(c, gmail[m])
      /\ \A n \in Messages : n # m => gmail'[n] = gmail[n]
      /\ there \subseteq Messages
  BY <1>0 DEF GmailLabels, Known
<1>. HIDE DEF r
<1>4. \A i \in New : log'[i] = r
  BY <1>2
<1>5. Len(log) + 1 \in New
  BY <1>2
<1>6. ASSUME NEW n \in there, NEW l \in Labels
      PROVE  \/ \E i \in New : log'[i].msg = n /\ About(log'[i], l)
             \/ l \in gmail'[n] <=> l \in gmail[n]
  BY <1>1, <1>3, <1>4, <1>5, <1>6
<1>7. ASSUME NEW n \in there, NEW l \in Labels, NEW i \in New, log'[i].msg = n, About(log'[i], l)
      PROVE  l \in gmail'[n] <=> l \in log'[i].add
  BY <1>1, <1>3, <1>4, <1>7
<1>. QED
  BY <1>1, <1>2, <1>3, <1>4, <1>6, <1>7 DEF Recorded

(* SetToSeq lists the members of a finite set. *)
LEMMA Listing ==
  ASSUME NEW S, IsFiniteSet(S)
  PROVE  /\ SetToSeq(S) \in Seq(S)
         /\ \A x \in S : \E i \in DOMAIN SetToSeq(S) : SetToSeq(S)[i] = x
<1>. DEFINE n == Cardinality(S)
            f == SetToSeq(S)
<1>1. n \in Nat /\ ExistsBijection(1 .. n, S)
  BY FS_CardinalityType
<1>2. PICK g \in Bijection(1 .. n, S) : TRUE
  BY <1>1 DEF ExistsBijection
<1>3. g \in [1 .. n -> S] /\ IsInjective(g)
  BY <1>2 DEF Bijection, Injection, IsInjective
<1>4. f \in [1 .. n -> S] /\ IsInjective(f)
  BY <1>3 DEF SetToSeq
<1>5. f \in Injection(1 .. n, S)
  BY <1>4 DEF Injection, IsInjective
<1>6. IsFiniteSet(1 .. n) /\ Cardinality(1 .. n) = n
  BY <1>1, FS_Interval
<1>7. f \in Surjection(1 .. n, S)
  BY <1>5, <1>6, FS_Injection
<1>8. f \in Seq(S)
  BY <1>1, <1>4, SeqDef
<1>. QED
  BY <1>4, <1>7, <1>8 DEF Surjection

(* A row of the outbox reaches Gmail (threads.modify). *)
LEMMA DeliveryRecorded ==
  ASSUME SInv, MailAssumption, rows # <<>>, GmailModifies
  PROVE  Recorded
<1>. DEFINE c == rows[1]
            ms == Of(c.thread) \cap there
            changed == {m \in ms : Applied(c, gmail[m]) # gmail[m]}
            rec(m) == Record("labels", m, c.add \ gmail[m], c.remove \cap gmail[m])
            S == {rec(m) : m \in changed}
            q == SetToSeq(S)
<1>0. /\ Known /\ there' = there /\ there \subseteq Messages
      /\ log' = log \o q
      /\ \A m \in Messages : gmail'[m] = IF m \in ms THEN Applied(c, gmail[m]) ELSE gmail[m]
  BY DEF SInv, Known, GmailModifies, ModifyRecords
<1>1. \A m \in Messages : Said(rec(m), c, m, gmail[m])
  <2>1. Apart(c)
    BY <1>0, EmptySeq, LenProperties DEF Known
  <2>2. \A m \in Messages : gmail[m] \in SUBSET Labels
    BY <1>0 DEF Known
  <2>. QED
    BY <2>1, <2>2, ChangeOfLabels
<1>. HIDE DEF rec
<1>2. changed \subseteq Messages /\ S \subseteq Rec
  BY <1>0, <1>1 DEF Said
<1>3. IsFiniteSet(S)
  <2>. DEFINE f == [m \in changed |-> rec(m)]
  <2>1. f \in Surjection(changed, S)
    BY DEF Surjection
  <2>2. IsFiniteSet(changed)
    BY <1>2, FS_Subset DEF MailAssumption
  <2>. QED
    BY <2>1, <2>2, FS_Surjection
<1>4. q \in Seq(S) /\ \A x \in S : \E i \in DOMAIN q : q[i] = x
  BY <1>3, Listing
<1>. HIDE DEF q, S, changed
<1>5. q \in Seq(Rec) /\ log \in Seq(Rec)
  BY <1>0, <1>2, <1>4, SeqMonotonic DEF Known
<1>6. /\ Len(log) \in Nat /\ Len(q) \in Nat
      /\ DOMAIN log = 1 .. Len(log) /\ DOMAIN q = 1 .. Len(q)
      /\ log' \in Seq(Rec) /\ Len(log') = Len(log) + Len(q) /\ DOMAIN log' = 1 .. Len(log')
      /\ \A i \in 1 .. Len(log) + Len(q) : log'[i] = IF i <= Len(log) THEN log[i] ELSE q[i - Len(log)]
  <2>1. log \o q \in Seq(Rec)
    BY <1>5, ConcatProperties
  <2>. QED
    BY <1>0, <1>5, <2>1, ConcatProperties, LenProperties
<1>7. Grows(log, log') /\ Len(log) <= Len(log')
  BY <1>6 DEF Grows
<1>8. \A i \in New : \E m \in changed : log'[i] = rec(m)
  <2>. SUFFICES ASSUME NEW i \in New PROVE \E m \in changed : log'[i] = rec(m)
    OBVIOUS
  <2>1. i - Len(log) \in 1 .. Len(q) /\ log'[i] = q[i - Len(log)]
    BY <1>6 DEF New
  <2>2. q[i - Len(log)] \in S
    BY <1>4, <2>1, ElementOfSeq
  <2>. QED
    BY <2>1, <2>2 DEF S
<1>9. \A m \in changed : \E i \in New : log'[i] = rec(m)
  <2>. SUFFICES ASSUME NEW m \in changed PROVE \E i \in New : log'[i] = rec(m)
    OBVIOUS
  <2>1. PICK j \in DOMAIN q : q[j] = rec(m)
    BY <1>4 DEF S
  <2>2. j + Len(log) \in New /\ log'[j + Len(log)] = q[j]
    BY <1>6 DEF New
  <2>. QED
    BY <2>1, <2>2
<1>10. \A m \in Messages : rec(m).op = "labels" /\ rec(m).msg = m
  BY <1>1 DEF Said
<1>11. ASSUME NEW m \in there, NEW l \in Labels
       PROVE  \/ \E i \in New : log'[i].msg = m /\ About(log'[i], l)
              \/ l \in gmail'[m] <=> l \in gmail[m]
  <2>0. m \in Messages
    BY <1>0
  <2>1. CASE m \in changed
    <3>1. PICK i \in New : log'[i] = rec(m)
      BY <1>9, <2>1
    <3>2. gmail'[m] = Applied(c, gmail[m])
      BY <1>0, <2>0, <2>1 DEF changed
    <3>3. About(rec(m), l) \/ (l \in Applied(c, gmail[m]) <=> l \in gmail[m])
      BY <1>1, <2>0 DEF Said
    <3>. QED
      BY <1>10, <2>0, <3>1, <3>2, <3>3
  <2>2. CASE m \notin changed
    <3>1. gmail'[m] = gmail[m]
      BY <1>0, <2>0, <2>2 DEF changed
    <3>. QED
      BY <3>1
  <2>. QED
    BY <2>1, <2>2
<1>12. ASSUME NEW m \in there, NEW l \in Labels, NEW i \in New, log'[i].msg = m, About(log'[i], l)
       PROVE  l \in gmail'[m] <=> l \in log'[i].add
  <2>1. m \in changed /\ log'[i] = rec(m)
    BY <1>2, <1>8, <1>10, <1>12
  <2>2. m \in Messages /\ gmail'[m] = Applied(c, gmail[m])
    BY <1>0, <2>1 DEF changed
  <2>. QED
    BY <1>1, <1>12, <2>1, <2>2 DEF Said
<1>13. \A m \in there : \A i \in New : log'[i].op # "deleted"
  BY <1>2, <1>8, <1>10
<1>. QED
  BY <1>0, <1>6, <1>7, <1>11, <1>12, <1>13 DEF Recorded

(* An answer of threads.get is what Gmail holds. *)
LEMMA AnswerTrue ==
  ASSUME SInv, MailAssumption, NEW t \in Threads, Read(t)
  PROVE  History' /\ ReadsTrue' /\ GhostsGo' /\ MissingCome' /\ LabelsCome'
<1>0. Known /\ UNCHANGED <<store, server, run, upto, wanted, retry, acked, counters>>
  BY DEF SInv, Read
<1>. USE DEF store, server, counters
<1>1. /\ Mark' = Mark
      /\ \A m : (Arrives(m)' <=> Arrives(m)) /\ (Goes(m)' <=> Goes(m)) /\ (OnItsWay(m)' <=> OnItsWay(m))
      /\ \A m, l : Pending(m, l)' <=> Pending(m, l)
      /\ \A x : Happened(x)' <=> Happened(x)
      /\ \A s : (Unlisted(s)' <=> Unlisted(s)) /\ (Owed(s)' <=> Owed(s))
      /\ (NoneGivenUp' <=> NoneGivenUp) /\ (Remembers' <=> Remembers)
  BY <1>0 DEF Mark, Arrives, Goes, Pending, Later, Happened, Unlisted, Owed, HasPendingMask, OpenFor,
              NoneGivenUp, Remembers, OnItsWay
<1>2. History' /\ GhostsGo' /\ MissingCome' /\ LabelsCome'
  BY <1>0, <1>1 DEF SInv, History, About, GhostsGo, MissingCome, LabelsCome
<1>3. ReadsTrue'
  <2>. SUFFICES ASSUME NEW s \in Threads PROVE ReadTrue(s)'
    BY DEF ReadsTrue
  <2>1. CASE s # t
    <3>1. reads'[s] = reads[s]
      BY <1>0, <2>1 DEF Read, Known
    <3>2. ReadTrue(s)
      BY DEF SInv, ReadsTrue
    <3>3. \A m \in Of(s) : Listed(m)' <=> Listed(m)
      BY <3>1 DEF Listed, Of
    <3>. QED
      BY <1>0, <1>1, <3>1, <3>2, <3>3 DEF ReadTrue, Got, Of
  <2>2. CASE s = t
    <3>1. reads'[t] = Answer(t)
      BY <1>0 DEF Read, Known
    <3>2. CASE Of(t) \cap there = {}
      BY <1>0, <2>2, <3>1, <3>2 DEF ReadTrue, Answer, Got, Of
    <3>3. CASE Of(t) \cap there # {}
      <4>1. reads'[t].how = "ok" /\ reads'[t].labels = [m \in Of(t) \cap there |-> gmail[m]]
        BY <3>1, <3>3 DEF Answer
      <4>2. \A m \in Of(t) : Listed(m)' <=> m \in there
        BY <4>1 DEF Listed, Of
      <4>. QED
        BY <1>0, <2>2, <4>1, <4>2 DEF ReadTrue, Got, Of
    <3>. QED
      BY <3>2, <3>3
  <2>. QED
    BY <2>1, <2>2
<1>. QED
  BY <1>2, <1>3

(* The watermark of a backfill: everything has still to be listed. *)
LEMMA ProfileRead ==
  ASSUME SInv, MailAssumption, Profile
  PROVE  History' /\ ReadsTrue' /\ GhostsGo' /\ MissingCome' /\ LabelsCome'
<1>0. /\ Known /\ Shape /\ sync = "new" /\ sync' = "new" /\ run' = "list"
      /\ UNCHANGED <<here, local, rows, server, memory, counters>>
      /\ \A t \in Threads : reads[t].how = "none"
  BY DEF SInv, Profile, Shape, Fetching
<1>. USE DEF server, memory, counters
<1>1. \A t : Unlisted(t)'
  BY <1>0 DEF Unlisted
<1>2. History' /\ MissingCome' /\ LabelsCome'
  BY <1>0, <1>1 DEF SInv, History, About, MissingCome, LabelsCome, Owed
<1>3. ReadsTrue'
  BY <1>0 DEF ReadsTrue, ReadTrue, Got
<1>4. GhostsGo'
  BY <1>0 DEF SInv, GhostsGo, Happened
<1>. QED
  BY <1>2, <1>3, <1>4

(* Threads fetched whole land. *)
Landed ==
  /\ AllRead /\ WriteThreads
  /\ UNCHANGED <<there, gmail, log, rows, acked, faults>>
  /\ reads' = [t \in Threads |-> NotRead]
  /\ run' # "fetch" /\ watermark' = Mark /\ sync' # "new"
  /\ \A t \in Threads : reads[t].how = "failed" /\ NoneGivenUp => retry'[t] > 0
  /\ \A t \in Threads :
       t \notin wanted => retry'[t] = retry[t] /\ (Unlisted(t) => Unlisted(t)')

(* A batch of threads lands (fetchThreads, the listed page, the read after *)
(* the ack).                                                               *)
LEMMA ThreadsLandTrue ==
  ASSUME SInv, MailAssumption, Landed
  PROVE  History' /\ ReadsTrue' /\ GhostsGo' /\ MissingCome' /\ LabelsCome'
<1>0. /\ Known /\ Shape /\ UNCHANGED <<there, gmail, log, rows, acked, faults>>
      /\ \A t \in Threads : t \notin wanted <=> reads[t].how = "none"
      /\ there \subseteq Messages /\ here \subseteq Messages
      /\ \A m \in Messages : ThreadOf[m] \in Threads
  BY DEF SInv, Known, Shape, Landed, AllRead, MailAssumption
<1>1. /\ Mark' = Mark /\ watermark' = Mark
      /\ \A m : (Arrives(m)' <=> Arrives(m)) /\ (Goes(m)' <=> Goes(m))
      /\ \A m, l : Pending(m, l)' <=> Pending(m, l)
      /\ \A x : Happened(x)' <=> Happened(x)
      /\ (NoneGivenUp' <=> NoneGivenUp) /\ (Remembers' <=> Remembers)
      /\ Remembers => NoneGivenUp
      /\ \A t : HasPendingMask(t)' <=> HasPendingMask(t)
  BY <1>0 DEF Landed, Mark, Arrives, Goes, Pending, Later, Happened, NoneGivenUp, Remembers,
              HasPendingMask, OpenFor
<1>2. \A m \in Messages : m \in here' <=> IF Got(ThreadOf[m]) THEN Listed(m) ELSE m \in here
  BY DEF Landed, WriteThreads
<1>3. \A m \in Messages : ReadTrue(ThreadOf[m]) /\ m \in Of(ThreadOf[m])
  BY <1>0 DEF SInv, ReadsTrue, Of
<1>4. History'
  BY <1>0 DEF SInv, History, About
<1>5. ReadsTrue'
  BY DEF Landed, ReadsTrue, ReadTrue, Got, NotRead
<1>6. GhostsGo'
  <2>. SUFFICES ASSUME ~Happened("expired"), NEW m \in here', m \notin there PROVE Goes(m)
    BY <1>0, <1>1 DEF GhostsGo, Landed
  <2>0. m \in Messages
    BY DEF Landed, WriteThreads
  <2>1. CASE Got(ThreadOf[m])
    BY <1>2, <1>3, <2>0, <2>1 DEF ReadTrue
  <2>2. CASE ~Got(ThreadOf[m])
    BY <1>2, <2>0, <2>2 DEF SInv, GhostsGo
  <2>. QED
    BY <2>1, <2>2
<1>7. MissingCome'
  <2>. SUFFICES ASSUME ~Happened("crash"), NoneGivenUp, NEW m \in there, m \notin here'
                PROVE  Unlisted(ThreadOf[m])' \/ retry'[ThreadOf[m]] > 0 \/ OnItsWay(m)'
    BY <1>0, <1>1 DEF MissingCome
  <2>. DEFINE t == ThreadOf[m]
  <2>0. m \in Messages /\ t \in Threads
    BY <1>0
  <2>1. Arrives(m) => OnItsWay(m)'
    BY <1>0, <1>1 DEF Arrives, Later, OnItsWay, Landed
  <2>2. CASE reads[t].how \in {"ok", "gone"}
    BY <1>2, <1>3, <2>0, <2>1, <2>2 DEF ReadTrue, Got
  <2>3. CASE reads[t].how = "failed"
    BY <2>0, <2>3 DEF Landed
  <2>4. CASE reads[t].how = "none"
    <3>1. m \notin here
      BY <1>2, <2>0, <2>4 DEF Got
    <3>2. Unlisted(t) \/ retry[t] > 0 \/ OnItsWay(m)
      BY <3>1 DEF SInv, MissingCome
    <3>3. t \notin wanted
      BY <1>0, <2>0, <2>4
    <3>4. OnItsWay(m) => OnItsWay(m)'
      BY <1>0, <1>1, <3>3 DEF OnItsWay, Landed, Mark
    <3>. QED
      BY <2>0, <3>2, <3>3, <3>4 DEF Landed
  <2>5. reads[t].how \in {"none", "gone", "failed", "ok"}
    BY <2>0, <1>0 DEF Known
  <2>. QED
    BY <2>2, <2>3, <2>4, <2>5
<1>8. LabelsCome'
  <2>. SUFFICES ASSUME Remembers, NEW m \in here', m \in there, NEW l \in Labels
                PROVE  (l \in local'[m] <=> l \in gmail[m]) \/ Pending(m, l) \/ Owed(ThreadOf[m])'
    BY <1>0, <1>1 DEF LabelsCome
  <2>. DEFINE t == ThreadOf[m]
  <2>0. m \in Messages /\ t \in Threads
    BY <1>0
  <2>1. Arrives(m) => Pending(m, l)
    BY DEF Arrives, Pending, About
  <2>2. CASE reads[t].how = "ok"
    <3>1. Listed(m) /\ local'[m] = Reapplied(t, reads[t].labels[m])
      BY <1>2, <2>0, <2>2 DEF Landed, WriteThreads, Got
    <3>2. CASE HasPendingMask(t)
      BY <1>1, <3>2 DEF Owed
    <3>3. CASE ~HasPendingMask(t)
      <4>1. l \in local'[m] <=> l \in reads[t].labels[m]
        BY <3>1, <3>3 DEF Reapplied, HasPendingMask
      <4>. QED
        BY <1>3, <2>0, <2>1, <2>2, <4>1 DEF ReadTrue, Got
    <3>. QED
      BY <3>2, <3>3
  <2>3. CASE reads[t].how = "gone"
    BY <1>3, <2>0, <2>1, <2>3 DEF ReadTrue
  <2>4. CASE reads[t].how = "failed"
    BY <1>1, <2>0, <2>4 DEF Landed, Owed
  <2>5. CASE reads[t].how = "none"
    <3>1. m \in here /\ local'[m] = local[m]
      BY <1>2, <2>0, <2>5 DEF Got, Landed, WriteThreads
    <3>2. t \notin wanted
      BY <1>0, <2>0, <2>5
    <3>3. (l \in local[m] <=> l \in gmail[m]) \/ Pending(m, l) \/ Owed(t)
      BY <3>1 DEF SInv, LabelsCome
    <3>4. Owed(t) => Owed(t)'
      BY <1>0, <1>1, <2>0, <3>2 DEF Owed, Landed
    <3>. QED
      BY <3>1, <3>3, <3>4
  <2>6. reads[t].how \in {"none", "gone", "failed", "ok"}
    BY <2>0, <1>0 DEF Known
  <2>. QED
    BY <2>2, <2>3, <2>4, <2>5, <2>6
<1>. QED
  BY <1>4, <1>5, <1>6, <1>7, <1>8

(* A set of positions has a greatest one. *)
LEMMA Greatest ==
  ASSUME NEW n \in Nat, NEW is \in SUBSET (1 .. n), is # {}
  PROVE  Max(is) \in is /\ \A i \in is : i <= Max(is)
<1>. DEFINE R == {ss \in Nat \X Nat : ss[1] < ss[2]}
            T == {n - i : i \in is}
<1>0. IsWellFoundedOn(R, Nat)
  BY NatLessThanWellFounded DEF OpToRel
<1>1. T \subseteq Nat /\ T # {}
  <2>1. \A i \in is : i \in 1 .. n /\ n - i \in Nat
    OBVIOUS
  <2>2. PICK i \in is : TRUE
    OBVIOUS
  <2>3. n - i \in T
    OBVIOUS
  <2>. QED
    BY <2>1, <2>3
<1>2. PICK x \in T : \A y \in T : ~(<<y, x>> \in R)
  <2>. HIDE DEF R, T
  <2>. QED
    BY <1>0, <1>1, WFMin
<1>3. \A y \in T : ~(y < x)
  BY <1>1, <1>2
<1>4. PICK k \in is : x = n - k
  BY <1>2
<1>5. ASSUME NEW i \in is PROVE k >= i /\ i <= k
  <2>1. n - i \in T /\ i \in Nat /\ k \in Nat
    OBVIOUS
  <2>. HIDE DEF T
  <2>. QED
    BY <1>3, <1>4, <2>1
<1>6. Max(is) \in is /\ \A i \in is : Max(is) >= i
  BY <1>5 DEF Max
<1>. QED
  BY <1>6

(* What history brought is applied where nothing masks it. *)
LEMMA HistoryTrue ==
  ASSUME SInv, MailAssumption, Apply
  PROVE  History' /\ ReadsTrue' /\ GhostsGo' /\ MissingCome' /\ LabelsCome'
<1>0. /\ Known /\ Shape /\ run = "apply" /\ sync = "live" /\ watermark <= upto
      /\ UNCHANGED <<rows, sync, cursor, server, upto, reads, retry, acked, counters>>
      /\ \A t \in Threads : reads[t].how = "none"
      /\ there \subseteq Messages /\ here \subseteq Messages
      /\ \A m \in Messages : ThreadOf[m] \in Threads
      /\ Len(log) \in Nat /\ DOMAIN log = 1 .. Len(log) /\ watermark \in Nat /\ upto \in Nat
  BY LenProperties DEF SInv, Known, Shape, Fetching, Apply, MailAssumption
<1>. USE DEF server, counters
<1>1. /\ Mark = watermark /\ Mark' = upto
      /\ \A i \in DOMAIN log : i > watermark => i > upto \/ i \in watermark + 1 .. upto
      /\ \A i \in DOMAIN log : i > upto => i > watermark
      /\ \A i \in watermark + 1 .. upto : i \in DOMAIN log
  BY <1>0 DEF Mark, Apply, Known
<1>2. /\ \A x : Happened(x)' <=> Happened(x)
      /\ (NoneGivenUp' <=> NoneGivenUp) /\ (Remembers' <=> Remembers)
  BY <1>0 DEF Happened, NoneGivenUp, Remembers
<1>3. History'
  BY <1>0 DEF SInv, History, About
<1>4. ReadsTrue'
  BY <1>0 DEF ReadsTrue, ReadTrue, Got
<1>5. GhostsGo'
  <2>. SUFFICES ASSUME ~Happened("expired"), NEW m \in here', m \notin there PROVE Goes(m)'
    BY <1>0, <1>2 DEF GhostsGo
  <2>1. m \in here /\ m \notin Deleted
    BY DEF Apply
  <2>2. PICK i \in Later(m) : log[i].op = "deleted"
    BY <2>1 DEF SInv, GhostsGo, Goes
  <2>3. i \notin watermark + 1 .. upto
    BY <2>1, <2>2 DEF Deleted, News, Later
  <2>. QED
    BY <1>0, <1>1, <2>2, <2>3 DEF Goes, Later
<1>6. MissingCome'
  <2>. SUFFICES ASSUME ~Happened("crash"), NoneGivenUp, NEW m \in there, m \notin here'
                PROVE  retry[ThreadOf[m]] > 0 \/ OnItsWay(m)'
    BY <1>0, <1>2 DEF MissingCome
  <2>1. m \notin here
    <3>1. \A i \in DOMAIN log : log[i].msg = m => log[i].op # "deleted"
      BY DEF SInv, History
    <3>2. m \notin Deleted
      BY <1>1, <3>1 DEF Deleted, News
    <3>. QED
      BY <3>2 DEF Apply
  <2>2. CASE retry[ThreadOf[m]] > 0
    BY <2>2
  <2>3. CASE ~(retry[ThreadOf[m]] > 0)
    <3>1. OnItsWay(m)
      BY <1>0, <2>1, <2>3 DEF SInv, MissingCome, Unlisted
    <3>2. PICK i \in DOMAIN log : i > watermark /\ log[i].msg = m /\ log[i].op # "deleted"
      BY <3>1 DEF OnItsWay
    <3>3. CASE i > upto
      BY <1>0, <3>2, <3>3 DEF OnItsWay, Apply
    <3>4. CASE i \in watermark + 1 .. upto
      <4>1. ThreadOf[m] \in wanted'
        BY <1>0, <2>1, <3>2, <3>4 DEF Apply, Unknown, News
      <4>2. run' = "fetch" /\ watermark' = watermark
        BY <4>1 DEF Apply
      <4>. QED
        BY <1>0, <3>2, <4>1, <4>2 DEF OnItsWay
    <3>. QED
      BY <1>1, <3>2, <3>3, <3>4
  <2>. QED
    BY <2>2, <2>3
<1>7. LabelsCome'
  <2>. SUFFICES ASSUME Remembers, NEW m \in here', m \in there, NEW l \in Labels
                PROVE  (l \in local'[m] <=> l \in gmail[m]) \/ Pending(m, l)' \/ Owed(ThreadOf[m])'
    BY <1>0, <1>2 DEF LabelsCome
  <2>. DEFINE t == ThreadOf[m]
  <2>0. m \in here /\ m \notin Deleted /\ m \in Messages /\ t \in Threads
    BY <1>0 DEF Apply
  <2>1. (l \in local[m] <=> l \in gmail[m]) \/ Pending(m, l) \/ Owed(t)
    BY <2>0 DEF SInv, LabelsCome
  <2>2. Owed(t) => Owed(t)'
    BY <1>0 DEF Owed, HasPendingMask, OpenFor, Unlisted
  <2>3. CASE HasPendingMask(t)
    BY <1>0, <2>3 DEF Owed, HasPendingMask, OpenFor
  <2>4. CASE ~HasPendingMask(t) /\ ~Pending(m, l)'
    <3>. DEFINE is == {i \in News(m) : log[i].op = "added" \/ Touches(log[i], l)}
    <3>0. /\ l \in local'[m] <=> IF is = {} THEN l \in local[m] ELSE l \in log[Max(is)].add
          /\ \A i \in is : i \in DOMAIN log /\ log[i].msg = m /\ About(log[i], l) /\ i > watermark
      <4>1. local'[m] = Replayed(m)
        BY <2>0, <2>4 DEF Apply
      <4>2. upto <= Len(log)
        BY <1>0 DEF Known
      <4>. QED
        BY <1>0, <4>1, <4>2 DEF Replayed, News, About
    <3>1. \A i \in DOMAIN log : log[i].msg = m /\ About(log[i], l) /\ i > watermark => i \in is
      BY <1>0, <1>1, <2>4 DEF Pending, Later, News, About, Touches
    <3>. HIDE DEF is
    <3>2. CASE is = {}
      <4>1. ~Pending(m, l)
        BY <1>1, <3>1, <3>2 DEF Pending, Later
      <4>. QED
        BY <2>1, <2>2, <3>0, <3>2, <4>1
    <3>3. CASE is # {}
      <4>1. is \in SUBSET (1 .. Len(log))
        BY <1>0, <3>0
      <4>2. Max(is) \in is /\ \A i \in is : i <= Max(is)
        BY <1>0, <3>3, <4>1, Greatest
      <4>3. /\ Max(is) \in DOMAIN log /\ log[Max(is)].msg = m /\ About(log[Max(is)], l)
            /\ \A j \in DOMAIN log : log[j].msg = m /\ About(log[j], l) => j <= Max(is)
        BY <1>0, <3>0, <3>1, <4>2
      <4>4. l \in gmail[m] <=> l \in log[Max(is)].add
        BY <4>3 DEF SInv, History
      <4>. QED
        BY <3>0, <3>3, <4>4
    <3>. QED
      BY <3>2, <3>3
  <2>. QED
    BY <2>3, <2>4
<1>. QED
  BY <1>3, <1>4, <1>5, <1>6, <1>7

(* A change made here is owed to Gmail. *)
LEMMA ChangeOwed ==
  ASSUME SInv, MailAssumption, NEW t \in Threads, NEW c \in Changes, Change(t, c)
  PROVE  History' /\ ReadsTrue' /\ GhostsGo' /\ MissingCome' /\ LabelsCome'
<1>0. /\ Known
      /\ UNCHANGED <<here, sync, watermark, cursor, server, run, memory, faults>>
      /\ rows' = Append(rows, [thread |-> t, add |-> c.add, remove |-> c.remove, due |-> TRUE])
  BY DEF SInv, Change
<1>. USE DEF server, memory
<1>1. /\ \A m : (Arrives(m)' <=> Arrives(m)) /\ (Goes(m)' <=> Goes(m)) /\ (OnItsWay(m)' <=> OnItsWay(m))
      /\ \A m, l : Pending(m, l)' <=> Pending(m, l)
      /\ \A x : Happened(x)' <=> Happened(x)
      /\ \A s : Unlisted(s)' <=> Unlisted(s)
      /\ (NoneGivenUp' <=> NoneGivenUp) /\ (Remembers' <=> Remembers)
  BY <1>0 DEF Mark, Arrives, Goes, Pending, Later, Happened, Unlisted, NoneGivenUp, Remembers, OnItsWay
<1>2. /\ HasPendingMask(t)'
      /\ \A s : HasPendingMask(s) => HasPendingMask(s)'
  <2>. DEFINE r == [thread |-> t, add |-> c.add, remove |-> c.remove, due |-> TRUE]
  <2>1. r \in Row /\ rows \in Seq(Row)
    BY <1>0 DEF Known, Row, MailAssumption
  <2>2. /\ DOMAIN rows' = DOMAIN rows \cup {Len(rows) + 1}
        /\ rows'[Len(rows) + 1] = r /\ \A i \in DOMAIN rows : rows'[i] = rows[i]
    <3>. HIDE DEF r
    <3>1. rows' = Append(rows, r)
      BY <1>0 DEF r
    <3>. QED
      BY <2>1, <3>1, AppendProperties, LenProperties
  <2>. QED
    BY <2>2 DEF HasPendingMask, OpenFor
<1>3. History' /\ GhostsGo' /\ MissingCome'
  BY <1>0, <1>1 DEF SInv, History, About, GhostsGo, MissingCome
<1>4. ReadsTrue'
  BY <1>0, <1>1 DEF SInv, ReadsTrue, ReadTrue, Got, Listed, Of
<1>5. LabelsCome'
  <2>. SUFFICES ASSUME Remembers, NEW m \in here, m \in there, NEW l \in Labels
                PROVE  (l \in local'[m] <=> l \in gmail[m]) \/ Pending(m, l) \/ Owed(ThreadOf[m])'
    BY <1>0, <1>1 DEF LabelsCome
  <2>0. m \in Messages
    BY <1>0 DEF Known
  <2>1. CASE ThreadOf[m] = t
    BY <1>2, <2>1 DEF Owed
  <2>2. CASE ThreadOf[m] # t
    <3>1. local'[m] = local[m]
      BY <2>0, <2>2 DEF Change
    <3>2. (l \in local[m] <=> l \in gmail[m]) \/ Pending(m, l) \/ Owed(ThreadOf[m])
      BY DEF SInv, LabelsCome
    <3>3. Owed(ThreadOf[m]) => Owed(ThreadOf[m])'
      BY <1>0, <1>1, <1>2 DEF Owed
    <3>. QED
      BY <3>1, <3>2, <3>3
  <2>. QED
    BY <2>1, <2>2
<1>. QED
  BY <1>3, <1>4, <1>5

-----------------------------------------------------------------------------
(* The types and the shape, step by step. *)

KS == Known /\ Shape

(* One fault more. *)
LEMMA FaultCounts ==
  ASSUME Known, MayFail
  PROVE  faults' \in Seq(Faults) /\ Len(faults) <= Len(faults') /\ Len(faults) \in Nat
BY FaultStays, LenProperties DEF MayFail, Fault, Known

(* A part of the batch that fails has its fault. *)
LEMMA FailedPart ==
  ASSUME KS, NEW t \in Threads, ReadFails(t)
  PROVE  KS'
<1>0. /\ Known /\ Shape /\ UNCHANGED <<store, server, run, upto, wanted, retry, acked>>
      /\ t \in wanted /\ reads[t].how = "none"
      /\ DOMAIN reads' = Threads /\ reads'[t].how = "failed"
      /\ \A s \in Threads : s # t => reads'[s] = reads[s]
  BY DEF KS, Known, ReadFails
<1>1. faults' \in Seq(Faults) /\ Len(faults') = Len(faults) + 1 /\ Len(faults) \in Nat
  BY <1>0, FaultStays, LenProperties DEF ReadFails, Fault, Known
<1>2. Known'
  BY <1>0, <1>1 DEF Known, store, server
<1>3. \A s \in Threads : retry'[s] + (IF reads'[s].how = "failed" THEN 1 ELSE 0) <= Len(faults')
  <2>. SUFFICES ASSUME NEW s \in Threads
                PROVE  retry[s] + (IF reads'[s].how = "failed" THEN 1 ELSE 0) <= Len(faults) + 1
    BY <1>0, <1>1
  <2>1. retry[s] + (IF reads[s].how = "failed" THEN 1 ELSE 0) <= Len(faults) /\ retry[s] \in Nat
    BY <1>0 DEF Shape, Known
  <2>. QED
    BY <1>0, <1>1, <2>1
<1>4. Shape'
  BY <1>0, <1>3 DEF Shape, Fetching, store, server
<1>. QED
  BY <1>2, <1>4 DEF KS

(* The oldest row leaves the outbox. *)
LEMMA OldestLeft ==
  ASSUME Known, rows # <<>>, rows' = Tail(rows)
  PROVE  /\ rows' \in Seq(Row) /\ \A i \in DOMAIN rows' : Apart(rows'[i])
         /\ \A i \in DOMAIN rows : i = 1 \/ \E j \in DOMAIN rows' : rows'[j] = rows[i]
<1>1. /\ rows' \in Seq(Row) /\ DOMAIN rows' = 1 .. Len(rows) - 1 /\ DOMAIN rows = 1 .. Len(rows)
      /\ Len(rows) \in Nat /\ \A i \in DOMAIN rows' : rows'[i] = rows[i + 1]
  BY HeadTailProperties, LenProperties DEF Known
<1>2. \A i \in DOMAIN rows' : Apart(rows'[i])
  BY <1>1 DEF Known
<1>3. \A i \in DOMAIN rows : i = 1 \/ (i - 1 \in DOMAIN rows' /\ rows'[i - 1] = rows[i])
  BY <1>1
<1>. QED
  BY <1>1, <1>2, <1>3

(* The oldest row is put off, or comes due. *)
LEMMA OldestDue ==
  ASSUME Known, rows # <<>>, NEW b \in BOOLEAN, rows' = [rows EXCEPT ![1].due = b]
  PROVE  /\ rows' \in Seq(Row) /\ \A i \in DOMAIN rows' : Apart(rows'[i])
         /\ DOMAIN rows' = DOMAIN rows /\ \A i \in DOMAIN rows : rows'[i].thread = rows[i].thread
<1>1. 1 \in DOMAIN rows /\ DOMAIN rows = 1 .. Len(rows) /\ Len(rows) \in Nat /\ rows[1] \in Row
  BY EmptySeq, LenProperties, ElementOfSeq DEF Known
<1>2. [rows[1] EXCEPT !.due = b] \in Row
  BY <1>1 DEF Row
<1>3. rows' = [rows EXCEPT ![1] = [rows[1] EXCEPT !.due = b]]
  OBVIOUS
<1>4. rows' \in Seq(Row) /\ DOMAIN rows' = DOMAIN rows
  BY <1>1, <1>2, <1>3, ExceptSeq DEF Known
<1>5. \A i \in DOMAIN rows : /\ rows'[i].thread = rows[i].thread
                             /\ rows'[i].add = rows[i].add /\ rows'[i].remove = rows[i].remove
  BY <1>1 DEF Row
<1>. QED
  BY <1>4, <1>5 DEF Known, Apart

(* A row is added. *)
LEMMA RowAdded ==
  ASSUME KS, MailAssumption, NEW t \in Threads, NEW c \in Changes, Change(t, c)
  PROVE  KS'
<1>. DEFINE r == [thread |-> t, add |-> c.add, remove |-> c.remove, due |-> TRUE]
<1>0. /\ Known /\ Shape /\ r \in Row /\ Apart(r) /\ rows \in Seq(Row) /\ rows' = Append(rows, r)
      /\ UNCHANGED <<here, sync, watermark, cursor, server, run, memory, faults>>
  BY DEF KS, Known, Change, MailAssumption, Row, Apart
<1>. HIDE DEF r
<1>1. /\ rows' \in Seq(Row) /\ DOMAIN rows' = DOMAIN rows \cup {Len(rows) + 1}
      /\ \A i \in DOMAIN rows : rows'[i] = rows[i] /\ rows'[Len(rows) + 1] = r
  BY <1>0, AppendProperties, LenProperties
<1>2. \A i \in DOMAIN rows' : Apart(rows'[i])
  <2>1. rows'[Len(rows) + 1] = r
    BY <1>0, AppendProperties
  <2>. QED
    BY <1>0, <1>1, <2>1 DEF Known
<1>. QED
  BY <1>0, <1>1, <1>2 DEF KS, Known, Shape, Fetching, server, memory

(* Known, where neither rows nor what Gmail holds changes. *)
LEMMA ServerKnown ==
  ASSUME KS, Recorded,
         there' \subseteq Messages, gmail' \in [Messages -> SUBSET Labels],
         UNCHANGED <<here, watermark, upto, sync, cursor, wanted, reads, retry, acked, rows, faults>>,
         run' = run \/ (run = "call" /\ run' = "applied")
  PROVE  KS'
<1>0. Known /\ Shape
  BY DEF KS
<1>1. Known'
  BY <1>0, LenProperties DEF Known, Recorded
<1>2. Shape'
  BY <1>0 DEF Shape, Fetching
<1>. QED
  BY <1>1, <1>2 DEF KS

(* The steps that only move the run on. *)
LEMMA RunMoves ==
  ASSUME KS, MailAssumption,
         \/ StartRun \/ Profile \/ List \/ PageThrows \/ Pull \/ PullFails \/ PullExpired
         \/ BatchThrows \/ RereadThrows \/ Crash \/ TakeNext \/ EndDrain
         \/ (\E t \in wanted : Read(t))
  PROVE  KS'
<1>0. Known /\ Shape
  BY DEF KS
<1>. USE DEF store, server, memory, counters
<1>1. CASE StartRun
  BY <1>0, <1>1 DEF KS, Known, Shape, Fetching, StartRun
<1>2. CASE Profile
  BY <1>0, <1>2, LenProperties DEF KS, Known, Shape, Fetching, Profile
<1>3. CASE List
  <2>1. cursor' \subseteq Threads
    BY <1>0, <1>3 DEF List, ThreadsThere, Known, MailAssumption
  <2>2. wanted' \subseteq Threads /\ (run' = "page" \/ (run' = "drain" /\ wanted' = wanted))
    BY <1>0, <1>3, <2>1 DEF List, Known
  <2>. QED
    BY <1>0, <1>3, <2>1, <2>2 DEF KS, Known, Shape, Fetching, List
<1>4. CASE PageThrows
  BY <1>0, <1>4 DEF KS, Known, Shape, Fetching, PageThrows, NoBatch, NotRead
<1>5. CASE Pull
  BY <1>0, <1>5, LenProperties DEF KS, Known, Shape, Fetching, Pull
<1>6. CASE PullFails
  <2>1. MayFail /\ UNCHANGED <<store, server, memory>> /\ run = "pull" /\ run' = "idle"
    BY <1>6 DEF PullFails, MayFail, Fault
  <2>. QED
    BY <1>0, <2>1, FaultCounts DEF KS, Known, Shape, Fetching
<1>7. CASE PullExpired
  <2>1. /\ MayFail /\ UNCHANGED <<here, local, rows, watermark, cursor, server, memory>>
        /\ run = "pull" /\ run' = "profile" /\ sync' = "new"
    BY <1>7 DEF PullExpired, MayFail, Fault
  <2>. QED
    BY <1>0, <2>1, FaultCounts DEF KS, Known, Shape, Fetching
<1>8. CASE BatchThrows \/ RereadThrows \/ Crash
  <2>1. /\ MayFail /\ UNCHANGED <<store, server, upto>> /\ run' = "idle" /\ NoBatch
        /\ retry' \in [Threads -> Nat]
        /\ \A t \in Threads : retry'[t] <= retry[t]
        /\ acked' \in {{}, acked}
        /\ run \notin {"page", "fetch", "reread"} => acked' = {}
    BY <1>0, <1>8 DEF BatchThrows, RereadThrows, Crash, MayFail, Fault, Known
  <2>2. acked' = {}
    BY <1>0, <2>1 DEF Shape
  <2>3. faults' \in Seq(Faults) /\ Len(faults) <= Len(faults') /\ Len(faults) \in Nat /\ Len(faults') \in Nat
    <3>1. faults' \in Seq(Faults) /\ Len(faults) <= Len(faults') /\ Len(faults) \in Nat
      BY <1>0, <2>1, FaultCounts
    <3>. QED
      BY <3>1, LenProperties
  <2>4. \A t \in Threads : reads'[t].how = "none" /\ retry'[t] <= Len(faults')
    <3>. SUFFICES ASSUME NEW t \in Threads PROVE reads'[t].how = "none" /\ retry'[t] <= Len(faults')
      OBVIOUS
    <3>1. reads'[t].how = "none"
      BY <2>1 DEF NoBatch, NotRead
    <3>2. retry[t] \in Nat /\ retry'[t] \in Nat /\ retry'[t] <= retry[t]
      BY <1>0, <2>1 DEF Known
    <3>3. retry[t] <= Len(faults)
      BY <1>0, <2>3, <3>2 DEF Shape
    <3>. QED
      BY <2>3, <3>1, <3>2, <3>3
  <2>5. Known'
    BY <1>0, <2>1, <2>3, <2>4 DEF Known, NoBatch
  <2>6. Shape'
    BY <2>1, <2>2, <2>4, <2>5 DEF Shape, Fetching, NoBatch, Known
  <2>. QED
    BY <2>5, <2>6 DEF KS
<1>9. CASE TakeNext
  BY <1>0, <1>9 DEF KS, Known, Shape, Fetching, TakeNext
<1>10. CASE EndDrain
  <2>1. wanted' \subseteq Threads
    BY <1>0, <1>10 DEF EndDrain, Reread, Shape, KS, Known
  <2>. QED
    BY <1>0, <1>10, <2>1 DEF KS, Known, Shape, Fetching, EndDrain
<1>11. ASSUME NEW t \in wanted, Read(t) PROVE KS'
  BY <1>0, <1>11 DEF KS, Known, Shape, Fetching, Read, Answer
<1>. QED
  BY <1>1, <1>2, <1>3, <1>4, <1>5, <1>6, <1>7, <1>8, <1>9, <1>10, <1>11

(* The steps that deliver a change. *)
LEMMA RowsMove ==
  ASSUME KS, rows # <<>>, Ack \/ FailTerminal \/ FailAuth \/ FailRetry \/ BecomeDue
  PROVE  KS'
<1>0. Known /\ Shape
  BY DEF KS
<1>. USE DEF store, server, memory, counters
<1>1. CASE Ack
  <2>1. rows[1].thread \in Threads
    <3>1. rows \in Seq(Row) /\ 1 \in 1 .. Len(rows)
      BY <1>0, EmptySeq DEF Known
    <3>2. rows[1] \in Row
      BY <3>1, ElementOfSeq
    <3>. QED
      BY <3>2 DEF Row
  <2>. QED
    BY <1>0, <1>1, <2>1, OldestLeft DEF KS, Known, Shape, Fetching, Ack
<1>2. CASE FailTerminal \/ FailAuth
  <2>1. /\ MayFail /\ rows' = Tail(rows)
        /\ UNCHANGED <<here, local, sync, watermark, cursor, server, upto, wanted, reads, retry>>
        /\ acked' \in {acked, {}}
        /\ run = "call" /\ (run' = "drain" \/ (run' = "idle" /\ acked' = {}))
    BY <1>2 DEF FailTerminal, FailAuth, GiveUp, Fault, MayFail
  <2>2. Known'
    BY <1>0, <2>1, FaultCounts, OldestLeft DEF Known
  <2>3. \A t \in Threads : retry'[t] + (IF reads'[t].how = "failed" THEN 1 ELSE 0) <= Len(faults')
    <3>1. Len(faults) <= Len(faults') /\ Len(faults) \in Nat
      BY <1>0, <2>1, FaultCounts
    <3>2. Len(faults') \in Nat
      BY <2>2, LenProperties DEF Known
    <3>. QED
      BY <1>0, <2>1, <3>1, <3>2 DEF Shape, Known
  <2>4. Shape'
    BY <1>0, <2>1, <2>3 DEF Shape, Fetching
  <2>. QED
    BY <2>2, <2>4 DEF KS
<1>3. CASE FailRetry
  <2>1. /\ MayFail /\ rows' = [rows EXCEPT ![1].due = FALSE]
        /\ UNCHANGED <<here, local, sync, watermark, cursor, server, memory>>
        /\ run \in {"call", "applied"} /\ run' = "drained"
    BY <1>3 DEF FailRetry, Fault, MayFail
  <2>2. Known'
    BY <1>0, <2>1, FaultCounts, OldestDue DEF Known
  <2>3. \A t \in Threads : retry'[t] + (IF reads'[t].how = "failed" THEN 1 ELSE 0) <= Len(faults')
    <3>1. Len(faults) <= Len(faults') /\ Len(faults) \in Nat
      BY <1>0, <2>1, FaultCounts
    <3>2. Len(faults') \in Nat
      BY <2>2, LenProperties DEF Known
    <3>. QED
      BY <1>0, <2>1, <3>1, <3>2 DEF Shape, Known
  <2>4. Shape'
    BY <1>0, <2>1, <2>3 DEF Shape, Fetching
  <2>. QED
    BY <2>2, <2>4 DEF KS
<1>4. CASE BecomeDue
  BY <1>0, <1>4, OldestDue DEF KS, Known, Shape, Fetching, BecomeDue
<1>. QED
  BY <1>1, <1>2, <1>3, <1>4

(* The steps that write what was read. *)
LEMMA PageLands ==
  ASSUME KS, LandPage
  PROVE  KS'
BY DEF KS, LandPage, WriteThreads, NoBatch, NotRead, Known, Shape, Fetching, server, counters

(* What KS needs of a fetch that lands. *)
LEMMA FetchLands ==
  ASSUME KS, LandPoll \/ LandReread
  PROVE  KS'
<1>0. /\ Known /\ Shape /\ run \in {"fetch", "reread"} /\ run' \in {"drain", "idle"} /\ (run' = "drain" <=> run = "fetch")
      /\ here' \subseteq Messages /\ NoBatch /\ KeepRetries
      /\ UNCHANGED <<rows, sync, cursor, server, upto, acked, faults>>
      /\ watermark' \in {watermark, upto}
  BY DEF KS, LandPoll, LandReread, WriteThreads, counters
<1>1. \A t \in Threads : /\ retry'[t] \in Nat
                         /\ retry'[t] <= Len(faults)
  <2>. SUFFICES ASSUME NEW t \in Threads PROVE retry'[t] \in Nat /\ retry'[t] <= Len(faults)
    OBVIOUS
  <2>1. /\ retry[t] \in Nat /\ Len(faults) \in Nat
        /\ retry[t] + (IF reads[t].how = "failed" THEN 1 ELSE 0) <= Len(faults)
    BY <1>0, LenProperties DEF Known, Shape
  <2>2. retry'[t] \in {0, retry[t]} \/ (reads[t].how = "failed" /\ retry'[t] = retry[t] + 1)
    BY <1>0 DEF KeepRetries, AfterFailure
  <2>. QED
    BY <2>1, <2>2
<1>2. retry' \in [Threads -> Nat] /\ \A t \in Threads : reads'[t].how = "none"
  BY <1>0, <1>1 DEF KeepRetries, NoBatch, NotRead
<1>3. Known'
  BY <1>0, <1>2 DEF Known, NoBatch, server
<1>4. Shape'
  BY <1>0, <1>1, <1>2 DEF Shape, Fetching, NoBatch, server
<1>. QED
  BY <1>3, <1>4 DEF KS

(* What KS needs of a history that is applied. *)
LEMMA HistoryLands ==
  ASSUME KS, MailAssumption, Apply
  PROVE  KS'
<1>0. Known /\ Shape /\ run = "apply"
  BY DEF KS, Apply
<1>1. wanted' \subseteq Threads /\ here' \subseteq Messages
  BY <1>0 DEF Apply, Unknown, MailAssumption, Known
<1>2. Known'
  BY <1>0, <1>1 DEF Apply, Known, server, counters
<1>3. Shape'
  BY <1>0, <1>1, LenProperties DEF Apply, Shape, Known, Fetching, server, counters
<1>. QED
  BY <1>2, <1>3 DEF KS

(* One step of the two sides. *)
Rest == History /\ ReadsTrue /\ GhostsGo /\ MissingCome /\ LabelsCome

(* Every step of Gmail keeps SInv. *)
LEMMA GmailStep ==
  ASSUME SInv, MailAssumption, rows # <<>> \/ run \notin {"call", "applied"},
         \/ \E m \in Messages : GmailNew(m) \/ GmailDelete(m) \/ \E c \in Changes : GmailLabels(m, c)
         \/ GmailModifies
  PROVE  SInv'
<1>0. Known /\ Shape /\ KS
  BY DEF SInv, KS
<1>1. Recorded
  BY NewRecorded, DeletionRecorded, LabelsRecorded, DeliveryRecorded DEF GmailModifies
<1>2. /\ UNCHANGED <<here, local, watermark, upto, sync, cursor, wanted, reads, retry, acked, rows, faults>>
      /\ run' = run \/ (run = "call" /\ run' = "applied")
  BY DEF GmailNew, GmailDelete, GmailLabels, RemoteChange, GmailModifies, store, memory, counters
<1>3. there' \subseteq Messages
  BY <1>0 DEF GmailNew, GmailDelete, GmailLabels, GmailModifies, Known
<1>4. gmail' \in [Messages -> SUBSET Labels]
  <2>1. ASSUME NEW m \in Messages, GmailNew(m) \/ GmailDelete(m) PROVE gmail' \in [Messages -> SUBSET Labels]
    BY <1>0, <2>1 DEF GmailNew, GmailDelete, Known
  <2>2. ASSUME NEW m \in Messages, NEW c \in Changes, GmailLabels(m, c)
        PROVE  gmail' \in [Messages -> SUBSET Labels]
    BY <1>0, <2>2 DEF GmailLabels, Applied, MailAssumption, Known
  <2>3. ASSUME GmailModifies PROVE gmail' \in [Messages -> SUBSET Labels]
    <3>1. rows # <<>>
      BY <2>3 DEF GmailModifies
    <3>2. Apart(rows[1])
      BY <1>0, <3>1, EmptySeq, LenProperties DEF Known
    <3>. QED
      BY <1>0, <2>3, <3>2 DEF GmailModifies, Applied, Apart, Known
  <2>. QED
    BY <2>1, <2>2, <2>3
<1>5. KS'
  BY <1>0, <1>1, <1>2, <1>3, <1>4, ServerKnown
<1>6. Rest'
  BY <1>1, <1>2, GmailMoves DEF Rest
<1>. QED
  BY <1>5, <1>6 DEF SInv, KS, Rest

(* Every landing of a batch keeps SInv. *)
LEMMA LandStep ==
  ASSUME SInv, MailAssumption, LandPage \/ LandPoll \/ LandReread
  PROVE  SInv'
<1>0. Known /\ Shape /\ KS
  BY DEF SInv, KS
<1>. USE DEF server, counters
<1>1. CASE LandPage
  <2>1. KS'
    BY <1>0, <1>1, PageLands
  <2>2. Landed
    <3>1. /\ AllRead /\ WriteThreads /\ UNCHANGED <<there, gmail, log, rows, acked, faults>>
          /\ reads' = [t \in Threads |-> NotRead]
          /\ run' # "fetch" /\ watermark' = Mark /\ sync' # "new" /\ retry' = retry
      BY <1>1 DEF LandPage, NoBatch, Mark
    <3>2. \A t \in Threads : reads[t].how # "failed"
      BY <1>0, <1>1 DEF LandPage, Shape
    <3>3. \A t \in Threads : t \notin wanted /\ Unlisted(t) => Unlisted(t)'
      BY <1>1 DEF LandPage, Unlisted
    <3>. QED
      BY <3>1, <3>2, <3>3 DEF Landed
  <2>. QED
    BY <2>1, <2>2, ThreadsLandTrue DEF SInv, KS
<1>2. CASE LandPoll \/ LandReread
  <2>1. KS'
    BY <1>0, <1>2, FetchLands
  <2>2. Landed
    <3>1. /\ AllRead /\ WriteThreads /\ UNCHANGED <<there, gmail, log, rows, acked, faults, sync>>
          /\ reads' = [t \in Threads |-> NotRead] /\ KeepRetries
          /\ run' # "fetch" /\ watermark' = Mark /\ sync = "live"
      BY <1>0, <1>2 DEF LandPoll, LandReread, NoBatch, Mark, Shape
    <3>2. ASSUME NEW t \in Threads, reads[t].how = "failed", NoneGivenUp PROVE retry'[t] > 0
      <4>1. retry'[t] = AfterFailure(retry[t])
        BY <3>1, <3>2 DEF KeepRetries
      <4>2. /\ retry[t] \in Nat /\ retry[t] + 1 <= Len(faults) /\ Len(faults) \in Nat
            /\ FetchAttempts \in Nat /\ Len(faults) < FetchAttempts
        BY <1>0, <3>2, LenProperties, AttemptsAssumption DEF Known, Shape, NoneGivenUp
      <4>. QED
        BY <4>1, <4>2 DEF AfterFailure
    <3>3. \A t \in Threads : t \notin wanted => reads[t].how = "none"
      BY <1>0 DEF Shape
    <3>4. \A t \in Threads : t \notin wanted => retry'[t] = retry[t] /\ ~Unlisted(t)
      BY <3>1, <3>3 DEF KeepRetries, Unlisted
    <3>. QED
      BY <3>1, <3>2, <3>4 DEF Landed
  <2>. QED
    BY <2>1, <2>2, ThreadsLandTrue DEF SInv, KS
<1>. QED
  BY <1>1, <1>2

(* A fault of this kind. *)
LEMMA Faulted ==
  ASSUME Known, NEW k, Fault(k)
  PROVE  /\ MayFail /\ Happened(k)'
         /\ k \in Forgetful => ~Remembers'
BY FaultStays DEF Fault, MayFail, Remembers

(* What is owed stays owed while the rows only lose their oldest one, of a *)
(* thread that is then noted as delivered, or of which nothing is left.    *)
LEMMA QuietStep ==
  ASSUME SInv, MailAssumption, rows # <<>> \/ run \notin {"call", "applied"},
         \/ StartRun \/ List \/ PageThrows \/ Pull \/ TakeNext \/ EndDrain \/ PullFails
         \/ PullExpired \/ BatchThrows \/ RereadThrows \/ Crash
         \/ Ack \/ FailTerminal \/ FailAuth \/ FailRetry \/ BecomeDue
         \/ (\E t \in wanted : ReadFails(t)) \/ UNCHANGED vars
  PROVE  SInv'
<1>0. /\ Known /\ Shape /\ KS
      /\ \A m \in there : ThreadOf[m] \in Threads /\ m \in Of(ThreadOf[m]) /\ ThreadOf[m] \in ThreadsThere
  BY DEF SInv, KS, Known, MailAssumption, Of, ThreadsThere
<1>a. rows # <<>> => 1 \in DOMAIN rows
  BY <1>0, EmptySeq, LenProperties DEF Known
<1>. USE DEF store, server, memory, counters
<1>1. CASE StartRun
  <2>1. KS'
    BY <1>0, <1>1, RunMoves
  <2>2. \A t : Unlisted(t) => Unlisted(t)'
    BY <1>1 DEF StartRun, Unlisted
  <2>3. \A t : Owed(t) => Owed(t)'
    BY <1>1, <2>2 DEF StartRun, Owed, HasPendingMask, OpenFor
  <2>. QED
    BY <1>0, <1>1, <2>1, <2>2, <2>3, NothingMoves DEF SInv, KS, StartRun, MayFail
<1>2. CASE List
  <2>1. KS'
    BY <1>0, <1>2, RunMoves
  <2>2. \A m \in there : Unlisted(ThreadOf[m]) => Unlisted(ThreadOf[m])'
    BY <1>0, <1>2 DEF List, Unlisted, Shape
  <2>3. \A m \in there : Owed(ThreadOf[m]) => Owed(ThreadOf[m])'
    BY <1>2, <2>2 DEF List, Owed, HasPendingMask, OpenFor
  <2>4. /\ UNCHANGED <<here, local, there, gmail, log, watermark, faults, reads, retry>>
        /\ run' # "fetch" /\ (sync' = "new" => sync = "new")
    BY <1>2 DEF List
  <2>. QED
    BY <1>0, <2>1, <2>2, <2>3, <2>4, NothingMoves DEF SInv, KS, MayFail
<1>3. CASE PageThrows
  <2>1. KS'
    BY <1>0, <1>3, RunMoves
  <2>2. \A t : Unlisted(t) => Unlisted(t)'
    BY <1>3 DEF PageThrows, Unlisted
  <2>3. \A t : Owed(t) => Owed(t)'
    BY <1>3, <2>2 DEF PageThrows, Owed, HasPendingMask, OpenFor
  <2>4. /\ UNCHANGED <<here, local, there, gmail, log, watermark, faults, sync, retry>>
        /\ run' = "idle" /\ \A t \in Threads : reads'[t].how = "none"
    BY <1>3 DEF PageThrows, NoBatch, NotRead
  <2>. QED
    BY <1>0, <2>1, <2>2, <2>3, <2>4, NothingMoves DEF SInv, KS, MayFail
<1>4. CASE Pull \/ TakeNext \/ UNCHANGED vars
  <2>1. KS'
    BY <1>0, <1>4, RunMoves DEF KS, Known, Shape, Fetching, vars
  <2>2. /\ UNCHANGED <<here, local, there, gmail, log, watermark, faults, sync, cursor, rows, retry, acked, reads, wanted>>
        /\ ((run' = run /\ upto' = upto) \/ (run = "pull" /\ run' = "apply") \/ (run = "drain" /\ run' = "call"))
    BY <1>4 DEF Pull, TakeNext, vars
  <2>3. \A t : (Unlisted(t) => Unlisted(t)') /\ (Owed(t) => Owed(t)')
    BY <2>2 DEF Unlisted, Owed, HasPendingMask, OpenFor
  <2>. QED
    BY <1>0, <2>1, <2>2, <2>3, NothingMoves DEF SInv, KS, MayFail
<1>5. CASE EndDrain
  <2>1. KS'
    BY <1>0, <1>5, RunMoves
  <2>2. /\ UNCHANGED <<here, local, there, gmail, log, watermark, faults, sync, cursor, rows, retry, reads>>
        /\ run \in {"drain", "drained"} /\ run' \in {"idle", "reread"}
        /\ wanted' = Reread /\ (run' = "idle" => wanted' = {})
    BY <1>5 DEF EndDrain
  <2>3. \A t : Unlisted(t) => Unlisted(t)'
    BY <1>0, <2>2 DEF Unlisted, Shape
  <2>4. \A t : Owed(t) => Owed(t)'
    BY <2>2, <2>3 DEF Owed, HasPendingMask, OpenFor, Reread
  <2>. QED
    BY <1>0, <2>1, <2>2, <2>3, <2>4, NothingMoves DEF SInv, KS, MayFail
<1>6. CASE PullFails
  <2>1. KS'
    BY <1>0, <1>6, RunMoves
  <2>2. /\ UNCHANGED <<here, local, there, gmail, log, watermark, sync, cursor, rows, retry, acked, reads, wanted>>
        /\ run = "pull" /\ run' = "idle" /\ MayFail
    BY <1>0, <1>6, Faulted DEF PullFails
  <2>3. \A t : (Unlisted(t) => Unlisted(t)') /\ (Owed(t) => Owed(t)')
    BY <2>2 DEF Unlisted, Owed, HasPendingMask, OpenFor
  <2>. QED
    BY <1>0, <2>1, <2>2, <2>3, NothingMoves DEF SInv, KS
<1>7. CASE PullExpired
  <2>1. KS'
    BY <1>0, <1>7, RunMoves
  <2>2. /\ UNCHANGED <<here, local, there, gmail, log, watermark, cursor, rows, retry, acked, reads, wanted>>
        /\ run = "pull" /\ run' = "profile" /\ sync' = "new" /\ MayFail /\ Happened("expired")'
    BY <1>0, <1>7, Faulted DEF PullExpired
  <2>3. \A t : Unlisted(t)' /\ Owed(t)'
    BY <2>2 DEF Unlisted, Owed
  <2>. QED
    BY <1>0, <2>1, <2>2, <2>3, NothingMoves DEF SInv, KS
<1>8. CASE BatchThrows
  <2>1. KS'
    BY <1>0, <1>8, RunMoves
  <2>2. /\ UNCHANGED <<here, local, there, gmail, log, watermark, sync, cursor, rows, retry, acked>>
        /\ run \in {"page", "fetch"} /\ run' = "idle" /\ MayFail
        /\ \A t \in Threads : reads'[t].how = "none"
    BY <1>0, <1>8, Faulted DEF BatchThrows, NoBatch, NotRead
  <2>3. \A t : (Unlisted(t) => Unlisted(t)') /\ (Owed(t) => Owed(t)')
    BY <2>2 DEF Unlisted, Owed, HasPendingMask, OpenFor
  <2>. QED
    BY <1>0, <2>1, <2>2, <2>3, NothingMoves DEF SInv, KS
<1>9. CASE RereadThrows
  <2>1. KS'
    BY <1>0, <1>9, RunMoves
  <2>2. /\ UNCHANGED <<here, local, there, gmail, log, watermark, sync, cursor, rows, retry>>
        /\ run = "reread" /\ run' = "idle" /\ MayFail /\ ~Remembers'
        /\ \A t \in Threads : reads'[t].how = "none"
    BY <1>0, <1>9, Faulted DEF RereadThrows, NoBatch, NotRead, Forgetful
  <2>3. \A t : Unlisted(t) => Unlisted(t)'
    BY <2>2 DEF Unlisted
  <2>. QED
    BY <1>0, <2>1, <2>2, <2>3, NothingMoves DEF SInv, KS
<1>10. CASE Crash
  <2>1. KS'
    BY <1>0, <1>10, RunMoves
  <2>2. /\ UNCHANGED <<here, local, there, gmail, log, watermark, sync>>
        /\ run' = "idle" /\ MayFail /\ ~Remembers' /\ Happened("crash")'
        /\ \A t \in Threads : reads'[t].how = "none"
    BY <1>0, <1>10, Faulted DEF Crash, NoBatch, NotRead, Forgetful
  <2>. QED
    BY <1>0, <2>1, <2>2, NothingMoves DEF SInv, KS
<1>11. CASE Ack
  <2>0. rows # <<>> /\ rows' = Tail(rows) /\ acked' = acked \cup {rows[1].thread}
    BY <1>11 DEF Ack
  <2>1. KS'
    BY <1>0, <1>11, <2>0, RowsMove
  <2>2. /\ UNCHANGED <<here, local, there, gmail, log, watermark, sync, cursor, retry, reads, wanted, faults>>
        /\ run = "applied" /\ run' = "drain"
    BY <1>11 DEF Ack
  <2>3. \A t : Unlisted(t) => Unlisted(t)'
    BY <2>2 DEF Unlisted
  <2>4. ASSUME NEW t, HasPendingMask(t), t \notin acked' PROVE HasPendingMask(t)'
    <3>1. PICK i \in DOMAIN rows : rows[i].thread = t
      BY <2>4 DEF HasPendingMask, OpenFor
    <3>2. PICK j \in DOMAIN rows' : rows'[j] = rows[i]
      BY <1>0, <2>0, <2>4, <3>1, OldestLeft
    <3>. QED
      BY <3>1, <3>2 DEF HasPendingMask, OpenFor
  <2>5. \A t : Owed(t) => Owed(t)'
    BY <2>0, <2>2, <2>3, <2>4 DEF Owed
  <2>6. MayFail
    BY <2>2 DEF MayFail
  <2>. QED
    BY <1>0, <2>1, <2>2, <2>3, <2>5, <2>6, NothingMoves DEF SInv, KS
<1>12. CASE FailTerminal
  <2>0. rows # <<>> /\ rows' = Tail(rows)
    BY <1>12 DEF FailTerminal, GiveUp
  <2>1. KS'
    BY <1>0, <1>12, <2>0, RowsMove
  <2>2. /\ UNCHANGED <<here, local, there, gmail, log, watermark, sync, cursor, retry, reads, wanted, acked>>
        /\ run = "call" /\ run' = "drain" /\ MayFail
        /\ Of(rows[1].thread) \cap there = {} \/ ~Remembers'
    BY <1>0, <1>12, Faulted DEF FailTerminal, MayFail, Forgetful
  <2>3. \A t : Unlisted(t) => Unlisted(t)'
    BY <2>2 DEF Unlisted
  <2>4. ASSUME Remembers', NEW m \in there PROVE Owed(ThreadOf[m]) => Owed(ThreadOf[m])'
    <3>1. ThreadOf[m] # rows[1].thread
      BY <1>0, <2>2, <2>4
    <3>2. HasPendingMask(ThreadOf[m]) => HasPendingMask(ThreadOf[m])'
      BY <1>0, <2>0, <3>1, OldestLeft DEF HasPendingMask, OpenFor
    <3>. QED
      BY <2>2, <2>3, <3>2 DEF Owed
  <2>. QED
    BY <1>0, <2>1, <2>2, <2>3, <2>4, NothingMoves DEF SInv, KS
<1>13. CASE FailAuth
  <2>0. rows # <<>>
    BY <1>13 DEF FailAuth
  <2>1. KS'
    BY <1>0, <1>13, <2>0, RowsMove
  <2>2. /\ UNCHANGED <<here, local, there, gmail, log, watermark, sync, cursor, retry, reads, wanted>>
        /\ run = "call" /\ run' = "idle" /\ MayFail /\ ~Remembers'
    BY <1>0, <1>13, Faulted DEF FailAuth, Forgetful
  <2>3. \A t : Unlisted(t) => Unlisted(t)'
    BY <2>2 DEF Unlisted
  <2>. QED
    BY <1>0, <2>1, <2>2, <2>3, NothingMoves DEF SInv, KS
<1>14. CASE FailRetry \/ BecomeDue
  <2>0. rows # <<>> /\ \E b \in BOOLEAN : rows' = [rows EXCEPT ![1].due = b]
    BY <1>14 DEF FailRetry, BecomeDue
  <2>1. KS'
    BY <1>0, <1>14, <2>0, RowsMove
  <2>2. /\ UNCHANGED <<here, local, there, gmail, log, watermark, sync, cursor, retry, reads, wanted, acked, upto>>
        /\ (run' = run \/ (run \in {"call", "applied"} /\ run' = "drained"))
        /\ MayFail
    BY <1>0, <1>14, Faulted DEF FailRetry, BecomeDue, MayFail
  <2>3. \A t : Unlisted(t) => Unlisted(t)'
    BY <2>2 DEF Unlisted
  <2>4. \A t : HasPendingMask(t) => HasPendingMask(t)'
    BY <1>0, <2>0, OldestDue DEF HasPendingMask, OpenFor
  <2>5. \A t : Owed(t) => Owed(t)'
    BY <2>2, <2>3, <2>4 DEF Owed
  <2>. QED
    BY <1>0, <2>1, <2>2, <2>3, <2>5, NothingMoves DEF SInv, KS
<1>15. ASSUME NEW t \in wanted, ReadFails(t) PROVE SInv'
  <2>0. t \in Threads
    BY <1>0 DEF Known
  <2>1. KS'
    BY <1>0, <1>15, <2>0, FailedPart
  <2>2. /\ UNCHANGED <<here, local, there, gmail, log, watermark, sync, cursor, retry, wanted, acked, upto, run, rows>>
        /\ MayFail
        /\ \A s \in Threads : reads'[s] = reads[s] \/ reads'[s].how \in {"none", "failed"}
    BY <1>0, <1>15, Faulted DEF ReadFails, Known
  <2>3. \A s : (Unlisted(s) => Unlisted(s)') /\ (Owed(s) => Owed(s)')
    BY <2>2 DEF Unlisted, Owed, HasPendingMask, OpenFor
  <2>. QED
    BY <1>0, <2>1, <2>2, <2>3, NothingMoves DEF SInv, KS
<1>. QED
  BY <1>1, <1>2, <1>3, <1>4, <1>5, <1>6, <1>7, <1>8, <1>9, <1>10, <1>11, <1>12, <1>13, <1>14, <1>15

(* Every step keeps SInv. *)
LEMMA BothStep ==
  ASSUME Typed, SInv, MailAssumption, [Next]_vars
  PROVE  SInv'
<1>0. KS /\ (rows # <<>> \/ run \notin {"call", "applied"})
  BY DEF SInv, KS, Typed
<1>1. ASSUME NEW t \in Threads, NEW c \in Changes, Change(t, c) PROVE SInv'
  BY <1>0, <1>1, RowAdded, ChangeOwed DEF SInv, KS
<1>2. CASE Profile
  BY <1>0, <1>2, RunMoves, ProfileRead DEF SInv, KS
<1>3. CASE Apply
  BY <1>0, <1>3, HistoryLands, HistoryTrue DEF SInv, KS
<1>4. ASSUME NEW t \in wanted, Read(t) PROVE SInv'
  <2>1. t \in Threads
    BY <1>0 DEF KS, Known
  <2>. QED
    BY <1>0, <1>4, <2>1, RunMoves, AnswerTrue DEF SInv, KS
<1>5. CASE Gmail \/ GmailModifies
  BY <1>0, <1>5, GmailStep DEF Gmail
<1>6. CASE LandPage \/ LandPoll \/ LandReread
  BY <1>6, LandStep
<1>. QED
  BY <1>0, <1>1, <1>2, <1>3, <1>4, <1>5, <1>6, QuietStep
  DEF Next, User, Backfill, Poll, Drain, Reading, Failing

(* Once caught up, the local store and Gmail hold the same messages with   *)
(* the same labels, but for the faults each part names: what a mask held   *)
(* back, what a failed fetch left out and what came in between a read and  *)
(* its landing is made up for (runOnce, applyHistory, fetchThreads, the    *)
(* read after the ack).                                                    *)
THEOREM BothSidesMatch == Spec => []SidesMatch
<1>1. Init => IInv /\ SInv
  BY Start, BothStart
<1>2. IInv /\ SInv /\ [Next]_vars => (IInv /\ SInv)'
  BY MailAssumption, Step, BothStep DEF IInv
<1>3. SInv => SidesMatch
  BY Settled
<1>. QED
  BY <1>1, <1>2, <1>3, PTL DEF Spec
=============================================================================
