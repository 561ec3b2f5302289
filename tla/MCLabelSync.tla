---------------------------- MODULE MCLabelSync ----------------------------
(***************************************************************************)
(* Labels of two messages, the second of which arrives later, in one       *)
(* thread or in two.                                                       *)
(***************************************************************************)
EXTENDS LabelSync

CONSTANTS t1, t2, m1, m2, inbox, unread

(* Archive, move to the inbox, mark read. *)
Archive == [add |-> {}, remove |-> {inbox}]
ToInbox == [add |-> {inbox}, remove |-> {}]
MarkRead == [add |-> {}, remove |-> {unread}]

MCChanges == {Archive, ToInbox, MarkRead}
MCOneThread == {t1}
MCTwoThreads == {t1, t2}
MCTwoMessages == {m1, m2}
MCThreadOfTwo == [m \in {m1, m2} |-> t1]
MCThreadOfApart == [m \in {m1, m2} |-> IF m = m1 THEN t1 ELSE t2]
=============================================================================
