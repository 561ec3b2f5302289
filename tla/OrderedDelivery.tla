-------------------------- MODULE OrderedDelivery --------------------------
(***************************************************************************)
(* What the outbox promises, with no mention of how: every local change    *)
(* gets a number, a change reaches Gmail only while no earlier change of    *)
(* its account is still open, and a change is reported delivered only if   *)
(* Gmail has it.  A change may reach Gmail more than once (its answer can   *)
(* be lost), it may be refused, and a change nobody needs any more may be  *)
(* withdrawn.                                                              *)
(*                                                                         *)
(* Outbox.tla implements this specification; the mapping is stated there.  *)
(***************************************************************************)
EXTENDS Naturals

CONSTANTS
  Accounts,   \* The mail accounts.
  NoAccount,  \* The owner of a change that is not made yet.
  MaxRows     \* How many changes are ever made (a bound for model checking).

RowIds == 1..MaxRows

VARIABLES
  owner,  \* owner[i]: the account change i was made in.
  phase,  \* phase[i]: what became of change i.
  tip     \* tip[a]: the last change of account a that Gmail applied, 0 if none.

vars == <<owner, phase, tip>>

(* Change i of account a is open, and no earlier change of a is. *)
FirstOpen(a, i) ==
  /\ phase[i] = "open"
  /\ owner[i] = a
  /\ \A j \in RowIds : j < i /\ owner[j] = a => phase[j] # "open"

Init ==
  /\ owner = [i \in RowIds |-> NoAccount]
  /\ phase = [i \in RowIds |-> "unmade"]
  /\ tip = [a \in Accounts |-> 0]

(* A change is made, after all the changes made before it. *)
Submit(a, i) ==
  /\ phase[i] = "unmade"
  /\ \A j \in RowIds : j < i <=> phase[j] # "unmade"
  /\ owner' = [owner EXCEPT ![i] = a]
  /\ phase' = [phase EXCEPT ![i] = "open"]
  /\ UNCHANGED tip

(* Gmail applies the first open change, possibly again. *)
Deliver(a, i) ==
  /\ FirstOpen(a, i)
  /\ tip' = [tip EXCEPT ![a] = i]
  /\ UNCHANGED <<owner, phase>>

(* Only a change Gmail has applied last is reported delivered. *)
Confirm(a, i) ==
  /\ FirstOpen(a, i)
  /\ tip[a] = i
  /\ phase' = [phase EXCEPT ![i] = "delivered"]
  /\ UNCHANGED <<owner, tip>>

Refuse(a, i) ==
  /\ FirstOpen(a, i)
  /\ phase' = [phase EXCEPT ![i] = "refused"]
  /\ UNCHANGED <<owner, tip>>

(* Changes nobody needs any more are dropped, wherever they stand in line. *)
Withdraw(S) ==
  /\ \A i \in S : phase[i] = "open"
  /\ phase' = [i \in RowIds |-> IF i \in S THEN "withdrawn" ELSE phase[i]]
  /\ UNCHANGED <<owner, tip>>

Next ==
  \/ \E a \in Accounts, i \in RowIds :
        Submit(a, i) \/ Deliver(a, i) \/ Confirm(a, i) \/ Refuse(a, i)
  \/ \E S \in SUBSET RowIds : Withdraw(S)

Spec == Init /\ [][Next]_vars
=============================================================================
