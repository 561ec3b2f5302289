---------------------------- MODULE GmailClient ----------------------------
(***************************************************************************)
(* The client of one account: requests and batches that share a bucket of  *)
(* quota units, with their retries.                                        *)
(*                                                                         *)
(*   packages/gmail/src/client.ts   TokenBucket, GmailClient               *)
(*   packages/gmail/src/errors.ts   isRateLimit, parseRetryAfter           *)
(*                                                                         *)
(* A unit of time is a tick of the clock.  A call is a number of parts: a  *)
(* request is one, a batch is as many as are still to be answered.  What   *)
(* is asked and answered, and the access token, are left out.              *)
(***************************************************************************)
EXTENDS Integers

CONSTANTS
  Requests, Batches,
  Size,         \* Parts of a batch (25).
  Cost,         \* Quota units of a part.
  Capacity,     \* Units the bucket holds.
  Rate,         \* Units that come in a tick.
  MaxAttempts,  \* maxAttempts (5)
  MaxBackoff,   \* The longest backoff: a minute, or what Retry-After says.
  MaxClock      \* Bound: ticks.

Calls == Requests \cup Batches

VARIABLES
  clock,
  tokens, last,  \* The bucket; tokens may be negative.
  call,          \* A call: its step, its parts, its attempt, when it may go on.
  reserved,      \* History: the units taken from the bucket.
  window,        \* History: any earlier time, with what was reserved then.
  grant          \* History: the last reservation, with when it may go out.

vars == <<clock, tokens, last, call, reserved, window, grant>>

GmailClientAssumption ==
  /\ Size \in Nat \ {0} /\ Cost \in Nat \ {0}
  /\ Capacity \in Nat /\ Rate \in Nat \ {0}
  /\ MaxAttempts \in Nat \ {0} /\ MaxBackoff \in Nat /\ MaxClock \in Nat

Parts(c) == IF c \in Batches THEN Size ELSE 1

Init ==
  /\ clock = 0
  /\ tokens = Capacity /\ last = 0
  /\ call = [c \in Calls |-> [step |-> "ready", parts |-> Parts(c), attempt |-> 0, at |-> 0]]
  /\ reserved = 0
  /\ window = [at |-> 0, sum |-> 0]
  /\ grant = [at |-> 0, sum |-> 0]

Tick ==
  /\ clock < MaxClock /\ clock' = clock + 1
  /\ UNCHANGED <<tokens, last, call, reserved, window, grant>>

(* The window may open at any time. *)
Opens ==
  /\ window' = [at |-> clock, sum |-> reserved]
  /\ UNCHANGED <<clock, tokens, last, call, reserved, grant>>

(* What becomes of a call. *)
Becomes(c, step, parts, attempt, at) ==
  call' = [call EXCEPT ![c] = [step |-> step, parts |-> parts, attempt |-> attempt, at |-> at]]

-----------------------------------------------------------------------------
(* TokenBucket *)

(* A fault: time the bucket was not asked in fills it past its capacity. *)
FaultyRefilled == tokens + (clock - last) * Rate

Refilled ==
  LET more == tokens + (clock - last) * Rate
  IN  IF more < Capacity THEN more ELSE Capacity

(* "Reserves units and returns how long to wait" (client.ts:63) *)
IsWait(wait, left) ==
  IF left >= 0 THEN wait = 0 ELSE wait * Rate >= -left /\ (wait - 1) * Rate < -left

(* throttle: also of a call that is tried again. *)
Throttle(c) ==
  /\ call[c].step = "ready"
  /\ LET units == call[c].parts * Cost
     IN  /\ tokens' = Refilled - units /\ last' = clock
         /\ reserved' = reserved + units
         /\ \E wait \in 0..(MaxClock + Capacity + reserved + units) :
              /\ IsWait(wait, tokens')
              /\ Becomes(c, "throttled", call[c].parts, call[c].attempt, clock + wait)
              /\ grant' = [at |-> clock + wait, sum |-> reserved']
  /\ UNCHANGED <<clock, window>>

-----------------------------------------------------------------------------
(* request and runChunk *)

Goes(c) ==
  /\ call[c].step = "throttled" /\ clock >= call[c].at
  /\ Becomes(c, "out", call[c].parts, call[c].attempt, 0)
  /\ UNCHANGED <<clock, tokens, last, reserved, window, grant>>

Ends(c) == Becomes(c, "ended", 0, 0, 0)

(* 2xx, or an error that a retry would not change. *)
Answered(c) ==
  /\ call[c].step = "out"
  /\ Ends(c)
  /\ UNCHANGED <<clock, tokens, last, reserved, window, grant>>

(* A request refused for its token is sent again with a fresh one, once    *)
(* and only at first.                                                      *)
Unauthorized(c) ==
  /\ call[c].step = "out" /\ c \in Requests /\ call[c].attempt = 0
  /\ Becomes(c, "ready", call[c].parts, 1, 0)
  /\ UNCHANGED <<clock, tokens, last, reserved, window, grant>>

(* 429, 5xx and a refused rate, of the whole or of parts of a batch: what  *)
(* is left is tried again after the backoff, so often and no more.         *)
Retries(c) ==
  /\ call[c].step = "out"
  /\ IF call[c].attempt + 1 < MaxAttempts
     THEN \E rest \in 1..call[c].parts, wait \in 0..MaxBackoff :
            Becomes(c, "backs off", rest, call[c].attempt + 1, clock + wait)
     ELSE Ends(c)
  /\ UNCHANGED <<clock, tokens, last, reserved, window, grant>>

BacksOff(c) ==
  /\ call[c].step = "backs off" /\ clock >= call[c].at
  /\ Becomes(c, "ready", call[c].parts, call[c].attempt, 0)
  /\ UNCHANGED <<clock, tokens, last, reserved, window, grant>>

Next ==
  \/ Tick \/ Opens
  \/ \E c \in Calls : Throttle(c) \/ Goes(c) \/ Answered(c) \/ Unauthorized(c) \/ Retries(c) \/ BacksOff(c)

Spec == Init /\ [][Next]_vars

-----------------------------------------------------------------------------
(* Properties. *)

(* However calls, batches and their retries interleave: what was reserved  *)
(* since any earlier time, up to the last call, is no more than a full     *)
(* bucket and what came in until that call may go ("the wait time keeps    *)
(* the average at the refill rate", client.ts:50).                         *)
Paced ==
  grant.sum > window.sum =>
    grant.sum - window.sum <= Capacity + Rate * (grant.at - window.at)
=============================================================================
