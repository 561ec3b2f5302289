------------------------------ MODULE Contacts ------------------------------
(***************************************************************************)
(* The photo of one contact: where it is looked for, what of it is kept on *)
(* disk and what for the session.                                          *)
(*                                                                         *)
(*   apps/desktop/electron/contacts.ts              Contacts.photo         *)
(*   packages/gmail/src/people.ts                   resolvePhoto           *)
(*   packages/store/src/queries/contacts.ts         setContactPhoto        *)
(*                                                                         *)
(* The People API is asked with the token of an account that is signed in, *)
(* Gravatar without one.  Who asks while a task is under way shares it.    *)
(* Names, cards and the lookup on the web are left out.                    *)
(***************************************************************************)
EXTENDS Naturals

CONSTANTS
  MaxTroubles,  \* Bound: requests without an answer.
  MaxMoves      \* Bound: sign-ins, sign-outs, starts.

VARIABLES
  at,        \* Where the picture is: a set of hops.
  url,       \* contacts.photo_url: Unknown, Nothing, or the hop it is from.
  photo,     \* photos: Unasked, Miss, or the hop it is from.
  task,      \* inflight: the step it waits at, or Idle.
  signedIn,  \* There is a client.
  slips,     \* History: why a picture that is there is not shown.
  troubles, moves

vars == <<at, url, photo, task, signedIn, slips, troubles, moves>>

Hops == {"people", "gravatar"}
Unknown == "unknown"
Nothing == "nothing"
Unasked == "unasked"
Miss == "miss"
Idle == "idle"

Init ==
  /\ at \in SUBSET Hops
  /\ url = Unknown /\ photo = Unasked /\ task = Idle
  /\ signedIn \in BOOLEAN
  /\ slips = {} /\ troubles = 0 /\ moves = 0

Trouble(what) ==
  /\ troubles < MaxTroubles /\ troubles' = troubles + 1
  /\ slips' = slips \cup {what}

(* A session miss without a download. *)
Missed == photo' = Miss /\ task' = Idle

(* photo: from the session, from the task there is, or a new one, which    *)
(* goes by the row.                                                        *)
Ask ==
  /\ photo = Unasked /\ task = Idle
  /\ CASE url = Nothing -> Missed
       [] url \in Hops -> task' = "download" /\ UNCHANGED photo
       [] OTHER -> task' = (IF signedIn THEN "people" ELSE "gravatar") /\ UNCHANGED photo
  /\ slips' = IF url = Unknown /\ ~signedIn THEN slips \cup {"nobody"} ELSE slips
  /\ UNCHANGED <<at, url, signedIn, troubles, moves>>

(* resolvePhoto, the first hop: no scope and no match are the same. *)
People ==
  /\ task = "people"
  /\ \/ /\ "people" \in at
        /\ url' = "people" /\ task' = "download" /\ UNCHANGED <<slips, troubles>>
     \/ /\ "people" \notin at
        /\ task' = "gravatar" /\ UNCHANGED <<url, slips, troubles>>
     \/ Trouble("people") /\ task' = "gravatar" /\ UNCHANGED url
  /\ UNCHANGED <<at, photo, signedIn, moves>>

(* A fault: only what the first hop finds is recorded. *)
FaultyRecorded(found) == Nothing

(* setContactPhoto *)
Recorded(found) == IF found THEN "gravatar" ELSE Nothing

(* The second hop, behind which the row is written: trouble counts as no   *)
(* picture.                                                                *)
Gravatar ==
  /\ task = "gravatar"
  /\ \/ /\ url' = Recorded("gravatar" \in at) /\ UNCHANGED <<slips, troubles>>
        /\ IF "gravatar" \in at THEN task' = "download" /\ UNCHANGED photo ELSE Missed
     \/ Trouble("gravatar") /\ url' = Recorded(FALSE) /\ Missed
  /\ UNCHANGED <<at, signedIn, moves>>

(* download: what fails is a miss of this session. *)
Download ==
  /\ task = "download"
  /\ \/ photo' = url /\ UNCHANGED <<slips, troubles>>
     \/ Trouble("download") /\ photo' = Miss
  /\ task' = Idle
  /\ UNCHANGED <<at, url, signedIn, moves>>

(* onSignedOut: forgetPhotos, not what is under way. *)
SignOut ==
  /\ signedIn /\ moves < MaxMoves /\ moves' = moves + 1
  /\ signedIn' = FALSE /\ photo' = Unasked
  /\ UNCHANGED <<at, url, task, slips, troubles>>

SignIn ==
  /\ ~signedIn /\ moves < MaxMoves /\ moves' = moves + 1
  /\ signedIn' = TRUE
  /\ UNCHANGED <<at, url, photo, task, slips, troubles>>

Restart ==
  /\ moves < MaxMoves /\ moves' = moves + 1
  /\ photo' = Unasked /\ task' = Idle
  /\ slips' = slips \ {"download"}
  /\ UNCHANGED <<at, url, signedIn, troubles>>

Next == Ask \/ People \/ Gravatar \/ Download \/ SignOut \/ SignIn \/ Restart

Spec == Init /\ [][Next]_vars

-----------------------------------------------------------------------------
(* Properties. *)

(* An empty photo_url means "looked, found nothing"                        *)
(* (queries/contacts.ts:67), and a miss of the session that there is       *)
(* nothing to show, through sign-outs and restarts in the middle; not so   *)
(* when a request got no answer or nobody was signed in, which is recorded *)
(* all the same.                                                           *)
NothingIsNothing == url = Nothing \/ photo = Miss => at = {} \/ slips # {}

(* The same without the condition. *)
LookedAndFoundNothing == url = Nothing => at = {}
=============================================================================
