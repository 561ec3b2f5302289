----------------------------- MODULE SyncLoop -----------------------------
(***************************************************************************)
(* When an account syncs, and as whom: the timer, the pokes and the one    *)
(* run of an account, with sign-in, sign-out, a token that dies and a      *)
(* Keychain that does not answer happening at any moment of a run.         *)
(*                                                                         *)
(*   apps/desktop/electron/sync.ts        SyncManager                      *)
(*   apps/desktop/electron/accounts.ts    AccountRegistry                  *)
(*   apps/desktop/electron/auth-state.ts  what is written down of it       *)
(*   packages/gmail/src/oauth.ts          createTokenSource                *)
(*                                                                         *)
(* One account: accounts share no timer, no run, no client and no row.     *)
(* What a run does to mail is in LabelSync, Outbox and DraftMirror; of the *)
(* outbox there is only whether anything waits in it.  A refresh token is  *)
(* a number: every sign-in brings the next.  A client works for as long as *)
(* its access token does, so a dead refresh token may go unnoticed.        *)
(***************************************************************************)
EXTENDS Naturals, FiniteSets

CONSTANTS
  Pages,      \* Pages of a backfill.
  MaxTokens,  \* Bound: sign-ins that succeed.
  MaxChanges, \* Bound: local changes.
  MaxFaults   \* Bound: failed runs, expired watermarks, restarts, Keychain refusals.

ASSUME SyncLoopAssumption ==
  /\ Pages \in Nat \ {0}
  /\ MaxTokens \in Nat
  /\ MaxChanges \in Nat
  /\ MaxFaults \in Nat

VARIABLES
  auth,      \* accounts.auth_state
  sync,      \* accounts.sync_state
  history,   \* Is there an accounts.history_id?
  cursor,    \* accounts.backfill_cursor: the pages behind it, 0 is null.
  token,     \* The refresh token on disk, 0 if there is none.
  lastToken, \* The last refresh token Google gave out.
  dead,      \* The refresh tokens Google takes no more.
  keychain,  \* Can the token on disk be read?
  cached,    \* clients: the token of the client kept for the account, or 0.
  timer,     \* timers: the delay the timer was set to, or 0.
  poked,     \* pokes: the least delay asked for during the run, or 0.
  run,       \* What the run is awaiting.
  held,      \* The token of the client the run holds, or 0.
  other,     \* The token of a client in use outside the run, or 0.
  signing,   \* The sign-in under way.
  open,      \* Does anything wait in the outbox?
  fresh,     \* History: it was put there and no run has looked since.
  failed,    \* History: the last run failed.
  landed,    \* History: the pages read since a backfill was called for.
  changes, faults  \* Counters.

account == <<auth, sync, history, cursor>>
tokens == <<token, lastToken, dead, keychain>>
loop == <<timer, poked, run, held>>
outbox == <<open, fresh, changes>>
vars == <<auth, sync, history, cursor, token, lastToken, dead, keychain, cached, timer, poked,
          run, held, other, signing, open, fresh, failed, landed, changes, faults>>

(* Delays, by their order: 0 to 400 ms, 30 s, POLL_FOCUSED_MS or more. *)
Soon == 1
Retry == 2
Poll == 3

Phases == {"idle", "profile", "pages", "finish", "poll", "drain", "reread"}

Running == run # "idle"

-----------------------------------------------------------------------------

Init ==
  /\ auth = "signed_out" /\ sync = "new" /\ history = FALSE /\ cursor = 0
  /\ token = 0 /\ lastToken = 0 /\ dead = {} /\ keychain = TRUE /\ cached = 0
  /\ timer = 0 /\ poked = 0 /\ run = "idle" /\ held = 0
  /\ other = 0 /\ signing = "none"
  /\ open = FALSE /\ fresh = FALSE /\ failed = FALSE /\ landed = {}
  /\ changes = 0 /\ faults = 0

Fault == faults < MaxFaults /\ faults' = faults + 1

(* The least delay asked for during a run. *)
Remembered(delay) == IF poked = 0 \/ delay < poked THEN delay ELSE poked

(* schedule *)
Schedule(delay) ==
  IF Running
  THEN poked' = Remembered(delay) /\ UNCHANGED timer
  ELSE timer' = delay /\ poked' = 0

(* The delay after a run, of what was asked for during it. *)
NextDelay(asked) == IF asked = 0 THEN Poll ELSE asked

(* A fault: a run sets a timer only if something asked for it. *)
FaultyTimed(a, asked) == asked # 0

(* Is the account timed again after a run? *)
Timed(a, asked) == a = "ok"

(* The finally of run: the account a, asked for during the run. *)
RunOver(a, asked) ==
  /\ run' = "idle"
  /\ held' = 0
  /\ poked' = 0
  /\ timer' = IF Timed(a, asked) THEN NextDelay(asked) ELSE 0

(* client: the one kept, or a new one of the token on disk; 0 is none. *)
Client == IF cached # 0 THEN cached ELSE IF keychain THEN token ELSE 0

-----------------------------------------------------------------------------
(* The run. *)

(* runOnce: which of the two it does. *)
NeedsBackfill == sync \in {"new", "backfill"} \/ ~history

(* The timer fires for an account that is not signed in. *)
FireInVain ==
  /\ ~Running /\ timer # 0
  /\ auth # "ok"
  /\ timer' = 0
  /\ UNCHANGED <<account, tokens, cached, poked, run, held, other, signing, outbox, failed, landed, faults>>

(* What a run that has no client, or that failed, asks for. *)
AskedFor == Remembered(Retry)

(* The timer fires and the Keychain does not answer: what was to go with   *)
(* this run goes with the retry.                                           *)
FireRefused ==
  /\ ~Running /\ timer # 0
  /\ auth = "ok" /\ Client = 0
  /\ RunOver("ok", AskedFor)
  /\ failed' = TRUE
  /\ fresh' = FALSE
  /\ UNCHANGED <<account, tokens, cached, other, signing, open, changes, landed, faults>>

(* The timer fires and the run starts. *)
Fire ==
  /\ ~Running /\ timer # 0
  /\ auth = "ok" /\ Client # 0
  /\ timer' = 0
  /\ held' = Client
  /\ cached' = Client
  /\ failed' = FALSE
  /\ IF NeedsBackfill
     THEN sync' = "backfill" /\ run' = IF cursor = 0 THEN "profile" ELSE "pages"
     ELSE run' = "poll" /\ UNCHANGED sync
  /\ UNCHANGED <<auth, history, cursor, tokens, poked, other, signing, outbox, landed, faults>>

(* backfill asks for the profile, whose history id is the watermark. *)
Profile ==
  /\ run = "profile"
  /\ history' = TRUE
  /\ run' = "pages"
  /\ UNCHANGED <<auth, sync, cursor, tokens, cached, timer, poked, held, other, signing, outbox, failed, landed, faults>>

(* The cursor behind a page; that of the last one is null. *)
NextCursor == IF cursor + 1 = Pages THEN 0 ELSE cursor + 1

(* What a run that fails leaves of the cursor: onCursor comes last. *)
FailedCursor == cursor

(* A page lands. *)
LandPage ==
  /\ run = "pages"
  /\ landed' = landed \cup {cursor + 1}
  /\ cursor' = NextCursor
  /\ run' = IF cursor' = 0 THEN "finish" ELSE "pages"
  /\ UNCHANGED <<auth, sync, history, tokens, cached, timer, poked, held, other, signing, outbox, failed, faults>>

(* Labels and drafts are read, and the account is live. *)
FinishBackfill ==
  /\ run = "finish"
  /\ sync' = "live"
  /\ cursor' = 0
  /\ run' = "drain"
  /\ UNCHANGED <<auth, history, tokens, cached, timer, poked, held, other, signing, outbox, failed, landed, faults>>

(* poll, and what follows it once after every start. *)
LandPoll ==
  /\ run = "poll"
  /\ run' = "drain"
  /\ UNCHANGED <<account, tokens, cached, timer, poked, held, other, signing, outbox, failed, landed, faults>>

(* The watermark is older than what Gmail keeps: a backfill of a week. *)
PollExpired ==
  /\ run = "poll"
  /\ Fault
  /\ sync' = "backfill" /\ cursor' = 0
  /\ landed' = {}
  /\ run' = "profile"
  /\ UNCHANGED <<auth, history, tokens, cached, timer, poked, held, other, signing, outbox, failed>>

(* drain takes a row and Gmail answers. *)
DrainRow ==
  /\ run = "drain" /\ open
  /\ open' = FALSE
  /\ fresh' = FALSE
  /\ UNCHANGED <<account, tokens, cached, loop, other, signing, changes, failed, landed, faults>>

(* A batch is full, or a row waits for its backoff: the rest stays. *)
DrainStops ==
  /\ run = "drain" /\ open
  /\ Fault
  /\ fresh' = FALSE
  /\ run' = "reread"
  /\ UNCHANGED <<account, tokens, cached, timer, poked, held, other, signing, open, changes, failed, landed>>

(* Nothing waits any more: the acknowledged threads are read again. *)
DrainEnds ==
  /\ run = "drain" /\ ~open
  /\ run' = "reread"
  /\ UNCHANGED <<account, tokens, cached, timer, poked, held, other, signing, outbox, failed, landed, faults>>

RunEnds ==
  /\ run = "reread"
  /\ RunOver(auth, poked)
  /\ UNCHANGED <<account, tokens, cached, other, signing, outbox, failed, landed, faults>>

(* Any other error: the network is gone, Gmail is.  A change that was to   *)
(* go with this run goes with the retry.                                   *)
RunFails ==
  /\ run \in Phases \ {"idle", "reread"}
  /\ Fault
  /\ RunOver(auth, AskedFor)
  /\ failed' = TRUE
  /\ fresh' = (fresh /\ poked = Soon)
  /\ cursor' = FailedCursor
  /\ UNCHANGED <<auth, sync, history, tokens, cached, other, signing, open, changes, landed>>

-----------------------------------------------------------------------------
(* Signing in and out. *)

(* isInvalidGrant, of a client of token t. *)
InvalidGrant(t) == t \in dead

(* expire: the client is dropped, the account waits for a sign-in. *)
Expire ==
  /\ cached' = 0
  /\ auth' = "expired" /\ sync' = "reauth"

(* A request of the run finds the token dead; the run ends, and expire has *)
(* cancelled what it was poked for.                                        *)
RunExpires ==
  /\ Running /\ InvalidGrant(held)
  /\ Expire
  /\ RunOver("expired", 0)
  /\ UNCHANGED <<history, cursor, tokens, other, signing, outbox, failed, landed, faults>>

(* A send, the calendar, a thread that is opened: someone else asks for    *)
(* the client and awaits Gmail with it.                                    *)
OtherAsks ==
  /\ other = 0 /\ Client # 0
  /\ other' = Client
  /\ cached' = Client
  /\ UNCHANGED <<account, tokens, loop, signing, outbox, failed, landed, faults>>

OtherDone ==
  /\ other # 0
  /\ other' = 0
  /\ UNCHANGED <<account, tokens, cached, loop, signing, outbox, failed, landed, faults>>

(* expire from there, with onAuthExpired: cancel. *)
OtherExpires ==
  /\ other # 0 /\ InvalidGrant(other)
  /\ other' = 0
  /\ Expire
  /\ timer' = 0 /\ poked' = 0
  /\ UNCHANGED <<history, cursor, tokens, run, held, signing, outbox, failed, landed, faults>>

(* signIn: the browser opens.  The settings offer it for an account that   *)
(* is not signed in, once at a time.                                       *)
SignIn ==
  /\ auth # "ok" /\ signing = "none"
  /\ signing' = "flow"
  /\ UNCHANGED <<account, tokens, cached, loop, other, outbox, failed, landed, faults>>

(* The flow is given up, or the Keychain does not take the token. *)
SignInFails ==
  /\ signing = "flow"
  /\ signing' = "none"
  /\ UNCHANGED <<account, tokens, cached, loop, other, outbox, failed, landed, faults>>

(* The client of refreshOwners, once signIn has dropped the one kept. *)
FreshClient(t) == t

(* The token is stored, the account is ok, and refreshOwners asks Gmail. *)
SignedIn ==
  /\ signing = "flow" /\ keychain
  /\ lastToken < MaxTokens
  /\ lastToken' = lastToken + 1
  /\ token' = lastToken'
  /\ auth' = "ok"
  /\ sync' = IF history THEN "live" ELSE "new"
  /\ cached' = FreshClient(token')
  /\ signing' = "owners"
  /\ UNCHANGED <<history, cursor, dead, keychain, loop, other, outbox, failed, landed, faults>>

(* refreshOwners is answered, or fails; accounts:signIn pokes. *)
OwnersRead ==
  /\ signing = "owners"
  /\ signing' = "none"
  /\ Schedule(Soon)
  /\ UNCHANGED <<account, tokens, cached, run, held, other, outbox, failed, landed, faults>>

(* signOut leaves the timer and the run alone.  The settings offer it for  *)
(* an account that is signed in.                                           *)
SignOut ==
  /\ auth = "ok" /\ signing = "none"
  /\ token' = 0
  /\ cached' = 0
  /\ auth' = "signed_out"
  /\ UNCHANGED <<sync, history, cursor, lastToken, dead, keychain, loop, other, signing, outbox, failed, landed, faults>>

(* Google takes the token no more. *)
Revoke ==
  /\ token # 0 /\ token \notin dead
  /\ dead' = dead \cup {token}
  /\ UNCHANGED <<account, token, lastToken, keychain, cached, loop, other, signing, outbox, failed, landed, faults>>

KeychainRefuses ==
  /\ keychain
  /\ Fault
  /\ keychain' = FALSE
  /\ UNCHANGED <<account, token, lastToken, dead, cached, loop, other, signing, outbox, failed, landed>>

KeychainAnswers ==
  /\ ~keychain
  /\ keychain' = TRUE
  /\ UNCHANGED <<account, token, lastToken, dead, cached, loop, other, signing, outbox, failed, landed, faults>>

-----------------------------------------------------------------------------

(* Any local change is put into the outbox and pokes. *)
Change ==
  /\ changes < MaxChanges
  /\ changes' = changes + 1
  /\ open' = TRUE
  /\ fresh' = TRUE
  /\ Schedule(Soon)
  /\ UNCHANGED <<account, tokens, cached, run, held, other, signing, failed, landed, faults>>

(* pokeAll: the window is focused, the lid opens, the user asks. *)
Wake ==
  /\ auth = "ok"
  /\ Schedule(Soon)
  /\ UNCHANGED <<account, tokens, cached, run, held, other, signing, outbox, failed, landed, faults>>

(* The process ends, by a quit or a crash, and starts again. *)
Restart ==
  /\ Fault
  /\ cached' = 0 /\ other' = 0 /\ signing' = "none"
  /\ run' = "idle" /\ held' = 0 /\ poked' = 0
  /\ timer' = IF auth = "ok" THEN Soon ELSE 0
  /\ failed' = FALSE
  /\ UNCHANGED <<account, tokens, outbox, landed>>

-----------------------------------------------------------------------------

Steps ==
  \/ FireInVain \/ FireRefused \/ Fire
  \/ Profile \/ LandPage \/ FinishBackfill \/ LandPoll
  \/ DrainRow \/ DrainEnds \/ RunEnds

Auth ==
  \/ RunExpires \/ OtherAsks \/ OtherDone \/ OtherExpires
  \/ SignIn \/ SignInFails \/ SignedIn \/ OwnersRead \/ SignOut
  \/ Revoke \/ KeychainRefuses \/ KeychainAnswers

Next == Steps \/ Auth \/ PollExpired \/ DrainStops \/ RunFails \/ Change \/ Wake \/ Restart

Spec == Init /\ [][Next]_vars

(* A timer fires and a run goes on; calls end; the Keychain answers again. *)
FairSpec ==
  /\ Spec
  /\ WF_vars(Steps)
  /\ WF_vars(OwnersRead)
  /\ WF_vars(KeychainAnswers)

-----------------------------------------------------------------------------

(* The variables have their types; a run has a client, an account that is  *)
(* signed in a token.                                                      *)
TypeOK ==
  /\ auth \in {"ok", "expired", "signed_out"}
  /\ sync \in {"new", "backfill", "live", "reauth"}
  /\ history \in BOOLEAN /\ keychain \in BOOLEAN
  /\ cursor \in 0 .. Pages - 1
  /\ lastToken \in 0 .. MaxTokens
  /\ token \in 0 .. lastToken /\ cached \in 0 .. lastToken
  /\ held \in 0 .. lastToken /\ other \in 0 .. lastToken
  /\ dead \subseteq 1 .. lastToken
  /\ timer \in 0 .. Poll /\ poked \in 0 .. Poll
  /\ run \in Phases
  /\ Running <=> held # 0
  /\ signing \in {"none", "flow", "owners"}
  /\ open \in BOOLEAN /\ fresh \in BOOLEAN /\ failed \in BOOLEAN /\ landed \subseteq 1 .. Pages
  /\ changes \in 0 .. MaxChanges /\ faults \in 0 .. MaxFaults
  /\ auth = "ok" => token # 0

(* An account that is signed in has one thing that will sync it: a timer,  *)
(* or a run that sets one when it ends (schedule, run).  A timer beside a  *)
(* run would fire into it and be lost.                                     *)
NextRun ==
  /\ Running => timer = 0
  /\ ~Running => poked = 0
  /\ auth = "ok" /\ signing = "none" => Running \/ timer # 0

(* The client kept is one of the token on disk: no request is begun as     *)
(* whoever was signed in before (signIn, signOut, expire).                 *)
ClientIsCurrent == cached \in {0, token}

(* A change made here waits for a run that has yet to look at the outbox,  *)
(* or for one that comes at once, never for the next poll (schedule).      *)
PokeHonoured ==
  fresh /\ auth = "ok" /\ signing = "none" =>
    \/ timer = Soon
    \/ poked = Soon
    \/ run \in {"profile", "pages", "finish", "poll", "drain"}

(* After a run that failed, or that had no client, the next one comes      *)
(* within 30 s and does not wait for the poll (runOnce, run).              *)
RetriesSoon ==
  failed /\ auth = "ok" /\ signing = "none" /\ ~Running => timer \in {Soon, Retry}

(* An account that is live for the first time has the mail of its whole   *)
(* backfill, however often runs failed, the process restarted or the       *)
(* watermark expired on the way (runOnce, backfill).                       *)
LiveIsWholeAtFirst == lastToken <= 1 /\ sync = "live" => landed = 1 .. Pages

(* A change made here reaches Gmail, or the account is signed out, across  *)
(* failed runs, refusals of the Keychain and restarts.                     *)
Delivered == open ~> (~open \/ auth # "ok")

-----------------------------------------------------------------------------
(* What the comments of the code promise and the code does not keep.       *)

(* A backfill that was stopped goes on where it was, until its last page:  *)
(* an account that is live and not being read has all of it (backfill,     *)
(* signIn).                                                                *)
LiveIsWhole == sync = "live" /\ ~Running => landed = 1 .. Pages

(* An account is taken for expired only when its refresh token is dead     *)
(* ("invalid_grant: the refresh token is dead", auth-state.ts:9).  A run,  *)
(* a send or a fetch may hold the client of an older token, die with it    *)
(* and take the new sign-in along (sync.ts:203, accounts.ts:131).          *)
OnlyTheDeadExpire ==
  [][auth = "ok" /\ auth' = "expired" => token \in dead]_vars
=============================================================================
