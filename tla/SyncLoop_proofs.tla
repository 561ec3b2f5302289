-------------------------- MODULE SyncLoop_proofs --------------------------
(***************************************************************************)
(* Theorems about the sync loop, for any number of pages, sign-ins,        *)
(* changes and faults.                                                     *)
(***************************************************************************)
EXTENDS SyncLoop, TLAPS

(* A sign-in is for an account that is not signed in, until it succeeds. *)
FlowIsForOthers == signing = "flow" => auth # "ok"

(* What is fresh is in the outbox, and a run has not failed yet. *)
RunHistory ==
  /\ fresh => open
  /\ Running => ~failed

(* The pages behind the cursor have been read, all of them at the end, and *)
(* no watermark is older than the first sign-in.                           *)
PagesBehind ==
  /\ \A p \in 1 .. cursor : p \in landed
  /\ run = "finish" => landed = 1 .. Pages
  /\ history => lastToken > 0

IInv ==
  /\ TypeOK
  /\ FlowIsForOthers
  /\ RunHistory
  /\ PagesBehind
  /\ NextRun
  /\ ClientIsCurrent
  /\ PokeHonoured
  /\ RetriesSoon
  /\ LiveIsWholeAtFirst

(* The initial states satisfy the invariant. *)
LEMMA InitIInv == Init => IInv
<1> SUFFICES ASSUME Init PROVE IInv
  OBVIOUS
<1> USE SyncLoopAssumption DEF Running
<1>1. /\ dead \subseteq 1 .. lastToken
      /\ landed \subseteq 1 .. Pages
  BY DEF Init
<1>2. TypeOK
  <2>1. cursor \in 0 .. Pages - 1 /\ changes \in 0 .. MaxChanges /\ faults \in 0 .. MaxFaults
    BY DEF Init
  <2>2. /\ lastToken \in 0 .. MaxTokens
        /\ token \in 0 .. lastToken /\ cached \in 0 .. lastToken
        /\ held \in 0 .. lastToken /\ other \in 0 .. lastToken
    BY DEF Init
  <2>3. history \in BOOLEAN /\ keychain \in BOOLEAN /\ open \in BOOLEAN /\ fresh \in BOOLEAN /\ failed \in BOOLEAN
    BY DEF Init
  <2>4. Running <=> held # 0
    BY DEF Init
  <2>5. /\ auth \in {"ok", "expired", "signed_out"} /\ sync \in {"new", "backfill", "live", "reauth"}
        /\ signing \in {"none", "flow", "owners"} /\ auth # "ok"
    BY DEF Init
  <2>6. run \in Phases /\ timer \in 0 .. Poll /\ poked \in 0 .. Poll
    BY DEF Init, Phases, Poll
  <2>7. QED
    BY <1>1, <2>1, <2>2, <2>3, <2>4, <2>5, <2>6 DEF TypeOK
<1>3. PagesBehind
  BY DEF Init, PagesBehind
<1>4. QED
  BY <1>2, <1>3 DEF Init, IInv, FlowIsForOthers, RunHistory, NextRun, ClientIsCurrent, PokeHonoured, RetriesSoon,
     LiveIsWholeAtFirst

(* Every step preserves the invariant. *)
LEMMA StepIInv == IInv /\ [Next]_vars => IInv'
<1> SUFFICES ASSUME IInv, [Next]_vars PROVE IInv'
  OBVIOUS
<1> USE SyncLoopAssumption DEF account, tokens, loop, outbox, Running, Phases, Soon, Retry, Poll
<1>1. CASE FireInVain
  <2>1. TypeOK'
    BY <1>1 DEF IInv, TypeOK, NextRun, FireInVain
  <2>2. /\ FlowIsForOthers'
        /\ RunHistory'
        /\ NextRun'
        /\ ClientIsCurrent'
    BY <1>1 DEF IInv, TypeOK, FlowIsForOthers, RunHistory, NextRun, ClientIsCurrent, FireInVain
  <2>3. /\ PokeHonoured'
        /\ RetriesSoon'
    BY <1>1 DEF IInv, TypeOK, FlowIsForOthers, RunHistory, NextRun, PokeHonoured, RetriesSoon, FireInVain
  <2>4. /\ PagesBehind'
        /\ LiveIsWholeAtFirst'
    BY <1>1 DEF IInv, TypeOK, PagesBehind, LiveIsWholeAtFirst, FireInVain
  <2>5. QED
    BY <2>1, <2>2, <2>3, <2>4 DEF IInv
<1>2. CASE FireRefused
  <2>1. TypeOK'
    <3>1. timer' = 2
      BY <1>2 DEF IInv, NextRun, FireRefused, RunOver, Timed, NextDelay, AskedFor, Remembered
    <3>2. /\ auth' \in {"ok", "expired", "signed_out"}
          /\ sync' \in {"new", "backfill", "live", "reauth"}
          /\ history' \in BOOLEAN /\ keychain' \in BOOLEAN
          /\ cursor' \in 0 .. Pages - 1
          /\ landed' \subseteq 1 .. Pages
          /\ changes' \in 0 .. MaxChanges
      BY <1>2 DEF IInv, TypeOK, FireRefused
    <3>3. /\ lastToken' \in 0 .. MaxTokens
          /\ token' \in 0 .. lastToken' /\ cached' \in 0 .. lastToken'
          /\ held' \in 0 .. lastToken' /\ other' \in 0 .. lastToken'
          /\ dead' \subseteq 1 .. lastToken'
      BY <1>2 DEF IInv, TypeOK, FireRefused, RunOver
    <3>4. Running' <=> held' # 0
      BY <1>2 DEF FireRefused, RunOver
    <3>5. /\ open' \in BOOLEAN /\ fresh' \in BOOLEAN /\ failed' \in BOOLEAN
          /\ signing' \in {"none", "flow", "owners"}
      BY <1>2 DEF IInv, TypeOK, FireRefused, RunOver
    <3>6. run' \in Phases /\ timer' \in 0 .. Poll /\ poked' \in 0 .. Poll
      BY <1>2, <3>1 DEF FireRefused, RunOver
    <3>7. faults' \in 0 .. MaxFaults /\ (auth' = "ok" => token' # 0)
      BY <1>2, <3>1 DEF IInv, TypeOK, FireRefused, RunOver
    <3>8. QED
      BY <3>2, <3>3, <3>4, <3>5, <3>6, <3>7 DEF TypeOK
  <2>2. /\ FlowIsForOthers'
        /\ RunHistory'
        /\ NextRun'
        /\ ClientIsCurrent'
    BY <1>2 DEF IInv, TypeOK, FlowIsForOthers, RunHistory, NextRun, ClientIsCurrent, FireRefused, Client, RunOver, Timed, NextDelay, AskedFor, Remembered
  <2>3. /\ PokeHonoured'
        /\ RetriesSoon'
    BY <1>2 DEF IInv, TypeOK, FlowIsForOthers, RunHistory, NextRun, PokeHonoured, RetriesSoon, FireRefused, Client, RunOver, Timed, NextDelay, AskedFor, Remembered
  <2>4. /\ PagesBehind'
        /\ LiveIsWholeAtFirst'
    BY <1>2 DEF IInv, TypeOK, PagesBehind, LiveIsWholeAtFirst, FireRefused, Client, RunOver, Timed, NextDelay, AskedFor, Remembered
  <2>5. QED
    BY <2>1, <2>2, <2>3, <2>4 DEF IInv
<1>3. CASE Fire
  <2>1. TypeOK'
    BY <1>3 DEF IInv, TypeOK, NextRun, Fire, Client, NeedsBackfill
  <2>2. /\ FlowIsForOthers'
        /\ RunHistory'
        /\ NextRun'
        /\ ClientIsCurrent'
    BY <1>3 DEF IInv, TypeOK, FlowIsForOthers, RunHistory, NextRun, ClientIsCurrent, Fire, Client, NeedsBackfill
  <2>3. /\ PokeHonoured'
        /\ RetriesSoon'
    BY <1>3 DEF IInv, TypeOK, FlowIsForOthers, RunHistory, NextRun, PokeHonoured, RetriesSoon, Fire, Client, NeedsBackfill
  <2>4. /\ PagesBehind'
        /\ LiveIsWholeAtFirst'
    BY <1>3 DEF IInv, TypeOK, PagesBehind, LiveIsWholeAtFirst, Fire, Client, NeedsBackfill
  <2>5. QED
    BY <2>1, <2>2, <2>3, <2>4 DEF IInv
<1>4. CASE Profile
  <2>1. TypeOK'
    BY <1>4 DEF IInv, TypeOK, NextRun, Profile
  <2>2. /\ FlowIsForOthers'
        /\ RunHistory'
        /\ NextRun'
        /\ ClientIsCurrent'
    BY <1>4 DEF IInv, TypeOK, FlowIsForOthers, RunHistory, NextRun, ClientIsCurrent, Profile
  <2>3. /\ PokeHonoured'
        /\ RetriesSoon'
    BY <1>4 DEF IInv, TypeOK, FlowIsForOthers, RunHistory, NextRun, PokeHonoured, RetriesSoon, Profile
  <2>4. /\ PagesBehind'
        /\ LiveIsWholeAtFirst'
    BY <1>4 DEF IInv, TypeOK, PagesBehind, LiveIsWholeAtFirst, Profile
  <2>5. QED
    BY <2>1, <2>2, <2>3, <2>4 DEF IInv
<1>5. CASE LandPage
  <2>1. TypeOK'
    BY <1>5 DEF IInv, TypeOK, NextRun, LandPage, NextCursor
  <2>2. /\ FlowIsForOthers'
        /\ RunHistory'
        /\ NextRun'
        /\ ClientIsCurrent'
    BY <1>5 DEF IInv, TypeOK, FlowIsForOthers, RunHistory, NextRun, ClientIsCurrent, LandPage, NextCursor
  <2>3. /\ PokeHonoured'
        /\ RetriesSoon'
    BY <1>5 DEF IInv, TypeOK, FlowIsForOthers, RunHistory, NextRun, PokeHonoured, RetriesSoon, LandPage, NextCursor
  <2>4. /\ PagesBehind'
        /\ LiveIsWholeAtFirst'
    <3>1. \A p \in 1 .. cursor + 1 : p \in landed'
      BY <1>5 DEF IInv, TypeOK, PagesBehind, LandPage
    <3>2. landed' \subseteq 1 .. Pages
      BY <2>1 DEF TypeOK
    <3>3. run' = "finish" => landed' = 1 .. Pages
      <4>1. run' = "finish" => cursor + 1 = Pages
        BY <1>5 DEF IInv, TypeOK, LandPage, NextCursor
      <4>2. QED
        BY <3>1, <3>2, <4>1
    <3>4. \A p \in 1 .. cursor' : p \in landed'
      BY <1>5, <3>1 DEF IInv, TypeOK, LandPage, NextCursor
    <3>5. landed = 1 .. Pages => landed' = 1 .. Pages
      BY <1>5, <3>2 DEF LandPage
    <3>6. QED
      BY <1>5, <3>3, <3>4, <3>5 DEF IInv, PagesBehind, LiveIsWholeAtFirst, LandPage
  <2>5. QED
    BY <2>1, <2>2, <2>3, <2>4 DEF IInv
<1>6. CASE FinishBackfill
  <2>1. TypeOK'
    BY <1>6 DEF IInv, TypeOK, NextRun, FinishBackfill
  <2>2. /\ FlowIsForOthers'
        /\ RunHistory'
        /\ NextRun'
        /\ ClientIsCurrent'
    BY <1>6 DEF IInv, TypeOK, FlowIsForOthers, RunHistory, NextRun, ClientIsCurrent, FinishBackfill
  <2>3. /\ PokeHonoured'
        /\ RetriesSoon'
    BY <1>6 DEF IInv, TypeOK, FlowIsForOthers, RunHistory, NextRun, PokeHonoured, RetriesSoon, FinishBackfill
  <2>4. /\ PagesBehind'
        /\ LiveIsWholeAtFirst'
    BY <1>6 DEF IInv, TypeOK, PagesBehind, LiveIsWholeAtFirst, FinishBackfill
  <2>5. QED
    BY <2>1, <2>2, <2>3, <2>4 DEF IInv
<1>7. CASE LandPoll
  <2>1. TypeOK'
    BY <1>7 DEF IInv, TypeOK, NextRun, LandPoll
  <2>2. /\ FlowIsForOthers'
        /\ RunHistory'
        /\ NextRun'
        /\ ClientIsCurrent'
    BY <1>7 DEF IInv, TypeOK, FlowIsForOthers, RunHistory, NextRun, ClientIsCurrent, LandPoll
  <2>3. /\ PokeHonoured'
        /\ RetriesSoon'
    BY <1>7 DEF IInv, TypeOK, FlowIsForOthers, RunHistory, NextRun, PokeHonoured, RetriesSoon, LandPoll
  <2>4. /\ PagesBehind'
        /\ LiveIsWholeAtFirst'
    BY <1>7 DEF IInv, TypeOK, PagesBehind, LiveIsWholeAtFirst, LandPoll
  <2>5. QED
    BY <2>1, <2>2, <2>3, <2>4 DEF IInv
<1>8. CASE DrainRow
  <2>1. TypeOK'
    BY <1>8 DEF IInv, TypeOK, NextRun, DrainRow
  <2>2. /\ FlowIsForOthers'
        /\ RunHistory'
        /\ NextRun'
        /\ ClientIsCurrent'
    BY <1>8 DEF IInv, TypeOK, FlowIsForOthers, RunHistory, NextRun, ClientIsCurrent, DrainRow
  <2>3. /\ PokeHonoured'
        /\ RetriesSoon'
    BY <1>8 DEF IInv, TypeOK, FlowIsForOthers, RunHistory, NextRun, PokeHonoured, RetriesSoon, DrainRow
  <2>4. /\ PagesBehind'
        /\ LiveIsWholeAtFirst'
    BY <1>8 DEF IInv, TypeOK, PagesBehind, LiveIsWholeAtFirst, DrainRow
  <2>5. QED
    BY <2>1, <2>2, <2>3, <2>4 DEF IInv
<1>9. CASE DrainEnds
  <2>1. TypeOK'
    BY <1>9 DEF IInv, TypeOK, NextRun, DrainEnds
  <2>2. /\ FlowIsForOthers'
        /\ RunHistory'
        /\ NextRun'
        /\ ClientIsCurrent'
    BY <1>9 DEF IInv, TypeOK, FlowIsForOthers, RunHistory, NextRun, ClientIsCurrent, DrainEnds
  <2>3. /\ PokeHonoured'
        /\ RetriesSoon'
    BY <1>9 DEF IInv, TypeOK, FlowIsForOthers, RunHistory, NextRun, PokeHonoured, RetriesSoon, DrainEnds
  <2>4. /\ PagesBehind'
        /\ LiveIsWholeAtFirst'
    BY <1>9 DEF IInv, TypeOK, PagesBehind, LiveIsWholeAtFirst, DrainEnds
  <2>5. QED
    BY <2>1, <2>2, <2>3, <2>4 DEF IInv
<1>10. CASE RunEnds
  <2>1. TypeOK'
    BY <1>10 DEF IInv, TypeOK, NextRun, RunEnds, RunOver, Timed, NextDelay
  <2>2. /\ FlowIsForOthers'
        /\ RunHistory'
        /\ NextRun'
        /\ ClientIsCurrent'
    BY <1>10 DEF IInv, TypeOK, FlowIsForOthers, RunHistory, NextRun, ClientIsCurrent, RunEnds, RunOver, Timed, NextDelay
  <2>3. /\ PokeHonoured'
        /\ RetriesSoon'
    BY <1>10 DEF IInv, TypeOK, FlowIsForOthers, RunHistory, NextRun, PokeHonoured, RetriesSoon, RunEnds, RunOver, Timed, NextDelay
  <2>4. /\ PagesBehind'
        /\ LiveIsWholeAtFirst'
    BY <1>10 DEF IInv, TypeOK, PagesBehind, LiveIsWholeAtFirst, RunEnds, RunOver, Timed, NextDelay
  <2>5. QED
    BY <2>1, <2>2, <2>3, <2>4 DEF IInv
<1>11. CASE RunExpires
  <2>1. TypeOK'
    BY <1>11 DEF IInv, TypeOK, NextRun, RunExpires, InvalidGrant, Expire, RunOver, Timed
  <2>2. /\ FlowIsForOthers'
        /\ RunHistory'
        /\ NextRun'
        /\ ClientIsCurrent'
    BY <1>11 DEF IInv, TypeOK, FlowIsForOthers, RunHistory, NextRun, ClientIsCurrent, RunExpires, InvalidGrant, Expire, RunOver, Timed
  <2>3. /\ PokeHonoured'
        /\ RetriesSoon'
    BY <1>11 DEF IInv, TypeOK, FlowIsForOthers, RunHistory, NextRun, PokeHonoured, RetriesSoon, RunExpires, InvalidGrant, Expire, RunOver, Timed
  <2>4. /\ PagesBehind'
        /\ LiveIsWholeAtFirst'
    BY <1>11 DEF IInv, TypeOK, PagesBehind, LiveIsWholeAtFirst, RunExpires, InvalidGrant, Expire, RunOver, Timed
  <2>5. QED
    BY <2>1, <2>2, <2>3, <2>4 DEF IInv
<1>12. CASE OtherAsks
  <2>1. TypeOK'
    BY <1>12 DEF IInv, TypeOK, NextRun, OtherAsks, Client
  <2>2. /\ FlowIsForOthers'
        /\ RunHistory'
        /\ NextRun'
        /\ ClientIsCurrent'
    BY <1>12 DEF IInv, TypeOK, FlowIsForOthers, RunHistory, NextRun, ClientIsCurrent, OtherAsks, Client
  <2>3. /\ PokeHonoured'
        /\ RetriesSoon'
    BY <1>12 DEF IInv, TypeOK, FlowIsForOthers, RunHistory, NextRun, PokeHonoured, RetriesSoon, OtherAsks, Client
  <2>4. /\ PagesBehind'
        /\ LiveIsWholeAtFirst'
    BY <1>12 DEF IInv, TypeOK, PagesBehind, LiveIsWholeAtFirst, OtherAsks, Client
  <2>5. QED
    BY <2>1, <2>2, <2>3, <2>4 DEF IInv
<1>13. CASE OtherDone
  <2>1. TypeOK'
    BY <1>13 DEF IInv, TypeOK, NextRun, OtherDone
  <2>2. /\ FlowIsForOthers'
        /\ RunHistory'
        /\ NextRun'
        /\ ClientIsCurrent'
    BY <1>13 DEF IInv, TypeOK, FlowIsForOthers, RunHistory, NextRun, ClientIsCurrent, OtherDone
  <2>3. /\ PokeHonoured'
        /\ RetriesSoon'
    BY <1>13 DEF IInv, TypeOK, FlowIsForOthers, RunHistory, NextRun, PokeHonoured, RetriesSoon, OtherDone
  <2>4. /\ PagesBehind'
        /\ LiveIsWholeAtFirst'
    BY <1>13 DEF IInv, TypeOK, PagesBehind, LiveIsWholeAtFirst, OtherDone
  <2>5. QED
    BY <2>1, <2>2, <2>3, <2>4 DEF IInv
<1>14. CASE OtherExpires
  <2>1. TypeOK'
    BY <1>14 DEF IInv, TypeOK, NextRun, OtherExpires, InvalidGrant, Expire
  <2>2. /\ FlowIsForOthers'
        /\ RunHistory'
        /\ NextRun'
        /\ ClientIsCurrent'
    BY <1>14 DEF IInv, TypeOK, FlowIsForOthers, RunHistory, NextRun, ClientIsCurrent, OtherExpires, InvalidGrant, Expire
  <2>3. /\ PokeHonoured'
        /\ RetriesSoon'
    BY <1>14 DEF IInv, TypeOK, FlowIsForOthers, RunHistory, NextRun, PokeHonoured, RetriesSoon, OtherExpires, InvalidGrant, Expire
  <2>4. /\ PagesBehind'
        /\ LiveIsWholeAtFirst'
    BY <1>14 DEF IInv, TypeOK, PagesBehind, LiveIsWholeAtFirst, OtherExpires, InvalidGrant, Expire
  <2>5. QED
    BY <2>1, <2>2, <2>3, <2>4 DEF IInv
<1>15. CASE SignIn
  <2>1. TypeOK'
    BY <1>15 DEF IInv, TypeOK, NextRun, SignIn
  <2>2. /\ FlowIsForOthers'
        /\ RunHistory'
        /\ NextRun'
        /\ ClientIsCurrent'
    BY <1>15 DEF IInv, TypeOK, FlowIsForOthers, RunHistory, NextRun, ClientIsCurrent, SignIn
  <2>3. /\ PokeHonoured'
        /\ RetriesSoon'
    BY <1>15 DEF IInv, TypeOK, FlowIsForOthers, RunHistory, NextRun, PokeHonoured, RetriesSoon, SignIn
  <2>4. /\ PagesBehind'
        /\ LiveIsWholeAtFirst'
    BY <1>15 DEF IInv, TypeOK, PagesBehind, LiveIsWholeAtFirst, SignIn
  <2>5. QED
    BY <2>1, <2>2, <2>3, <2>4 DEF IInv
<1>16. CASE SignInFails
  <2>1. TypeOK'
    BY <1>16 DEF IInv, TypeOK, NextRun, SignInFails
  <2>2. /\ FlowIsForOthers'
        /\ RunHistory'
        /\ NextRun'
        /\ ClientIsCurrent'
    BY <1>16 DEF IInv, TypeOK, FlowIsForOthers, RunHistory, NextRun, ClientIsCurrent, SignInFails
  <2>3. /\ PokeHonoured'
        /\ RetriesSoon'
    BY <1>16 DEF IInv, TypeOK, FlowIsForOthers, RunHistory, NextRun, PokeHonoured, RetriesSoon, SignInFails
  <2>4. /\ PagesBehind'
        /\ LiveIsWholeAtFirst'
    BY <1>16 DEF IInv, TypeOK, PagesBehind, LiveIsWholeAtFirst, SignInFails
  <2>5. QED
    BY <2>1, <2>2, <2>3, <2>4 DEF IInv
<1>17. CASE SignedIn
  <2>1. TypeOK'
    BY <1>17 DEF IInv, TypeOK, NextRun, SignedIn, FreshClient
  <2>2. /\ FlowIsForOthers'
        /\ RunHistory'
        /\ NextRun'
        /\ ClientIsCurrent'
    BY <1>17 DEF IInv, TypeOK, FlowIsForOthers, RunHistory, NextRun, ClientIsCurrent, SignedIn, FreshClient
  <2>3. /\ PokeHonoured'
        /\ RetriesSoon'
    BY <1>17 DEF IInv, TypeOK, FlowIsForOthers, RunHistory, NextRun, PokeHonoured, RetriesSoon, SignedIn, FreshClient
  <2>4. /\ PagesBehind'
        /\ LiveIsWholeAtFirst'
    BY <1>17 DEF IInv, TypeOK, PagesBehind, LiveIsWholeAtFirst, SignedIn, FreshClient
  <2>5. QED
    BY <2>1, <2>2, <2>3, <2>4 DEF IInv
<1>18. CASE OwnersRead
  <2>1. TypeOK'
    BY <1>18 DEF IInv, TypeOK, NextRun, OwnersRead, Schedule, Remembered
  <2>2. /\ FlowIsForOthers'
        /\ RunHistory'
        /\ NextRun'
        /\ ClientIsCurrent'
    BY <1>18 DEF IInv, TypeOK, FlowIsForOthers, RunHistory, NextRun, ClientIsCurrent, OwnersRead, Schedule, Remembered
  <2>3. /\ PokeHonoured'
        /\ RetriesSoon'
    BY <1>18 DEF IInv, TypeOK, FlowIsForOthers, RunHistory, NextRun, PokeHonoured, RetriesSoon, OwnersRead, Schedule, Remembered
  <2>4. /\ PagesBehind'
        /\ LiveIsWholeAtFirst'
    BY <1>18 DEF IInv, TypeOK, PagesBehind, LiveIsWholeAtFirst, OwnersRead, Schedule, Remembered
  <2>5. QED
    BY <2>1, <2>2, <2>3, <2>4 DEF IInv
<1>19. CASE SignOut
  <2>1. TypeOK'
    BY <1>19 DEF IInv, TypeOK, NextRun, SignOut
  <2>2. /\ FlowIsForOthers'
        /\ RunHistory'
        /\ NextRun'
        /\ ClientIsCurrent'
    BY <1>19 DEF IInv, TypeOK, FlowIsForOthers, RunHistory, NextRun, ClientIsCurrent, SignOut
  <2>3. /\ PokeHonoured'
        /\ RetriesSoon'
    BY <1>19 DEF IInv, TypeOK, FlowIsForOthers, RunHistory, NextRun, PokeHonoured, RetriesSoon, SignOut
  <2>4. /\ PagesBehind'
        /\ LiveIsWholeAtFirst'
    BY <1>19 DEF IInv, TypeOK, PagesBehind, LiveIsWholeAtFirst, SignOut
  <2>5. QED
    BY <2>1, <2>2, <2>3, <2>4 DEF IInv
<1>20. CASE Revoke
  <2>1. TypeOK'
    BY <1>20 DEF IInv, TypeOK, NextRun, Revoke
  <2>2. /\ FlowIsForOthers'
        /\ RunHistory'
        /\ NextRun'
        /\ ClientIsCurrent'
    BY <1>20 DEF IInv, TypeOK, FlowIsForOthers, RunHistory, NextRun, ClientIsCurrent, Revoke
  <2>3. /\ PokeHonoured'
        /\ RetriesSoon'
    BY <1>20 DEF IInv, TypeOK, FlowIsForOthers, RunHistory, NextRun, PokeHonoured, RetriesSoon, Revoke
  <2>4. /\ PagesBehind'
        /\ LiveIsWholeAtFirst'
    BY <1>20 DEF IInv, TypeOK, PagesBehind, LiveIsWholeAtFirst, Revoke
  <2>5. QED
    BY <2>1, <2>2, <2>3, <2>4 DEF IInv
<1>21. CASE KeychainRefuses
  <2>1. TypeOK'
    <3>1. faults' \in 0 .. MaxFaults
      BY <1>21 DEF IInv, TypeOK, KeychainRefuses, Fault
    <3>2. /\ auth' = auth /\ sync' = sync /\ history' = history /\ cursor' = cursor /\ token' = token
          /\ lastToken' = lastToken /\ dead' = dead /\ cached' = cached /\ timer' = timer /\ poked' = poked
          /\ run' = run /\ held' = held /\ other' = other /\ signing' = signing /\ open' = open
          /\ fresh' = fresh /\ failed' = failed /\ landed' = landed /\ changes' = changes
          /\ keychain' = FALSE
      BY <1>21 DEF KeychainRefuses, account, loop, outbox
    <3>3. TypeOK
      BY DEF IInv
    <3>4. /\ auth' \in {"ok", "expired", "signed_out"}
          /\ sync' \in {"new", "backfill", "live", "reauth"}
          /\ run' \in Phases
          /\ (run' # "idle") <=> (held' # 0)
          /\ signing' \in {"none", "flow", "owners"}
          /\ auth' = "ok" => token' # 0
      BY <3>2, <3>3, Zenon DEF TypeOK, Running
    <3>4a. /\ history' \in BOOLEAN /\ keychain' \in BOOLEAN
           /\ open' \in BOOLEAN /\ fresh' \in BOOLEAN /\ failed' \in BOOLEAN
      BY <3>2, <3>3, Zenon DEF TypeOK
    <3>5. /\ cursor' \in 0 .. Pages - 1
          /\ lastToken' \in 0 .. MaxTokens
          /\ token' \in 0 .. lastToken' /\ cached' \in 0 .. lastToken'
          /\ held' \in 0 .. lastToken' /\ other' \in 0 .. lastToken'
          /\ dead' \subseteq 1 .. lastToken'
          /\ timer' \in 0 .. Poll /\ poked' \in 0 .. Poll
          /\ landed' \subseteq 1 .. Pages
          /\ changes' \in 0 .. MaxChanges
      BY <3>2, <3>3 DEF TypeOK
    <3>6. QED
      BY <3>1, <3>4, <3>4a, <3>5 DEF TypeOK, Running
  <2>2. /\ FlowIsForOthers'
        /\ RunHistory'
        /\ NextRun'
        /\ ClientIsCurrent'
    BY <1>21 DEF IInv, TypeOK, FlowIsForOthers, RunHistory, NextRun, ClientIsCurrent, KeychainRefuses, Fault
  <2>3. /\ PokeHonoured'
        /\ RetriesSoon'
    BY <1>21 DEF IInv, TypeOK, FlowIsForOthers, RunHistory, NextRun, PokeHonoured, RetriesSoon, KeychainRefuses, Fault
  <2>4. /\ PagesBehind'
        /\ LiveIsWholeAtFirst'
    BY <1>21 DEF IInv, TypeOK, PagesBehind, LiveIsWholeAtFirst, KeychainRefuses, Fault
  <2>5. QED
    BY <2>1, <2>2, <2>3, <2>4 DEF IInv
<1>22. CASE KeychainAnswers
  <2>1. TypeOK'
    BY <1>22 DEF IInv, TypeOK, NextRun, KeychainAnswers
  <2>2. /\ FlowIsForOthers'
        /\ RunHistory'
        /\ NextRun'
        /\ ClientIsCurrent'
    BY <1>22 DEF IInv, TypeOK, FlowIsForOthers, RunHistory, NextRun, ClientIsCurrent, KeychainAnswers
  <2>3. /\ PokeHonoured'
        /\ RetriesSoon'
    BY <1>22 DEF IInv, TypeOK, FlowIsForOthers, RunHistory, NextRun, PokeHonoured, RetriesSoon, KeychainAnswers
  <2>4. /\ PagesBehind'
        /\ LiveIsWholeAtFirst'
    BY <1>22 DEF IInv, TypeOK, PagesBehind, LiveIsWholeAtFirst, KeychainAnswers
  <2>5. QED
    BY <2>1, <2>2, <2>3, <2>4 DEF IInv
<1>23. CASE PollExpired
  <2>1. TypeOK'
    BY <1>23 DEF IInv, TypeOK, NextRun, PollExpired, Fault
  <2>2. /\ FlowIsForOthers'
        /\ RunHistory'
        /\ NextRun'
        /\ ClientIsCurrent'
    BY <1>23 DEF IInv, TypeOK, FlowIsForOthers, RunHistory, NextRun, ClientIsCurrent, PollExpired, Fault
  <2>3. /\ PokeHonoured'
        /\ RetriesSoon'
    BY <1>23 DEF IInv, TypeOK, FlowIsForOthers, RunHistory, NextRun, PokeHonoured, RetriesSoon, PollExpired, Fault
  <2>4. /\ PagesBehind'
        /\ LiveIsWholeAtFirst'
    BY <1>23 DEF IInv, TypeOK, PagesBehind, LiveIsWholeAtFirst, PollExpired, Fault
  <2>5. QED
    BY <2>1, <2>2, <2>3, <2>4 DEF IInv
<1>24. CASE DrainStops
  <2>1. TypeOK'
    <3>1. faults' \in 0 .. MaxFaults
      BY <1>24 DEF IInv, TypeOK, DrainStops, Fault
    <3>2. QED
      BY <1>24, <3>1 DEF IInv, TypeOK, NextRun, DrainStops
  <2>2. /\ FlowIsForOthers'
        /\ RunHistory'
        /\ NextRun'
        /\ ClientIsCurrent'
    BY <1>24 DEF IInv, TypeOK, FlowIsForOthers, RunHistory, NextRun, ClientIsCurrent, DrainStops, Fault
  <2>3. /\ PokeHonoured'
        /\ RetriesSoon'
    BY <1>24 DEF IInv, TypeOK, FlowIsForOthers, RunHistory, NextRun, PokeHonoured, RetriesSoon, DrainStops, Fault
  <2>4. /\ PagesBehind'
        /\ LiveIsWholeAtFirst'
    BY <1>24 DEF IInv, TypeOK, PagesBehind, LiveIsWholeAtFirst, DrainStops, Fault
  <2>5. QED
    BY <2>1, <2>2, <2>3, <2>4 DEF IInv
<1>25. CASE RunFails
  <2>1. TypeOK'
    BY <1>25 DEF IInv, TypeOK, NextRun, RunFails, Fault, RunOver, Timed, NextDelay, AskedFor, Remembered, FailedCursor
  <2>2. /\ FlowIsForOthers'
        /\ RunHistory'
        /\ NextRun'
        /\ ClientIsCurrent'
    BY <1>25 DEF IInv, TypeOK, FlowIsForOthers, RunHistory, NextRun, ClientIsCurrent, RunFails, Fault, RunOver, Timed, NextDelay, AskedFor, Remembered, FailedCursor
  <2>3. /\ PokeHonoured'
        /\ RetriesSoon'
    BY <1>25 DEF IInv, TypeOK, FlowIsForOthers, RunHistory, NextRun, PokeHonoured, RetriesSoon, RunFails, Fault, RunOver, Timed, NextDelay, AskedFor, Remembered, FailedCursor
  <2>4. /\ PagesBehind'
        /\ LiveIsWholeAtFirst'
    BY <1>25 DEF IInv, TypeOK, PagesBehind, LiveIsWholeAtFirst, RunFails, Fault, RunOver, Timed, NextDelay, AskedFor, Remembered, FailedCursor
  <2>5. QED
    BY <2>1, <2>2, <2>3, <2>4 DEF IInv
<1>26. CASE Change
  <2>1. TypeOK'
    BY <1>26 DEF IInv, TypeOK, NextRun, Change, Schedule, Remembered
  <2>2. /\ FlowIsForOthers'
        /\ RunHistory'
        /\ NextRun'
        /\ ClientIsCurrent'
    BY <1>26 DEF IInv, TypeOK, FlowIsForOthers, RunHistory, NextRun, ClientIsCurrent, Change, Schedule, Remembered
  <2>3. /\ PokeHonoured'
        /\ RetriesSoon'
    BY <1>26 DEF IInv, TypeOK, FlowIsForOthers, RunHistory, NextRun, PokeHonoured, RetriesSoon, Change, Schedule, Remembered
  <2>4. /\ PagesBehind'
        /\ LiveIsWholeAtFirst'
    BY <1>26 DEF IInv, TypeOK, PagesBehind, LiveIsWholeAtFirst, Change, Schedule, Remembered
  <2>5. QED
    BY <2>1, <2>2, <2>3, <2>4 DEF IInv
<1>27. CASE Wake
  <2>1. TypeOK'
    BY <1>27 DEF IInv, TypeOK, NextRun, Wake, Schedule, Remembered
  <2>2. /\ FlowIsForOthers'
        /\ RunHistory'
        /\ NextRun'
        /\ ClientIsCurrent'
    BY <1>27 DEF IInv, TypeOK, FlowIsForOthers, RunHistory, NextRun, ClientIsCurrent, Wake, Schedule, Remembered
  <2>3. /\ PokeHonoured'
        /\ RetriesSoon'
    BY <1>27 DEF IInv, TypeOK, FlowIsForOthers, RunHistory, NextRun, PokeHonoured, RetriesSoon, Wake, Schedule, Remembered
  <2>4. /\ PagesBehind'
        /\ LiveIsWholeAtFirst'
    BY <1>27 DEF IInv, TypeOK, PagesBehind, LiveIsWholeAtFirst, Wake, Schedule, Remembered
  <2>5. QED
    BY <2>1, <2>2, <2>3, <2>4 DEF IInv
<1>28. CASE Restart
  <2>1. TypeOK'
    <3>1. faults' \in 0 .. MaxFaults
      BY <1>28 DEF IInv, TypeOK, Restart, Fault
    <3>2. /\ auth' \in {"ok", "expired", "signed_out"}
          /\ sync' \in {"new", "backfill", "live", "reauth"}
          /\ history' \in BOOLEAN /\ keychain' \in BOOLEAN
          /\ cursor' \in 0 .. Pages - 1
          /\ landed' \subseteq 1 .. Pages
          /\ changes' \in 0 .. MaxChanges
      BY <1>28 DEF IInv, TypeOK, Restart
    <3>3. /\ lastToken' \in 0 .. MaxTokens
          /\ token' \in 0 .. lastToken' /\ cached' \in 0 .. lastToken'
          /\ held' \in 0 .. lastToken' /\ other' \in 0 .. lastToken'
          /\ dead' \subseteq 1 .. lastToken'
      BY <1>28 DEF IInv, TypeOK, Restart
    <3>4. Running' <=> held' # 0
      BY <1>28 DEF Restart
    <3>5. /\ open' \in BOOLEAN /\ fresh' \in BOOLEAN /\ failed' \in BOOLEAN
          /\ signing' \in {"none", "flow", "owners"}
      BY <1>28 DEF IInv, TypeOK, Restart
    <3>6. run' \in Phases /\ timer' \in 0 .. Poll /\ poked' \in 0 .. Poll
      BY <1>28, <3>1 DEF Restart
    <3>7. faults' \in 0 .. MaxFaults /\ (auth' = "ok" => token' # 0)
      BY <1>28, <3>1 DEF IInv, TypeOK, Restart
    <3>8. QED
      BY <3>2, <3>3, <3>4, <3>5, <3>6, <3>7 DEF TypeOK
  <2>2. /\ FlowIsForOthers'
        /\ RunHistory'
        /\ NextRun'
        /\ ClientIsCurrent'
    BY <1>28 DEF IInv, TypeOK, FlowIsForOthers, RunHistory, NextRun, ClientIsCurrent, Restart, Fault
  <2>3. /\ PokeHonoured'
        /\ RetriesSoon'
    BY <1>28 DEF IInv, TypeOK, FlowIsForOthers, RunHistory, NextRun, PokeHonoured, RetriesSoon, Restart, Fault
  <2>4. /\ PagesBehind'
        /\ LiveIsWholeAtFirst'
    BY <1>28 DEF IInv, TypeOK, PagesBehind, LiveIsWholeAtFirst, Restart, Fault
  <2>5. QED
    BY <2>1, <2>2, <2>3, <2>4 DEF IInv
<1>29. CASE UNCHANGED vars
  BY <1>29 DEF IInv, TypeOK, FlowIsForOthers, RunHistory, PagesBehind, NextRun, ClientIsCurrent,
     PokeHonoured, RetriesSoon, LiveIsWholeAtFirst, vars
<1>30. QED
  BY <1>1, <1>2, <1>3, <1>4, <1>5, <1>6, <1>7, <1>8, <1>9, <1>10, <1>11, <1>12, <1>13, <1>14, <1>15, <1>16, <1>17, <1>18, <1>19, <1>20, <1>21, <1>22, <1>23, <1>24, <1>25, <1>26, <1>27, <1>28, <1>29 DEF Next, Steps, Auth

LEMMA Invariance == Spec => []IInv
<1>1. QED
  BY InitIInv, StepIInv, PTL DEF Spec

(* The variables have their types (SyncManager, AccountRegistry). *)
THEOREM TypeCorrect == Spec => []TypeOK
<1>1. IInv => TypeOK
  BY DEF IInv
<1>2. QED
  BY <1>1, Invariance, PTL

(* An account that is signed in has a run or a timer, never both           *)
(* (schedule, run).                                                        *)
THEOREM AlwaysTimed == Spec => []NextRun
<1>1. IInv => NextRun
  BY DEF IInv
<1>2. QED
  BY <1>1, Invariance, PTL

(* The client kept is one of the token on disk (signIn, signOut, expire). *)
THEOREM NoOldClient == Spec => []ClientIsCurrent
<1>1. IInv => ClientIsCurrent
  BY DEF IInv
<1>2. QED
  BY <1>1, Invariance, PTL

(* A change never waits for the next poll (schedule). *)
THEOREM NoLostPoke == Spec => []PokeHonoured
<1>1. IInv => PokeHonoured
  BY DEF IInv
<1>2. QED
  BY <1>1, Invariance, PTL

(* A run that failed comes back within 30 s (runOnce, run). *)
THEOREM NoLateRetry == Spec => []RetriesSoon
<1>1. IInv => RetriesSoon
  BY DEF IInv
<1>2. QED
  BY <1>1, Invariance, PTL

(* The first backfill is whole before the account is live (runOnce,        *)
(* backfill).                                                              *)
THEOREM FirstBackfill == Spec => []LiveIsWholeAtFirst
<1>1. IInv => LiveIsWholeAtFirst
  BY DEF IInv
<1>2. QED
  BY <1>1, Invariance, PTL
=============================================================================
