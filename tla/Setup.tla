-------------------------------- MODULE Setup -------------------------------
(***************************************************************************)
(* The first-run setup: its six screens and the answer that is stored.     *)
(*                                                                         *)
(*   apps/desktop/shared/onboarding.ts               the steps             *)
(*   apps/desktop/src/state/store.ts, Onboarding.tsx the renderer          *)
(*   apps/desktop/electron/ipc/onboarding.ts         its handlers          *)
(*   apps/desktop/electron/onboarding/done.ts        setupIsDone           *)
(*                                                                         *)
(* What the screens do beside turning (the AI choice, the download, the    *)
(* text tool) is in AiConfig, ModelDownload and Helpers; the Google Cloud  *)
(* pages and the form of what is pasted are left out.                      *)
(***************************************************************************)
EXTENDS Naturals, Sequences

CONSTANT MaxMoves  \* Bound: what the person does in the setup.

Steps == <<"welcome", "accounts", "ai", "model", "text", "done">>

VARIABLES
  done, stored,   \* The settings onboardingDone (as it is true or not) and onboardingStep.
  signedIn,       \* An account's auth_state is ok.
  open, screen,   \* The renderer: onboardingOpen, onboarding.step.
  replies,        \* Answers of setDone on their way to the renderer.
  late,           \* History: the person moved on before an answer came.
  moves

vars == <<done, stored, signedIn, open, screen, replies, late, moves>>

Moves == moves < MaxMoves /\ moves' = moves + 1

-----------------------------------------------------------------------------
(* The settings. *)

(* setupIsDone: a signed-in account is enough, and is written down. *)
IsDone(d) == d \/ signedIn

(* resumeStepId *)
Resume(d, s) == IF d THEN "done" ELSE s

(* onboardingInfo, with d and s stored. *)
Info(d, s) ==
  /\ done' = IsDone(d) /\ stored' = s
  /\ replies' = Append(replies, Resume(IsDone(d), s))

Init ==
  /\ done = FALSE /\ stored = "welcome" /\ signedIn = FALSE
  /\ open = TRUE /\ screen = "welcome" /\ replies = <<>> /\ late = FALSE
  /\ moves = 0

-----------------------------------------------------------------------------
(* The screens. *)

Index(s) == CHOOSE i \in DOMAIN Steps : Steps[i] = s
Reached(s) == Index(s) <= Index(screen) + 1

(* A fault: the step is only on the screen. *)
FaultyStored(s) == stored

(* setStep *)
Stored(s) == s

(* goToOnboardingStep: next, back, or a step of the rail behind. *)
GoTo(s) ==
  /\ open /\ s # screen /\ Reached(s) /\ Moves
  /\ screen' = s /\ stored' = Stored(s) /\ done' = IsDone(done)
  /\ late' = (late \/ replies # <<>>)
  /\ UNCHANGED <<signedIn, open, replies>>

(* finishOnboarding *)
Finish ==
  /\ open /\ screen = "done" /\ Moves
  /\ open' = FALSE /\ Info(TRUE, stored)
  /\ UNCHANGED <<signedIn, screen, late>>

(* reopenOnboarding *)
Reopen ==
  /\ ~open /\ Moves
  /\ open' = TRUE /\ screen' = "welcome" /\ Info(FALSE, "welcome")
  /\ UNCHANGED <<signedIn, late>>

Reply ==
  /\ replies # <<>>
  /\ screen' = Head(replies) /\ replies' = Tail(replies)
  /\ UNCHANGED <<done, stored, signedIn, open, late, moves>>

(* addAccount with its sign-in, and a token that lapses. *)
SignIn ==
  /\ ~signedIn /\ open /\ screen = "accounts" /\ Moves /\ signedIn' = TRUE
  /\ UNCHANGED <<done, stored, open, screen, replies, late>>
Lapse ==
  /\ signedIn /\ Moves /\ signedIn' = FALSE
  /\ UNCHANGED <<done, stored, open, screen, replies, late>>

(* The app quits and is started again. *)
Relaunch ==
  /\ Moves
  /\ done' = IsDone(done) /\ stored' = stored /\ replies' = <<>>
  /\ open' = ~IsDone(done) /\ screen' = Resume(IsDone(done), stored)
  /\ UNCHANGED <<signedIn, late>>

Next ==
  \/ Finish \/ Reopen \/ Reply \/ SignIn \/ Lapse \/ Relaunch
  \/ \E i \in DOMAIN Steps : GoTo(Steps[i])

Spec == Init /\ [][Next]_vars

-----------------------------------------------------------------------------
(* Properties. *)

(* "A quit halfway comes back here" (Onboarding.tsx:13): what a relaunch   *)
(* would show is what is shown, unless an account's sign-in ended the      *)
(* setup, or the person moved on before an answer came.                    *)
Resumes == open /\ replies = <<>> /\ ~done /\ ~signedIn /\ ~late => stored = screen
=============================================================================
