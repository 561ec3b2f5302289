---------------------------- MODULE Attention -----------------------------
(***************************************************************************)
(* How much a thread of one sender deserves to be seen: its score, its     *)
(* band, and the banner of a new message.                                  *)
(*                                                                         *)
(*   apps/desktop/electron/classify/attention.ts    scoreAttention         *)
(*   packages/store/src/queries/attention.ts        the facts              *)
(*   apps/desktop/electron/classify/pipeline.ts     pass, sweepAttention   *)
(*   apps/desktop/electron/notify.ts, notify-rule.ts                       *)
(*                                                                         *)
(* Time is in days, points in tenths.  What the shared half of the model   *)
(* knew when a pass began is used to its end; the thread itself is read    *)
(* when its turn comes.  The type is an input, and so is what the local    *)
(* model says; the reclassification of a new category is Classifier's.     *)
(***************************************************************************)
EXTENDS Integers, Sequences, SequencesExt, FiniteSets, FiniteSetsExt

CONSTANTS
  Threads,
  Senders,    \* Whom the threads may be from, with what the store holds of them.
  Mails,      \* What a message may be: where it is addressed, what it asks.
  Types,      \* Mailbox types, Untyped among them.
  Spans,      \* Days that may pass at a time.
  MaxMails,   \* Bound: messages.
  MaxSpans,   \* Bound: times that days pass.
  MaxActs,    \* Bound: threads filed by hand, archived or read, messages deleted.
  MaxStarts   \* Bound: starts of the app.

VARIABLES
  who,      \* The sender.
  msgs,     \* The messages of a thread, by date.
  shelf,    \* threads: in_inbox, unread
  verdict,  \* classifications
  pass,     \* The pass that runs, or Idle.
  sweep,    \* The sweep that runs, or Idle.
  demoted,  \* corrections: re-files to Other.
  old,      \* Messages from before this start.
  seen,     \* Notifier.seen
  told,     \* History: messages that got a banner.
  twice,    \* History: one got two.
  cut,      \* History: threads that lost a message.
  now, counts

vars == <<who, msgs, shelf, verdict, pass, sweep, demoted, old, seen, told, twice, cut, now, counts>>

Untyped == "none"
NoVerdict == [source |-> "none", type |-> Untyped, split |-> "none", band |-> "none",
              score |-> 0, chosen |-> "none", last |-> 0]
Idle == [ctx |-> <<>>, todo |-> {}]

Count(what) == counts' = [counts EXCEPT ![what] = @ + 1]

-----------------------------------------------------------------------------
(* The facts. *)

(* Where the messages of a direction are in a thread. *)
In(ms) == {i \in DOMAIN ms : ms[i].dir = "in"}
Out(ms) == {i \in DOMAIN ms : ms[i].dir = "out"}
FirstIn(ms) == ms[Min(In(ms))]
LastIn(ms) == ms[Max(In(ms))]

Sent == UNION {{msgs[t][i] : i \in Out(msgs[t])} : t \in Threads}
Known == {t \in Threads : In(msgs[t]) # {}}
Newest(t) == IF msgs[t] = <<>> THEN 0 ELSE Last(msgs[t]).id

Span(days) == IF days = {} THEN 0 ELSE Max(days) - Min(days)

(* attentionContext: what is known of the sender when a pass begins. *)
Context ==
  [now |-> now,
   sent |-> who.sent + Cardinality(Sent),
   sentAt |-> Max({m.at : m \in Sent} \cup {who.sentAt}),
   threads |-> who.threads + Cardinality(Known),
   ignored |-> who.ignored + Cardinality({t \in Known : shelf[t] = [inbox |-> FALSE, unread |-> TRUE]}),
   unread |-> who.unread + Cardinality({t \in Known : shelf[t].unread}),
   span |-> Span({FirstIn(msgs[t]).at : t \in Known} \cup who.openedAt),
   demoted |-> demoted]

(* lastInbound: it decides; in a thread of one's own the last message does. *)
Deciding(ms) == IF In(ms) = {} THEN Last(ms) ELSE LastIn(ms)
Own(ms) == who.own \/ In(ms) = {}
KnownDomain(ctx) == who.domain = "written" \/ (who.domain = "new" /\ ctx.sent > 0)

(* A fault: an answer does not end the waiting. *)
FaultyUnanswered(ms) == In(ms) # {}

(* unansweredMs *)
Unanswered(ms) ==
  /\ In(ms) # {}
  /\ \A i \in Out(ms) : ms[i].at < LastIn(ms).at \/ ms[i].id < LastIn(ms).id

-----------------------------------------------------------------------------
(* The score. *)

If(b, points) == IF b THEN points ELSE 0

AskPoints == [question |-> 18, request |-> 14, deadline |-> 8]
PlacePoints == [to |-> 18, to_with_others |-> 12, cc |-> 4, alias |-> 0]

(* relationshipPoints, in tenths *)
Relationship(ctx) ==
  LET base == CASE ctx.sent = 0 -> 0 [] ctx.sent \in 1..2 -> 6 [] ctx.sent \in 3..9 -> 14 [] OTHER -> 20
      age == ctx.now - ctx.sentAt
  IN  base * (IF age <= 30 THEN 10 ELSE IF age <= 180 THEN 7 ELSE 4)

(* waitingPoints *)
Waiting(days) == CASE days < 1 -> 6 [] days \in 1..2 -> 8 [] days \in 3..6 -> 5 [] OTHER -> 2

For(ms, ctx) ==
  LET m == Deciding(ms)
  IN  PlacePoints[m.place]
        + If(ctx.sent = 0 /\ KnownDomain(ctx), 8) + If(who.client, 12)
        + If(Out(ms) # {}, 14) + If(Head(ms).dir = "out", 6)
        + Min({MapThenSumSet(LAMBDA a : AskPoints[a], m.asks), 26})
        + If(Unanswered(ms), Waiting(Max({0, ctx.now - m.at})))

Against(ctx, type) ==
  LET Over(n) == ctx.threads * 7 > n * Max({7, ctx.span + 1})
  IN  If(ctx.threads <= 1 /\ ctx.sent = 0 /\ ~KnownDomain(ctx), 4)
        + If(who.bulk, 35) + If(who.robot = "no-reply", 30) + If(who.robot = "role", 12)
        + If(who.auto, 25) + If(type # Untyped, 30)
        + If(ctx.threads >= 5 /\ 10 * ctx.ignored > 8 * ctx.threads, 25)
        + If(ctx.threads >= 3 /\ ctx.unread = ctx.threads, 8)
        + (IF Over(10) THEN 18 ELSE If(Over(3), 10))
        + Min({20 * ctx.demoted, 40})

(* scoreAttention: 0 to 100, rounded. *)
Score(ms, ctx, type) ==
  IF Own(ms) THEN 0
  ELSE Max({0, Min({100, (10 * (For(ms, ctx) - Against(ctx, type)) + Relationship(ctx) + 5) \div 10})})

(* isPersonMessage *)
Person(ms) == ~Own(ms) /\ ~who.bulk /\ ~who.auto /\ who.robot = "none"

NeedsYou(ms, ctx, type) ==
  /\ Person(ms) /\ type = Untyped
  /\ Deciding(ms).place # "alias" /\ Deciding(ms).asks # {} /\ Unanswered(ms)
  /\ Score(ms, ctx, type) >= 55

Band(ms, ctx, type, said) ==
  LET score == Score(ms, ctx, type)
  IN  IF NeedsYou(ms, ctx, type) THEN "needs_you"
      ELSE IF score >= 40 \/ (score >= 30 /\ said) THEN "important" ELSE "other"

(* splitForBand *)
Split(band) == IF band = "other" THEN "other" ELSE "important"

-----------------------------------------------------------------------------
Init ==
  /\ who \in Senders
  /\ msgs = [t \in Threads |-> <<>>]
  /\ shelf = [t \in Threads |-> [inbox |-> FALSE, unread |-> FALSE]]
  /\ verdict = [t \in Threads |-> NoVerdict]
  /\ pass = Idle /\ sweep = Idle
  /\ demoted = 0 /\ old = {} /\ seen = {} /\ told = {} /\ twice = FALSE /\ cut = {}
  /\ now = 0 /\ counts = [mails |-> 0, spans |-> 0, acts |-> 0, starts |-> 0]

(* A fault: what is from before the start is announced too. *)
FaultyEarns(m, v) == m.id \notin seen /\ (v.split = "important" \/ v.type = "calendar")

(* shouldBanner *)
Earns(m, v) ==
  /\ m.id \notin seen /\ m.id \notin old
  /\ v.split = "important" \/ v.type = "calendar"

(* Notifier.consider *)
Consider(ms, v) ==
  IF In(ms) # {} /\ Earns(LastIn(ms), v)
  THEN LET id == LastIn(ms).id
       IN  /\ seen' = seen \cup {id} /\ told' = told \cup {id}
           /\ twice' = (twice \/ id \in told)
  ELSE UNCHANGED <<seen, told, twice>>

-----------------------------------------------------------------------------
(* The mail. *)

(* The sync brings a message, of this start or from before, and considers  *)
(* a banner with the verdict there is.                                     *)
Arrives(t, dir, mail, early) ==
  LET m == [id |-> counts.mails + 1, dir |-> dir, at |-> now, place |-> mail.place, asks |-> mail.asks]
  IN  /\ counts.mails < MaxMails /\ Count("mails")
      /\ early => \A i \in DOMAIN msgs[t] : msgs[t][i].id \in old
      /\ msgs' = [msgs EXCEPT ![t] = Append(@, m)]
      /\ old' = IF early THEN old \cup {m.id} ELSE old
      /\ shelf' = IF dir = "in" THEN [shelf EXCEPT ![t] = [inbox |-> TRUE, unread |-> TRUE]] ELSE shelf
      /\ IF dir = "in" /\ ~early /\ Earns(m, verdict[t])
         THEN seen' = seen \cup {m.id} /\ told' = told \cup {m.id} /\ twice' = (twice \/ m.id \in told)
         ELSE IF dir = "out" THEN Consider(msgs[t], verdict[t]) ELSE UNCHANGED <<seen, told, twice>>
      /\ UNCHANGED <<who, verdict, pass, sweep, demoted, cut, now>>

Left(s, inbox, unread) == [inbox |-> s.inbox /\ inbox, unread |-> s.unread /\ unread]

(* The last message is deleted in Gmail, with its thread when it was the   *)
(* only one.                                                               *)
Deleted(t, inbox, unread) ==
  /\ counts.acts < MaxActs /\ Count("acts")
  /\ msgs[t] # <<>> /\ msgs' = [msgs EXCEPT ![t] = Front(@)]
  /\ verdict' = IF msgs'[t] = <<>> THEN [verdict EXCEPT ![t] = NoVerdict] ELSE verdict
  /\ shelf' = [shelf EXCEPT ![t] = Left(@, inbox /\ msgs'[t] # <<>>, unread /\ msgs'[t] # <<>>)]
  /\ cut' = IF msgs'[t] = <<>> THEN cut \ {t} ELSE cut \cup {t}
  /\ UNCHANGED <<who, pass, sweep, demoted, old, seen, told, twice, now>>

(* The person archives or reads. *)
Handled(t, inbox, unread) ==
  /\ counts.acts < MaxActs /\ Count("acts")
  /\ msgs[t] # <<>>
  /\ shelf' = [shelf EXCEPT ![t] = Left(@, inbox, unread)]
  /\ shelf' # shelf
  /\ UNCHANGED <<who, msgs, verdict, pass, sweep, demoted, old, seen, told, twice, cut, now>>

(* fetchThreads, after a change of the person's or of Gmail's. *)
ReadAgain(t) ==
  /\ Consider(msgs[t], verdict[t])
  /\ UNCHANGED <<who, msgs, shelf, verdict, pass, sweep, demoted, old, cut, now, counts>>

DaysPass ==
  /\ counts.spans < MaxSpans /\ Count("spans")
  /\ \E d \in Spans : now' = now + d
  /\ UNCHANGED <<who, msgs, shelf, verdict, pass, sweep, demoted, old, seen, told, twice, cut>>

-----------------------------------------------------------------------------
(* The verdicts. *)

(* threadsNeedingClassification *)
Wanted ==
  {t \in Threads : msgs[t] # <<>> /\ verdict[t].source # "manual" /\ verdict[t].last # Newest(t)}

PassBegins ==
  /\ pass = Idle /\ Wanted # {}
  /\ pass' = [ctx |-> Context, todo |-> Wanted]
  /\ UNCHANGED <<who, msgs, shelf, verdict, sweep, demoted, old, seen, told, twice, cut, now, counts>>

Leave(run, t) == IF run.todo = {t} THEN Idle ELSE [run EXCEPT !.todo = @ \ {t}]

(* classifyThread, upsertClassification *)
Decides(t, type, said) ==
  LET band == Band(msgs[t], pass.ctx, type, said)
  IN  /\ t \in pass.todo /\ pass' = Leave(pass, t)
      /\ verdict' =
           IF msgs[t] = <<>> THEN verdict
           ELSE [verdict EXCEPT ![t] =
                   [source |-> "pass", type |-> type, split |-> Split(band), band |-> band,
                    score |-> Score(msgs[t], pass.ctx, type), chosen |-> "none", last |-> Newest(t)]]
      /\ UNCHANGED <<who, msgs, shelf, sweep, demoted, old, seen, told, twice, cut, now, counts>>

(* refileThread *)
Refiled(t, split, type) ==
  /\ counts.acts < MaxActs /\ Count("acts")
  /\ msgs[t] # <<>>
  /\ verdict' = [verdict EXCEPT ![t] =
       [source |-> "manual", type |-> type, split |-> split, band |-> split,
        score |-> IF split = "other" THEN 0 ELSE Max({verdict[t].score, 1}),
        chosen |-> split, last |-> Deciding(msgs[t]).id]]
  /\ demoted' = demoted + (IF split = "other" /\ In(msgs[t]) # {} THEN 1 ELSE 0)
  /\ UNCHANGED <<who, msgs, shelf, pass, sweep, old, seen, told, twice, cut, now>>

(* sweepAttention: the score is new, a filing by hand keeps its split, and *)
(* nobody asks the local model again.                                      *)
Sweeps(t) ==
  LET v == verdict[t]
      band == Band(msgs[t], sweep.ctx, v.type, FALSE)
      kept == IF v.source = "manual" THEN v.split ELSE band
      new == [v EXCEPT !.split = Split(kept), !.band = kept,
                       !.score = Score(msgs[t], sweep.ctx, v.type)]
  IN  /\ t \in sweep.todo /\ sweep' = Leave(sweep, t)
      /\ IF v = NoVerdict \/ msgs[t] = <<>> THEN UNCHANGED <<verdict, seen, told, twice>>
         ELSE /\ verdict' = [verdict EXCEPT ![t] = new]
              /\ IF new.split = "important" THEN Consider(msgs[t], new) ELSE UNCHANGED <<seen, told, twice>>
      /\ UNCHANGED <<who, msgs, shelf, pass, demoted, old, cut, now, counts>>

(* The app starts, perhaps with new weights; a sweep that did not end      *)
(* begins again.                                                           *)
Starts(bumped) ==
  /\ counts.starts < MaxStarts /\ Count("starts")
  /\ pass' = Idle
  /\ sweep' = IF bumped \/ sweep # Idle THEN [ctx |-> Context, todo |-> Threads] ELSE Idle
  /\ old' = 1..counts.mails /\ seen' = {}
  /\ UNCHANGED <<who, msgs, shelf, verdict, demoted, told, twice, cut, now>>

Next ==
  \/ \E t \in Threads, dir \in {"in", "out"}, mail \in Mails, early \in BOOLEAN : Arrives(t, dir, mail, early)
  \/ \E t \in Threads, inbox, unread \in BOOLEAN : Deleted(t, inbox, unread)
  \/ \E t \in Threads, inbox, unread \in BOOLEAN : Handled(t, inbox, unread)
  \/ \E t \in Threads : ReadAgain(t)
  \/ DaysPass
  \/ PassBegins
  \/ \E t \in Threads, type \in Types, said \in BOOLEAN : Decides(t, type, said)
  \/ \E t \in Threads, split \in {"important", "other"}, type \in Types : Refiled(t, split, type)
  \/ \E t \in Threads : Sweeps(t)
  \/ \E bumped \in BOOLEAN : Starts(bumped)

Spec == Init /\ [][Next]_vars

-----------------------------------------------------------------------------
(* Properties. *)

(* "needs_you is a promise [...] a person wrote, asked something,          *)
(* addressed him, and he has not answered since" (attention.ts:57): when   *)
(* the verdict is of the last message, however the thread was scored or    *)
(* filed since; but not when a message was deleted.                        *)
Promised(t) ==
  verdict[t].band = "needs_you" /\ verdict[t].last = Newest(t) =>
    LET m == Last(msgs[t])
    IN  m.dir = "in" /\ m.asks # {} /\ m.place # "alias" /\ ~who.own /\ ~who.bulk /\ ~who.auto

(* A thread filed by hand stays where it was put, whatever its score       *)
(* becomes; its band and every other one agree with the split.             *)
SplitHolds ==
  \A t \in Threads : verdict[t] # NoVerdict =>
    /\ verdict[t].split = Split(verdict[t].band)
    /\ verdict[t].source = "manual" => verdict[t].split = verdict[t].chosen

(* With it "each message is announced at most once" (notify.ts:13),        *)
(* through restarts and threads that are read again and again.             *)
Attended == (\A t \in Threads \ cut : Promised(t)) /\ SplitHolds /\ ~twice

(* The promise, of every thread. *)
Promise == \A t \in Threads : Promised(t)

(* The weights of waiting hold as the days pass: the band is the one of    *)
(* today.                                                                  *)
BandIsOfToday ==
  \A t \in Threads : verdict[t].source = "pass" /\ verdict[t].last = Newest(t) /\ pass = Idle =>
    \E said \in BOOLEAN : verdict[t].band = Band(msgs[t], Context, verdict[t].type, said)

(* Every demotion took a thread out of Important. *)
DemotedFromImportant ==
  [][demoted' > demoted => \E t \in Threads : verdict[t].split = "important" /\ verdict'[t].split = "other"]_vars

(* A banner is for what is not answered yet. *)
BannerIsNews ==
  [][\A t \in Threads : Unanswered(msgs[t]) \/ msgs[t] = <<>> \/ told' \cap {Deciding(msgs[t]).id} \subseteq told]_vars

(* A new thread gets its banner the moment the classifier says so. *)
BannerInTime ==
  pass = Idle /\ sweep = Idle /\ Wanted = {} =>
    \A t \in Threads : In(msgs[t]) # {} /\ verdict[t].split = "important" /\ verdict[t].source = "pass"
                        /\ LastIn(msgs[t]).id \notin old => LastIn(msgs[t]).id \in told
=============================================================================
