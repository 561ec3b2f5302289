----------------------------- MODULE MCWorkers -----------------------------
(***************************************************************************)
(* The workers beside the mail itself, for TLC.  They share no state, so a *)
(* behaviour is one of one worker, the others standing still: part says    *)
(* whose.                                                                  *)
(***************************************************************************)
EXTENDS DraftMirror

CONSTANTS
  \* Classifier
  t1, t2, Threads, Ruled, Batch, MaxMsgs, MaxFilings, MaxCreates, MaxAway,
  \* Attention, of threads of its own
  Scored, Senders, Mails, Types, Spans, MaxMails, MaxSpans, MaxActs, MaxStarts,
  \* Attachments
  Pieces, NoPart, MaxNames, PerSweep, MaxFetches, MaxLosses, MaxDeaths, MaxRefusals, MaxRemovals,
  \* GmailClient
  Requests, Groups, Size, Cost, Capacity, Rate, MaxAttempts, MaxBackoff, MaxClock,
  \* CalendarSync, ReceiptPoll
  e1, e2, NoToken, m1, other

VARIABLES
  part,
  newest, verdict, pass, redo, queued, paused, untold, late, counted,
  google, edits, local, token, lapsed, dead, read, signedIn, troubles, signs,
  here, row, file, orphans, fetching, left, emptied, counts,
  clock, hits, ev, idx, stored, watermark, poll, known, missed, spent,
  now, tokens, last, call, reserved, window, grant,
  who, msgs, shelf, scored, scoring, sweep, demoted, old, shown, told, twice, cut, day, acted

classifier == <<newest, verdict, pass, redo, queued, paused, untold, late, counted>>
calendar == <<google, edits, local, token, lapsed, dead, read, signedIn, troubles, signs>>
cache == <<here, row, file, orphans, fetching, left, emptied, counts>>
receipts == <<clock, hits, ev, idx, stored, watermark, poll, known, missed, spent>>
quota == <<now, tokens, last, call, reserved, window, grant>>
scores == <<who, msgs, shelf, scored, scoring, sweep, demoted, old, shown, told, twice, cut, day, acted>>
mirror == vars

Filing == INSTANCE Classifier WITH MaxFaults <- MaxAway
Rail == INSTANCE CalendarSync WITH
  Events <- {e1, e2}, MaxEdits <- 3, MaxTroubles <- 2, MaxSigns <- 1, Interrupts <- FALSE
Files == INSTANCE Attachments WITH Parts <- Pieces, Batch <- PerSweep
Opens == INSTANCE ReceiptPoll WITH
  Tokens <- {m1, other}, Own <- {m1}, ListMax <- 9, Cap <- 2,
  MaxClock <- 2, MaxHits <- 3, MaxFails <- 1
Quota == INSTANCE GmailClient WITH Batches <- Groups, clock <- now

Scores == INSTANCE Attention WITH
  Threads <- Scored,
  verdict <- scored, pass <- scoring, now <- day, counts <- acted, seen <- shown

WorkersAssumption ==
  /\ \A s \in Senders : s.own \in BOOLEAN /\ s.bulk \in BOOLEAN /\ s.auto \in BOOLEAN
  /\ IsFiniteSet(Threads) /\ Batch \in Nat
  /\ Spans \subseteq Nat
  /\ NoPart \notin Pieces
  /\ MaxNames \in Nat
  /\ Quota!GmailClientAssumption

ASSUME WorkersAssumption

-----------------------------------------------------------------------------
(* The instance TLC checks. *)

MCThreads == {t1, t2}
MCRuled == {<<t1, 1>>}
MCScored == {t1}

(* Somebody new; a client's newsletter, often answered and often not read. *)
Person == [own |-> FALSE, bulk |-> FALSE, auto |-> FALSE, robot |-> "none", client |-> FALSE, domain |-> "new",
           sent |-> 0, sentAt |-> 0, threads |-> 0, ignored |-> 0, unread |-> 0, openedAt |-> {}]
Newsletter == [Person EXCEPT !.bulk = TRUE, !.client = TRUE, !.domain = "written", !.sent = 12, !.sentAt = -20,
                             !.threads = 5, !.ignored = 4, !.unread = 5, !.openedAt = {-9, -1}]
MCSenders == {Person, Newsletter}
MCMails ==
  {[place |-> "to", asks |-> {"question", "request"}], [place |-> "alias", asks |-> {"deadline"}]}
-----------------------------------------------------------------------------
AllInit ==
  /\ part \in {"classifier", "calendar", "cache", "receipts", "quota", "drafts", "scores"}
  /\ Filing!Init /\ Rail!Init /\ Files!Init /\ Opens!Init
  /\ Quota!Init /\ Init /\ Scores!Init
  /\ part # "scores" => who = CHOOSE s \in Senders : TRUE

AllNext ==
  \/ /\ part = "classifier" /\ Filing!Next
     /\ UNCHANGED <<part, calendar, cache, receipts, quota, mirror, scores>>
  \/ /\ part = "calendar" /\ Rail!Next
     /\ UNCHANGED <<part, classifier, cache, receipts, quota, mirror, scores>>
  \/ /\ part = "cache" /\ Files!Next
     /\ UNCHANGED <<part, classifier, calendar, receipts, quota, mirror, scores>>
  \/ /\ part = "receipts" /\ Opens!Next
     /\ UNCHANGED <<part, classifier, calendar, cache, quota, mirror, scores>>
  \/ /\ part = "quota" /\ Quota!Next
     /\ UNCHANGED <<part, classifier, calendar, cache, receipts, mirror, scores>>
  \/ /\ part = "drafts" /\ Next
     /\ UNCHANGED <<part, classifier, calendar, cache, receipts, quota, scores>>
  \/ /\ part = "scores" /\ Scores!Next
     /\ UNCHANGED <<part, classifier, calendar, cache, receipts, quota, mirror>>

AllSpec ==
  /\ AllInit /\ [][AllNext]_<<part, classifier, calendar, cache, receipts, quota, mirror, scores>>
  /\ WF_classifier(part = "classifier" /\ Filing!Tick)
  /\ WF_classifier(part = "classifier" /\ Filing!Unpause)
  /\ WF_classifier(part = "classifier" /\ Filing!PassGoesOn)
  /\ WF_calendar(part = "calendar" /\ Rail!Run)
  /\ WF_calendar(part = "calendar" /\ Rail!Gone)
  /\ WF_calendar(part = "calendar" /\ Rail!Lands)
  /\ \A n \in Files!Names : WF_cache(part = "cache" /\ Files!Swept(n))
  /\ WF_receipts(part = "receipts" /\ Opens!Polling)
  /\ WF_mirror(part = "drafts" /\ Mirror)
  /\ WF_mirror(part = "drafts" /\ (StartDrain \/ SkipMoot \/ TakeNext \/ EndDrain))
  /\ WF_mirror(part = "drafts" /\ (GmailCreates \/ GmailUpdates \/ GmailDeletes))
  /\ WF_mirror(part = "drafts" /\ Ack)
  /\ WF_mirror(part = "drafts" /\ Reconcile)
  /\ WF_mirror(part = "drafts" /\ BecomeDue)

-----------------------------------------------------------------------------
(* The properties of the modules, each for its part; SavedInTheEnd is that *)
(* of DraftMirror, whose drafts stand still in the other parts.            *)

(* Classifier, Attention: the list is told of every verdict a pass         *)
(* recorded, the person of a message at most once, and of both what is     *)
(* true.                                                                   *)
Told == Filing!Told /\ Scores!Attended

(* Classifier: what was filed by hand is not decided again. *)
FiledStays == Filing!FiledStays

(* Classifier: every thread gets a verdict. *)
Sorted == Filing!Sorted

(* CalendarSync: the rail catches up with the last change. *)
CatchesUp == part = "calendar" => Rail!CatchesUp

(* Attachments: what opens as a part is that part. *)
RightBytes == Files!RightBytes

(* Attachments: no file stays behind the row that knew of it. *)
Reaped == Files!Reaped

(* ReceiptPoll: every recorded fetch of a message of ours is collected. *)
Collected == Opens!Collected

(* GmailClient: no stretch of time gets more units than the bucket has. *)
Paced == Quota!Paced
=============================================================================
