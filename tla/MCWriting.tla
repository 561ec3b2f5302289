----------------------------- MODULE MCWriting -----------------------------
(***************************************************************************)
(* What a letter says, whom an answer goes to, and the text tool that      *)
(* rewrites a selection in any application, for TLC.  They share no state, *)
(* so a behaviour is one of one of them, the others standing still: part   *)
(* says whose.                                                             *)
(***************************************************************************)
EXTENDS TextReplace

VARIABLES
  part,
  mode, signed, box, row, gmail, news, sent, words, edits, opens,
  meant, history, files, receipt, excepted,
  clock, thread, view, sends, mails

tools == vars
letter == <<mode, signed, box, row, gmail, news, sent, words, edits, opens,
            meant, history, files, receipt, excepted>>
answers == <<clock, thread, view, sends, mails>>

Letter == INSTANCE Letters WITH
  Modes <- {"new", "reply", "forward"}, Possible <- TRUE,
  MaxWords <- 2, MaxEdits <- 2, MaxOpens <- 2,
  slips <- excepted

(* Messages of the owner, some to an address of the owner's, and messages  *)
(* to the owner, some with a Reply-To.                                     *)
MCFirst ==
  [from : {"me"}, reply : {"me"}, to : {{"me"}, {"ann", "alias"}}, cc : {{}, {"bob"}}]
    \cup [from : {"ann"}, reply : {"ann", "bob", "alias"}, to : {{"me"}, {"me", "bob"}}, cc : {{}, {"alias"}}]

Thread == INSTANCE Replies WITH
  Owners <- {"me", "alias"}, Others <- {"ann", "bob"}, First <- MCFirst,
  Near <- 1, Keep <- 2, MaxMails <- 2, MaxSends <- 2, MaxClock <- 4,
  shown <- view

AllInit ==
  /\ part \in {"tool", "letter", "answers"}
  /\ Init /\ Letter!Init /\ Thread!Init
  /\ part # "tool" => front = CHOOSE h \in Hosts : TRUE
  /\ part # "letter" => mode = "new" /\ box = Letter!Reply("new") /\ ~signed
  /\ part # "answers" => thread[1].from = "me" /\ thread[1].to = {"me"} /\ thread[1].cc = {}

AllNext ==
  \/ /\ part = "tool" /\ Next
     /\ UNCHANGED <<part, letter, answers>>
  \/ /\ part = "letter" /\ Letter!Next
     /\ UNCHANGED <<part, tools, answers>>
  \/ /\ part = "answers" /\ Thread!Next
     /\ UNCHANGED <<part, tools, letter>>

AllSpec == AllInit /\ [][AllNext]_<<part, tools, letter, answers>>

-----------------------------------------------------------------------------

(* Letters: a message says what was written, once and in order, with its   *)
(* files.  Replies: an answer leaves nobody out, and a message that was    *)
(* sent is shown once.                                                     *)
MailIsRight == Letter!SaysWhatWasWritten /\ Thread!Reaches /\ Thread!ShownOnce
=============================================================================
