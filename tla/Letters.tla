------------------------------ MODULE Letters ------------------------------
(***************************************************************************)
(* What a letter says on its way between the box, the drafts table, Gmail  *)
(* and the recipient.  In the box and the table the writing, the history   *)
(* it answers and the files are apart; in Gmail and on the wire they are   *)
(* one document with the signature between writing and history, which is   *)
(* split again when the draft comes back.                                  *)
(*                                                                         *)
(*   packages/gmail/src/send.ts             buildRawMessage                *)
(*   packages/gmail/src/drafts.ts           splitDraftHtml, splitDraftText *)
(*   apps/desktop/electron/ipc/compose.ts   toDraftInfo, repairSplit       *)
(*   apps/desktop/electron/drafts/mirror.ts mirrorDraft, restoreDraft      *)
(*   packages/store/src/queries/drafts.ts   saveDraft, upsertGmailDraft    *)
(*   apps/desktop/src/lib/compose.ts        buildDraft, receiptDefault     *)
(*                                                                         *)
(* One letter, one thing at a time: what overlaps is in DraftMirror and in *)
(* Composer.  A document is a sequence of blocks, a word one that was      *)
(* written; line breaks and markup are left out.                           *)
(***************************************************************************)
EXTENDS Naturals, Sequences, SequencesExt, FiniteSetsExt

CONSTANTS
  Modes,     \* The modes a letter may begin in: "new", "reply", "forward".
  Possible,  \* Receipts are on, by default too, with an address and a token.
  MaxWords,  \* Bound: words written.
  MaxEdits,  \* Bound: changes made in Gmail.
  MaxOpens   \* Bound: times the draft is opened again.

VARIABLES
  mode,      \* ComposeDraft.mode
  signed,    \* The account has a signature.
  box,       \* The letter in the box, or Nothing.
  row,       \* The letter in the drafts table, or Nothing.
  gmail,     \* The draft in Gmail: blocks, files, whether it is plain text.
  news,      \* It was changed there since it was written or read here.
  sent,      \* The message that left.
  words,     \* How many words there are.
  edits, opens,  \* Counters.
  meant,     \* History: the words, in the order in which they were put.
  history,   \* History: whether the history is to be there.
  files,     \* History: the files attached and not taken off.
  receipt,   \* History: whether the writer wants a receipt.
  slips      \* History: what happened that a part of the property excepts.

vars == <<mode, signed, box, row, gmail, news, sent, words, edits, opens,
          meant, history, files, receipt, slips>>
meaning == <<meant, history, files, receipt>>

Word(n) == [kind |-> "word", of |-> <<n>>]
Cited(n) == [kind |-> "cited", of |-> <<n>>]      \* Words in a blockquote the writer made.
Signature(s) == [kind |-> "signature", of |-> s]  \* With the words typed into its block.
Quote(doc) == [kind |-> "quote", of |-> doc]      \* The block gmail_quote.
Past == [kind |-> "past", of |-> <<>>]            \* "On ... wrote:" and its blockquote.
Forwarded == [kind |-> "forwarded", of |-> <<>>]  \* The header of a forward and its body.
Pixel == [kind |-> "pixel", of |-> <<>>]
Plain(s) == [kind |-> "plain", of |-> s]          \* Text without its block.

Nothing == [body |-> <<>>, past |-> <<>>, files |-> {}, receipt |-> FALSE, origin |-> "none"]
NoMail == [doc |-> <<>>, files |-> {"none"}]
NoDraft == [doc |-> <<>>, files |-> {"none"}, plain |-> FALSE]

(* quotedHtml *)
HistoryOf(m) == CASE m = "reply" -> <<Past>> [] m = "forward" -> <<Forwarded>> [] OTHER -> <<>>

(* The words one reads in doc outside the history. *)
Worded(doc) ==
  FlattenSeq([i \in DOMAIN doc |->
                IF doc[i].kind \in {"word", "cited", "plain", "signature"} THEN doc[i].of ELSE <<>>])

-----------------------------------------------------------------------------
(* Building and splitting a document. *)

When(cond, doc) == IF cond THEN doc ELSE <<>>

(* appendSignature, appendQuote, appendPixel: in this order. *)
Built(letter, pixel) ==
  letter.body
    \o When(signed, <<Signature(<<>>)>>)
    \o When(letter.past # <<>>, <<Quote(letter.past)>>)
    \o When(pixel, <<Pixel>>)

(* QUOTE_OPEN, ATTRIBUTION_OPEN and a bare blockquote. *)
Starts(doc) == {i \in DOMAIN doc : doc[i].kind \in {"quote", "past", "cited"}}

(* What is lifted: the inside of Gmail's block, or the blockquote itself. *)
Lifted(b) == IF b.kind = "quote" THEN b.of ELSE <<b>>

(* The first block of a signature goes, with what was typed into it. *)
Unsigned(doc) ==
  LET at == {i \in DOMAIN doc : doc[i].kind = "signature"}
  IN  IF at = {} THEN doc ELSE RemoveAt(doc, Min(at))

(* A fault: the signature stays in the body. *)
FaultySplit(doc) ==
  IF Starts(doc) = {}
  THEN [body |-> doc, past |-> <<>>]
  ELSE LET i == Min(Starts(doc)) IN [body |-> RemoveAt(doc, i), past |-> Lifted(doc[i])]

(* splitDraftHtml: whichever history comes first goes to the history; what *)
(* stands behind it is the writer's.                                       *)
Split(doc) ==
  IF Starts(doc) = {}
  THEN [body |-> Unsigned(doc), past |-> <<>>]
  ELSE LET i == Min(Starts(doc))
       IN  [body |-> Unsigned(RemoveAt(doc, i)), past |-> Lifted(doc[i])]

(* repairSplit: history that is still in the body goes in front of the     *)
(* history that was lifted before.                                         *)
Repaired(letter) ==
  IF Starts(letter.body) = {}
  THEN letter
  ELSE LET s == Split(letter.body)
       IN  [letter EXCEPT !.body = s.body, !.past = s.past \o letter.past]

(* Gmail's plain text mode: no blocks, and the history as lines with ">".  *)
Flat(doc) ==
  LET Line(b) == CASE b.kind = "quote" -> <<Quote(b.of)>>
                   [] b.kind = "signature" -> <<Plain(b.of)>>
                   [] b.kind = "cited" -> <<Quote(<<b>>)>>
                   [] OTHER -> <<b>>
  IN  FlattenSeq([i \in DOMAIN doc |-> Line(doc[i])])

(* splitDraftText: from the first quoted line on, all of it is history. *)
SplitText(doc) ==
  LET at == {i \in DOMAIN doc : doc[i].kind = "quote"}
  IN  IF at = {}
      THEN [body |-> doc, past |-> <<>>]
      ELSE [body |-> SubSeq(doc, 1, Min(at) - 1), past |-> SubSeq(doc, Min(at), Len(doc))]

(* receiptDefault: a draft from Gmail was never asked, one written here    *)
(* keeps what was chosen.                                                  *)
ReceiptDefault(letter) == letter.receipt \/ (letter.origin = "gmail" /\ Possible)

(* The writer had said no. *)
AskedAgain(letter) == IF ReceiptDefault(letter) /\ ~receipt THEN {"asked again"} ELSE {}

(* A draft in Gmail as the mirror writes it: without the files. *)
Uploaded(doc) == [doc |-> doc, files |-> {}, plain |-> FALSE]

-----------------------------------------------------------------------------

Reply(m) == [body |-> <<>>, past |-> HistoryOf(m), files |-> {}, receipt |-> Possible, origin |-> "local"]

(* openCompose with buildDraft, or a draft that somebody began in Gmail,   *)
(* whose signature may stand on either side of the history.                *)
Init ==
  /\ mode \in Modes
  /\ signed \in BOOLEAN
  /\ row = Nothing /\ sent = NoMail
  /\ \/ /\ box = Reply(mode)
        /\ gmail = NoDraft /\ news = FALSE
     \/ /\ mode \in {"new", "reply"}
        /\ box = Nothing
        /\ LET hist == When(mode = "reply", <<Quote(HistoryOf(mode))>>)
               sig == When(signed, <<Signature(<<>>)>>)
           IN  gmail \in {Uploaded(sig \o hist), Uploaded(hist \o sig)}
        /\ news = TRUE
  /\ words = 0 /\ edits = 0 /\ opens = 0
  /\ meant = <<>>
  /\ history = (mode # "new")
  /\ files = {}
  /\ receipt = Possible
  /\ slips = {}

Open == box # Nothing
Unsent == sent = NoMail

(* The words in front of place i of doc. *)
Before(doc, i) == Len(Worded(SubSeq(doc, 1, i - 1)))

(* A new word is put at place i of doc. *)
Put(doc, i) ==
  /\ words < MaxWords
  /\ words' = words + 1
  /\ meant' = InsertAt(meant, Before(doc, i) + 1, words')

(* Typing in the box, plain or in a blockquote. *)
Write(i) ==
  /\ Open
  /\ Put(box.body, i)
  /\ \E b \in {Word(words'), Cited(words')} : box' = [box EXCEPT !.body = InsertAt(@, i, b)]
  /\ UNCHANGED <<mode, signed, row, gmail, news, sent, edits, opens, history, files, receipt, slips>>

(* attachFiles, addFiles *)
Attach ==
  /\ Open
  /\ "here" \notin box.files
  /\ box' = [box EXCEPT !.files = @ \cup {"here"}]
  /\ files' = files \cup {"here"}
  /\ UNCHANGED <<mode, signed, row, gmail, news, sent, words, edits, opens, meant, history, receipt, slips>>

(* removeAttachment *)
TakeOff(f) ==
  /\ Open
  /\ f \in box.files
  /\ box' = [box EXCEPT !.files = @ \ {f}]
  /\ files' = files \ {f}
  /\ UNCHANGED <<mode, signed, row, gmail, news, sent, words, edits, opens, meant, history, receipt, slips>>

(* setReadReceipt; the button is there with a service only. *)
AskReceipt ==
  /\ Open /\ Possible
  /\ box' = [box EXCEPT !.receipt = ~@]
  /\ receipt' = ~box.receipt
  /\ UNCHANGED <<mode, signed, row, gmail, news, sent, words, edits, opens, meant, history, files, slips>>

Slip(what, cond) == slips' = slips \cup (IF cond THEN {what} ELSE {})

(* Reply or reply all aimed at another message: buildDraft, the body, the  *)
(* row and the receipt kept.                                               *)
Move ==
  /\ Open /\ mode = "reply"
  /\ box.files # {} \/ box.past # HistoryOf(mode)
  /\ box' = [box EXCEPT !.past = HistoryOf(mode), !.files = {}]
  /\ history' = TRUE
  /\ Slip("moved", box.files # {})
  /\ UNCHANGED <<mode, signed, row, gmail, news, sent, words, edits, opens, meant, files, receipt>>

(* saveDraft: the row is what the box is; its origin stays. *)
Saved(r) == [box EXCEPT !.origin = IF r = Nothing THEN "local" ELSE r.origin]

(* closeCompose with something to keep, then the mirror: no files and no   *)
(* pixel go up.                                                            *)
Park ==
  /\ Open /\ Unsent
  /\ box.body # <<>> \/ mode = "new"
  /\ row' = Saved(row)
  /\ box' = Nothing
  /\ gmail' = Uploaded(Built(box, FALSE))
  /\ news' = FALSE
  /\ UNCHANGED <<mode, signed, sent, words, edits, opens, meaning, slips>>

Lifts(letter) == \E i \in DOMAIN letter.body : letter.body[i].kind = "cited"

(* openCompose with a draft, as drafts:list hands it out. *)
Reopen ==
  /\ ~Open /\ Unsent /\ row # Nothing /\ ~news
  /\ opens < MaxOpens
  /\ opens' = opens + 1
  /\ box' = [Repaired(row) EXCEPT !.receipt = ReceiptDefault(row)]
  /\ slips' = slips \cup (IF Lifts(row) THEN {"cited"} ELSE {})
                    \cup AskedAgain(row)
  /\ UNCHANGED <<mode, signed, row, gmail, news, sent, words, edits, meaning>>

-----------------------------------------------------------------------------
(* Gmail's editor. *)

InGmail ==
  /\ ~Open /\ Unsent /\ gmail # NoDraft
  /\ edits < MaxEdits
  /\ edits' = edits + 1
  /\ news' = TRUE
  /\ UNCHANGED <<mode, signed, box, row, sent, opens, receipt>>

(* Words anywhere between the blocks. *)
GmailWrites(i) ==
  /\ InGmail
  /\ Put(gmail.doc, i)
  /\ gmail' = [gmail EXCEPT !.doc = InsertAt(@, i, Word(words'))]
  /\ UNCHANGED <<history, files, slips>>

(* Words behind the name in the block of the signature. *)
GmailWritesInto(i) ==
  /\ InGmail
  /\ gmail.doc[i].kind = "signature"
  /\ Put(gmail.doc, i + 1)
  /\ gmail' = [gmail EXCEPT !.doc[i].of = Append(@, words')]
  /\ Slip("signature", TRUE)
  /\ UNCHANGED <<history, files>>

(* A block is deleted: the signature comes back with the message. *)
GmailDeletes(i) ==
  /\ InGmail
  /\ gmail.doc[i].kind \in {"signature", "quote"}
  /\ gmail' = [gmail EXCEPT !.doc = RemoveAt(@, i)]
  /\ history' = (history /\ gmail.doc[i].kind # "quote")
  /\ UNCHANGED <<words, meant, files, slips>>

(* A file is attached there. *)
GmailAttaches ==
  /\ InGmail
  /\ gmail' = [gmail EXCEPT !.files = {"there"}]
  /\ files' = files \cup {"there"}
  /\ UNCHANGED <<words, meant, history, slips>>

(* Plain text mode. *)
GmailFlattens ==
  /\ InGmail
  /\ ~gmail.plain
  /\ gmail' = [gmail EXCEPT !.doc = Flat(@), !.plain = TRUE]
  /\ Slip("plain", TRUE)
  /\ UNCHANGED <<words, meant, history, files>>

(* importGmailDraft, upsertGmailDraft: the receipt and the origin of a row *)
(* stay, its files are those in Gmail.                                     *)
Import ==
  /\ ~Open /\ Unsent /\ news
  /\ LET s == IF gmail.plain THEN SplitText(gmail.doc) ELSE Split(gmail.doc)
     IN  row' = [body |-> s.body, past |-> s.past, files |-> gmail.files,
                 receipt |-> row.receipt, origin |-> IF row = Nothing THEN "gmail" ELSE row.origin]
  /\ news' = FALSE
  /\ slips' = slips \cup (IF Lifts([body |-> gmail.doc]) THEN {"cited"} ELSE {})
                    \cup (IF files \subseteq gmail.files THEN {} ELSE {"import"})
  /\ UNCHANGED <<mode, signed, box, gmail, sent, words, edits, opens, meaning>>

-----------------------------------------------------------------------------

(* hasSendableBody *)
Sendable == box.body # <<>> \/ (mode = "forward" /\ box.past # <<>>)

(* queueSend: the pixel service may refuse the receipt.  From here on row  *)
(* is the draft in meta_json.                                              *)
Send ==
  /\ Open /\ Unsent /\ Sendable
  /\ \E armed \in {box.receipt, FALSE} : sent' = [doc |-> Built(box, armed), files |-> box.files]
  /\ row' = box
  /\ box' = Nothing
  /\ UNCHANGED <<mode, signed, gmail, news, words, edits, opens, meaning, slips>>

(* A send that failed or was undone: restoreDraft saves the row without    *)
(* the files; only an undo opens the box, with them.                       *)
ComeBack(undone) ==
  /\ ~Unsent
  /\ opens < MaxOpens
  /\ opens' = opens + 1
  /\ sent' = NoMail
  /\ row' = [row EXCEPT !.files = {}, !.origin = "local"]
  /\ gmail' = Uploaded(Built(row, FALSE))
  /\ news' = FALSE
  /\ box' = IF undone THEN [row EXCEPT !.receipt = ReceiptDefault(row)] ELSE Nothing
  /\ slips' = slips \cup (IF ~undone /\ row.files # {} THEN {"returned"} ELSE {})
                    \cup (IF undone THEN AskedAgain(row) ELSE {})
  /\ UNCHANGED <<mode, signed, words, edits, meaning>>

Next ==
  \/ \E i \in 1 .. Len(box.body) + 1 : Write(i)
  \/ Attach \/ AskReceipt \/ Move
  \/ \E f \in box.files : TakeOff(f)
  \/ Park \/ Reopen \/ Import
  \/ \E i \in 1 .. Len(gmail.doc) + 1 : GmailWrites(i)
  \/ \E i \in DOMAIN gmail.doc : GmailWritesInto(i) \/ GmailDeletes(i)
  \/ GmailAttaches \/ GmailFlattens
  \/ Send
  \/ \E undone \in BOOLEAN : ComeBack(undone)

Spec == Init /\ [][Next]_vars

-----------------------------------------------------------------------------

(* What is to be read: the words in their order, the signature once, the   *)
(* history once and behind it.                                             *)
Letter(pixel) ==
  [i \in DOMAIN meant |-> Word(meant[i])]
    \o When(signed, <<Signature(<<>>)>>)
    \o When(history, <<Quote(HistoryOf(mode))>>)
    \o When(pixel, <<Pixel>>)

(* Blockquotes of the writer read as words. *)
AsWords(doc) == [i \in DOMAIN doc |-> IF doc[i].kind = "cited" THEN Word(doc[i].of[1]) ELSE doc[i]]

HasPixel == \E i \in DOMAIN sent.doc : sent.doc[i] = Pixel

(* A message says what was written, here and in Gmail, in that order, with *)
(* the signature and the history once and the image of the receipt last,   *)
(* however often the draft went to Gmail and came back; it has the files   *)
(* that were attached; and no image when the writer wanted none            *)
(* (splitDraftHtml, appendSignature, upsertGmailDraft, receiptDefault).    *)
SaysWhatWasWritten ==
  ~Unsent =>
    /\ slips \cap {"cited", "signature", "plain"} = {} => AsWords(sent.doc) = Letter(HasPixel)
    /\ slips \cap {"moved", "import", "returned"} = {} => sent.files = files
    /\ HasPixel => receipt \/ "asked again" \in slips
=============================================================================
