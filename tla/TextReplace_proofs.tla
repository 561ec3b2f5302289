------------------------ MODULE TextReplace_proofs ------------------------
(***************************************************************************)
(* TextReplace, for any number of applications, texts, key presses and     *)
(* moves of the user: a paste lands where it was read, the clipboard is    *)
(* the user's again, and Escape works.                                     *)
(*                                                                         *)
(* The invariant follows one flow at a time (Alone): a second one that     *)
(* begins meanwhile is a slip.  A key that is on its way belongs to a flow *)
(* that waits for it (KeysFit).  So what the flow of the paste knows at    *)
(* its step (PasteOf) stays true until the application handles the key:    *)
(* nobody selects, copies or moves without a slip.  ClipOf says at each    *)
(* step where the user's clipboard is: on the clipboard, or put away in    *)
(* saved, to be put back while it is still our own write that is there.    *)
(* Stopped and GenOf hold without exception: they are what Escape rests    *)
(* on.  Runs are numbered, a busy flow with a number has it alone, and the *)
(* handle is armed only while the flow of the newest number is busy.       *)
(*                                                                         *)
(* What verify, paste, run, restoreLast and capture do to a flow has one   *)
(* form (Lands, Runs), so each turn of a flow and each key is proved from  *)
(* two or three lemmas about that form.                                    *)
(***************************************************************************)
EXTENDS TextReplace, TLAPS

(* Anything a text can be: not the mark of a target that changed. *)
Said == Int \ {Changed}
Somewhere == Hosts \cup {"none"}
Reading == {"queue", "copies", "heard"}
Landing == {"front", "armed", "posted"}
Steps == {"none", "soon", "asked", "answered", "done"} \cup Reading \cup Landing
FlowRec ==
  [step : Steps, kind : {"fix", "bold", "panel", "restore", "edit"}, reads : {"capture", "verify"},
   host : Somewhere, text : Said, new : Said, want : Said, home : Somewhere, got : Int, saved : Said,
   gen : Nat, stopped : {"no", "call", "late"}]
Clip == [holds : Said, by : Nat]
Keys == [key : {"c", "v"}, host : Hosts, flow : Flows]
Sessions == [host : Somewhere, text : Said]

Shape ==
  /\ front \in Hosts /\ sel \in [Hosts -> Said]
  /\ clip \in Clip /\ users \in Said
  /\ keys \in SUBSET Keys
  /\ flow \in [Flows -> FlowRec]
  /\ handle \in Nat /\ generation \in Nat /\ (handle # 0 => handle \in Flows)
  /\ last \in [host : Somewhere, text : Said, new : Said] /\ (last = NoReplacement \/ last.new # NoText)
  /\ tool \in Sessions /\ (tool = NoSession \/ (tool.text # NoText /\ tool.host \in Hosts))

(* What is asked for, verified or pasted is a text, for a host. *)
Texted(q) ==
  /\ q.host \in Hosts
  /\ q.step \in {"asked", "answered", "soon"} \cup Landing \/ q.reads = "verify" => q.text # NoText
  /\ q.step \in Landing \/ q.reads = "verify" => q.kind = "restore" \/ q.new # NoText
  /\ q.kind = "restore" => q.want # NoText
  /\ q.reads = "verify" => q.step \in Reading \cup Landing
  /\ q.step \in {"soon", "asked", "answered"} => q.kind # "restore"
AllTexted == \A f \in Busy : Texted(flow[f])

Clean(S) == slips \cap S = {}

(* One flow at a time. *)
Alone == Clean({"overlap"}) => \A f, g \in Busy : f = g

(* A key that is on its way is that of a flow that waits for it. *)
KeyFits(k) ==
  /\ k.flow \in Busy
  /\ \/ k.key = "c" /\ flow[k.flow].step = "copies" /\ k.host = flow[k.flow].host
     \/ k.key = "v" /\ flow[k.flow].step = "posted"
KeysFit == Clean({"slow", "overlap", "quit"}) => \A k \in keys : KeyFits(k)

(* The clipboard is the user's, or what is put back is. *)
ClipOf(f, q) ==
  /\ q.step = "copies" => q.saved = users /\ clip.holds # NoText
  /\ q.step \in Landing => IF clip.by = f THEN q.saved = users ELSE clip.holds = users
  /\ q.step \notin Landing \cup {"copies"} => clip.holds = users
ClipFits ==
  Clean({"copied", "slow", "overlap", "quit"}) =>
    /\ Busy = {} => clip.holds = users
    /\ \A f \in Busy : ClipOf(f, flow[f])

(* What is pasted is over what was read. *)
Over(q) == sel[q.host] = q.text /\ clip.holds = q.new
PasteOf(f, q) ==
  /\ q.step \in {"front", "armed"} => Over(q)
  /\ q.step = "armed" => front = q.host
  /\ q.step = "posted" => \A k \in keys : k.flow = f => Over(q) /\ k.host = q.host
  /\ q.step = "copies" => clip.holds \in {Sentinel(f), sel[q.host]}
  /\ q.step = "heard" /\ q.reads = "verify" /\ q.got = q.text => sel[q.host] = q.text
PasteFits ==
  Clean({"moved", "replaced", "copied", "slow", "overlap", "quit"}) => \A f \in Busy : PasteOf(f, flow[f])

(* A call that was stopped brings nothing. *)
Stopped(q) ==
  q.stopped = "call" => \/ q.step \in {"asked", "done"}
                        \/ q.step = "answered" /\ q.new = NoText
                        \/ "unheard" \in slips
StoppedFits == \A f \in Flows : Stopped(flow[f])

(* The runs are numbered; Escape is for the newest. *)
GenOf(f, q) ==
  /\ q.gen <= generation
  /\ q.step \in {"asked", "answered"} => q.gen > 0
  /\ q.step = "soon" \/ (q.step \in Reading /\ q.reads = "capture") => q.gen = 0
  /\ q.step = "asked" /\ q.gen = generation /\ q.stopped = "no" => handle = f
GensFit ==
  /\ handle # 0 => generation > 0 /\ \E f \in Busy : flow[f].gen = generation
  /\ \A f \in Busy : GenOf(f, flow[f])
  /\ \A f, g \in Busy : flow[f].gen = flow[g].gen /\ flow[f].gen > 0 => f = g

IInv == Shape /\ AllTexted /\ Alone /\ KeysFit /\ ClipFits /\ PasteFits /\ StoppedFits /\ GensFit

-----------------------------------------------------------------------------
(* Numbers. *)

LEMMA Numbers ==
  /\ NoText \in Said
  /\ \A f \in Flows : f \in Nat /\ f # 0 /\ Sentinel(f) \in Said /\ Sentinel(f) # NoText
  /\ \A t \in Said : Fixed(t) \in Said
  /\ \A t \in Said : t # NoText => Fixed(t) # NoText
  /\ Texts \subseteq Said
BY TextReplaceAssumption DEF NoText, Said, Changed, Sentinel, Flows, Fixed, Texts

-----------------------------------------------------------------------------
(* Records. *)

LEMMA RecordIs ==
  ASSUME NEW q \in FlowRec
  PROVE  /\ q.step \in Steps /\ q.kind \in {"fix", "bold", "panel", "restore", "edit"}
         /\ q.reads \in {"capture", "verify"} /\ q.host \in Somewhere /\ q.home \in Somewhere
         /\ q.text \in Said /\ q.new \in Said /\ q.want \in Said /\ q.got \in Int /\ q.saved \in Said
         /\ q.gen \in Nat /\ q.stopped \in {"no", "call", "late"}
BY DEF FlowRec

LEMMA Stepped ==
  ASSUME NEW q \in FlowRec, NEW s \in Steps
  PROVE  LET r == [q EXCEPT !.step = s]
         IN  /\ r \in FlowRec /\ r.step = s
             /\ r.kind = q.kind /\ r.reads = q.reads /\ r.host = q.host /\ r.text = q.text
             /\ r.new = q.new /\ r.want = q.want /\ r.home = q.home /\ r.got = q.got /\ r.saved = q.saved
             /\ r.gen = q.gen /\ r.stopped = q.stopped
BY DEF FlowRec

LEMMA DoneIs ==
  ASSUME NEW q \in FlowRec
  PROVE  /\ Done(q) \in FlowRec /\ Done(q).step = "done" /\ Done(q).stopped = q.stopped
         /\ Done(q).host = q.host /\ Done(q).text = q.text /\ Done(q).gen = q.gen /\ Done(q).kind = q.kind
<1>1. "done" \in Steps /\ NoText \in Said /\ NoText \in Int /\ "none" \in Somewhere
  BY Numbers DEF Steps, Somewhere, NoText
<1> QED BY <1>1 DEF Done, FlowRec

LEMMA VerifyIs ==
  ASSUME NEW q \in FlowRec
  PROVE  LET r == [q EXCEPT !.step = "queue", !.reads = "verify"]
         IN  /\ r \in FlowRec /\ r.step = "queue" /\ r.reads = "verify"
             /\ r.kind = q.kind /\ r.host = q.host /\ r.text = q.text
             /\ r.new = q.new /\ r.want = q.want /\ r.gen = q.gen /\ r.stopped = q.stopped
BY DEF FlowRec, Steps, Reading

LEMMA PasteIs ==
  ASSUME NEW q \in FlowRec, NEW s \in Steps, NEW t \in Said
  PROVE  LET r == [q EXCEPT !.step = s, !.saved = t]
         IN  /\ r \in FlowRec /\ r.step = s /\ r.saved = t
             /\ r.kind = q.kind /\ r.reads = q.reads /\ r.host = q.host /\ r.text = q.text
             /\ r.new = q.new /\ r.want = q.want /\ r.gen = q.gen /\ r.stopped = q.stopped
BY DEF FlowRec

LEMMA HeardIs ==
  ASSUME NEW q \in FlowRec, NEW g \in Int
  PROVE  LET r == [q EXCEPT !.step = "heard", !.got = g]
         IN  /\ r \in FlowRec /\ r.step = "heard" /\ r.got = g
             /\ r.kind = q.kind /\ r.reads = q.reads /\ r.host = q.host /\ r.text = q.text
             /\ r.new = q.new /\ r.want = q.want /\ r.gen = q.gen /\ r.stopped = q.stopped
BY DEF FlowRec, Steps, Reading

LEMMA TextIs ==
  ASSUME NEW q \in FlowRec, NEW t \in Said
  PROVE  LET r == [q EXCEPT !.text = t]
         IN  /\ r \in FlowRec /\ r.text = t
             /\ r.step = q.step /\ r.kind = q.kind /\ r.reads = q.reads /\ r.host = q.host
             /\ r.new = q.new /\ r.want = q.want /\ r.got = q.got
             /\ r.gen = q.gen /\ r.stopped = q.stopped
BY DEF FlowRec

LEMMA GenIs ==
  ASSUME NEW q \in FlowRec, NEW n \in Nat
  PROVE  LET r == [q EXCEPT !.gen = n]
         IN  /\ r \in FlowRec /\ r.gen = n
             /\ r.step = q.step /\ r.kind = q.kind /\ r.reads = q.reads /\ r.host = q.host
             /\ r.text = q.text /\ r.new = q.new /\ r.want = q.want /\ r.got = q.got
             /\ r.stopped = q.stopped
BY DEF FlowRec

LEMMA NewIs ==
  ASSUME NEW q \in FlowRec, NEW t \in Said
  PROVE  LET r == [q EXCEPT !.new = t]
         IN  /\ r \in FlowRec /\ r.new = t
             /\ r.step = q.step /\ r.kind = q.kind /\ r.reads = q.reads /\ r.host = q.host
             /\ r.text = q.text /\ r.want = q.want /\ r.got = q.got
             /\ r.gen = q.gen /\ r.stopped = q.stopped
BY DEF FlowRec

LEMMA FreshIs ==
  ASSUME front \in Hosts, NEW kind \in {"fix", "bold", "panel", "restore", "edit"}
  PROVE  LET r == Fresh(kind)
         IN  /\ r \in FlowRec /\ r.kind = kind /\ r.host = front /\ r.step = "none"
             /\ r.reads = "capture" /\ r.gen = 0 /\ r.stopped = "no" /\ r.got = NoText /\ r.text = NoText
<1>1. NoText \in Said /\ NoText \in Int /\ "none" \in Steps /\ "none" \in Somewhere /\ front \in Somewhere /\ 0 \in Nat
  BY Numbers DEF NoText, Steps, Somewhere
<1> QED BY <1>1 DEF Fresh, NoFlow, FlowRec

-----------------------------------------------------------------------------
(* What becomes of a flow whose selection was read, or whose model has     *)
(* answered: it is over, or reads again, or asks, or has begun to paste.   *)

Pastes == {"front", "armed"}

Lands(f, r) ==
  /\ flow' = [flow EXCEPT ![f] = r] /\ r.host \in Hosts
  /\ r.step \in {"done", "queue", "asked", "soon"} \cup Pastes
  /\ r.step # "done" => Texted(r)
  /\ r.step = "soon" => r.gen = 0
  /\ r.step \in Pastes =>
       clip' = [holds |-> r.new, by |-> f] /\ r.saved = clip.holds /\ (r.step = "armed" => front = r.host)
  /\ r.step \notin Pastes => clip' = clip

Seen(r) == r.step \in Pastes => sel[r.host] = r.text

(* No run is asked for, or one is, the newest. *)
Runs(f, q, r) ==
  /\ r.stopped = q.stopped
  /\ \/ handle' = handle /\ generation' = generation /\ r.gen = q.gen /\ r.step # "asked"
     \/ /\ generation' = generation + 1 /\ r.gen = generation + 1
        /\ handle' = IF r.step = "asked" THEN f ELSE IF r.step = "done" THEN 0 ELSE handle
        /\ r.step = "queue" => r.reads = "verify"

Replaced(q) ==
  /\ q.host \in Hosts /\ q.text # NoText
  /\ q.kind = "restore" \/ q.new # NoText
  /\ q.kind = "restore" => q.want # NoText

LEMMA PasteLands ==
  ASSUME Shape, NEW f \in Flows, NEW q \in FlowRec, Replaced(q), Paste(f, q)
  PROVE  \E r \in FlowRec :
           /\ Lands(f, r) /\ r.step \in Pastes /\ r.host = q.host /\ r.text = q.text
           /\ r.gen = q.gen /\ r.stopped = q.stopped /\ r.kind = q.kind
<1> DEFINE s == IF front = q.host THEN "armed" ELSE "front"
<1> DEFINE t == clip.holds
<1> DEFINE r == [q EXCEPT !.step = s, !.saved = t]
<1>1. s \in Steps /\ s \in Pastes /\ (s = "armed" => front = q.host)
  BY DEF Steps, Landing, Pastes
<1>2. t \in Said
  BY DEF Shape, Clip
<1>3. flow' = [flow EXCEPT ![f] = r] /\ clip' = [holds |-> q.new, by |-> f]
  BY DEF Paste, Step, Put
<1> HIDE DEF s, t
<1>4. /\ r \in FlowRec /\ r.step = s /\ r.saved = t
      /\ r.kind = q.kind /\ r.reads = q.reads /\ r.host = q.host /\ r.text = q.text
      /\ r.new = q.new /\ r.want = q.want /\ r.gen = q.gen /\ r.stopped = q.stopped
  BY <1>1, <1>2 DEF r, FlowRec
<1> HIDE DEF r
<1> USE DEF t
<1>5. Texted(r)
  BY <1>1, <1>4 DEF Replaced, Texted, Landing, Pastes
<1>6. Lands(f, r)
  BY <1>1, <1>3, <1>4, <1>5 DEF Lands, Replaced, Pastes
<1> QED BY <1>1, <1>4, <1>6

LEMMA DoneLands ==
  ASSUME NEW f \in Flows, NEW q \in FlowRec, q.host \in Hosts, Step(f, Done(q)), clip' = clip
  PROVE  \E r \in FlowRec :
           /\ Lands(f, r) /\ Seen(r) /\ r.step = "done" /\ r.host = q.host /\ r.text = q.text
           /\ r.gen = q.gen /\ r.stopped = q.stopped /\ r.kind = q.kind
<1>1. /\ Done(q) \in FlowRec /\ Done(q).step = "done" /\ Done(q).stopped = q.stopped
      /\ Done(q).host = q.host /\ Done(q).text = q.text /\ Done(q).gen = q.gen /\ Done(q).kind = q.kind
  BY DoneIs
<1>2. Lands(f, Done(q)) /\ Seen(Done(q))
  BY <1>1 DEF Lands, Seen, Step, Pastes
<1> QED BY <1>1, <1>2

LEMMA ReplaceLands ==
  ASSUME Shape, NEW f \in Flows, NEW q \in FlowRec, Replaced(q), Replace(f, q)
  PROVE  \E r \in FlowRec :
           /\ Lands(f, r) /\ Seen(r) /\ r.step \notin {"asked", "soon"} /\ (r.step = "queue" => r.reads = "verify")
           /\ r.gen = q.gen /\ r.stopped = q.stopped /\ r.kind = q.kind
<1>1. CASE Step(f, Done(q)) /\ UNCHANGED clip
  BY <1>1, DoneLands DEF Replaced
<1>2. CASE Step(f, [q EXCEPT !.step = "queue", !.reads = "verify"]) /\ UNCHANGED clip
  <2> DEFINE r == [q EXCEPT !.step = "queue", !.reads = "verify"]
  <2>1. /\ r \in FlowRec /\ r.step = "queue" /\ r.reads = "verify"
        /\ r.kind = q.kind /\ r.host = q.host /\ r.text = q.text
        /\ r.new = q.new /\ r.want = q.want /\ r.gen = q.gen /\ r.stopped = q.stopped
    BY VerifyIs
  <2>2. flow' = [flow EXCEPT ![f] = r]
    BY <1>2 DEF Step
  <2> HIDE DEF r
  <2>3. Texted(r)
    BY <2>1 DEF Replaced, Texted, Landing, Reading
  <2>4. Lands(f, r) /\ Seen(r)
    BY <1>2, <2>1, <2>2, <2>3 DEF Lands, Seen, Pastes, Replaced
  <2> QED BY <2>1, <2>4
<1>3. CASE ReadsTheSame(q) /\ Paste(f, q)
  <2>1. PICK r \in FlowRec :
           /\ Lands(f, r) /\ r.step \in Pastes /\ r.host = q.host /\ r.text = q.text
           /\ r.gen = q.gen /\ r.stopped = q.stopped /\ r.kind = q.kind
    BY <1>3, PasteLands
  <2>2. Seen(r)
    BY <1>3, <2>1 DEF Seen, ReadsTheSame
  <2> QED BY <2>1, <2>2 DEF Pastes
<1> QED BY <1>1, <1>2, <1>3 DEF Replace

LEMMA FlowAt ==
  ASSUME Shape, NEW f \in Flows, NEW r, flow' = [flow EXCEPT ![f] = r]
  PROVE  flow'[f] = r /\ \A g \in Flows : g # f => flow'[g] = flow[g]
BY DEF Shape

LEMMA RunLands ==
  ASSUME Shape, NEW f \in Flows, NEW q \in FlowRec, q.host \in Hosts, q.text # NoText,
         q.kind # "restore", q.reads = "capture", Run(f, q)
  PROVE  /\ last' = last
         /\ \E r \in FlowRec : Lands(f, r) /\ Seen(r) /\ Runs(f, q, r) /\ r.kind = q.kind
<1> DEFINE r == [q EXCEPT !.gen = generation + 1]
<1>1. generation \in Nat /\ generation + 1 \in Nat
  BY DEF Shape
<1>2. /\ r \in FlowRec /\ r.gen = generation + 1
      /\ r.step = q.step /\ r.kind = q.kind /\ r.reads = q.reads /\ r.host = q.host
      /\ r.text = q.text /\ r.new = q.new /\ r.want = q.want /\ r.got = q.got
      /\ r.stopped = q.stopped
  BY <1>1, GenIs
<1>3. /\ generation' = generation + 1 /\ last' = last
      /\ IF q.kind = "bold"
         THEN Replace(f, [r EXCEPT !.new = Fixed(q.text)]) /\ Release(f)
         ELSE Step(f, [r EXCEPT !.step = "asked"]) /\ handle' = f /\ UNCHANGED clip
  BY <1>2 DEF Run
<1> HIDE DEF r
<1>4. CASE q.kind = "bold"
  <2> DEFINE n == [r EXCEPT !.new = Fixed(q.text)]
  <2>1. Fixed(q.text) \in Said /\ Fixed(q.text) # NoText
    BY Numbers, RecordIs
  <2>2. /\ n \in FlowRec /\ n.new = Fixed(q.text)
        /\ n.step = r.step /\ n.kind = r.kind /\ n.reads = r.reads /\ n.host = r.host
        /\ n.text = r.text /\ n.want = r.want /\ n.got = r.got
        /\ n.gen = r.gen /\ n.stopped = r.stopped
    BY <1>2, <2>1, NewIs
  <2>3. Replace(f, n) /\ Release(f)
    BY <1>3, <1>4
  <2> HIDE DEF n
  <2>4. Replaced(n)
    BY <1>2, <2>1, <2>2 DEF Replaced
  <2>5. PICK z \in FlowRec :
           /\ Lands(f, z) /\ Seen(z) /\ z.step \notin {"asked", "soon"} /\ (z.step = "queue" => z.reads = "verify")
           /\ z.gen = n.gen /\ z.stopped = n.stopped /\ z.kind = n.kind
    BY <2>2, <2>3, <2>4, ReplaceLands
  <2>6. flow'[f] = z
    BY <2>5, FlowAt DEF Lands
  <2>7. handle' = IF z.step = "done" THEN 0 ELSE handle
    BY <1>2, <1>3, <2>2, <2>3, <2>5, <2>6 DEF Release, Ends
  <2>8. Runs(f, q, z)
    BY <1>2, <1>3, <2>2, <2>5, <2>7 DEF Runs
  <2> QED BY <1>2, <1>3, <2>2, <2>5, <2>8
<1>5. CASE q.kind # "bold"
  <2> DEFINE z == [r EXCEPT !.step = "asked"]
  <2>1. "asked" \in Steps
    BY DEF Steps
  <2>2. /\ z \in FlowRec /\ z.step = "asked"
        /\ z.kind = r.kind /\ z.reads = r.reads /\ z.host = r.host /\ z.text = r.text
        /\ z.new = r.new /\ z.want = r.want /\ z.home = r.home /\ z.got = r.got /\ z.saved = r.saved
        /\ z.gen = r.gen /\ z.stopped = r.stopped
    BY <1>2, <2>1, Stepped
  <2>3. flow' = [flow EXCEPT ![f] = z] /\ handle' = f /\ clip' = clip
    BY <1>3, <1>5 DEF Step
  <2> HIDE DEF z
  <2>4. Texted(z)
    BY <1>2, <2>2 DEF Texted, Landing
  <2>5. Lands(f, z) /\ Seen(z)
    BY <1>2, <2>2, <2>3, <2>4 DEF Lands, Seen, Pastes
  <2>6. Runs(f, q, z)
    BY <1>2, <1>3, <2>2, <2>3 DEF Runs
  <2> QED BY <1>2, <1>3, <2>2, <2>5, <2>6
<1> QED BY <1>4, <1>5

LEMMA RestoredLands ==
  ASSUME Shape, NEW f \in Flows, NEW q \in FlowRec, q.host \in Hosts,
         q.kind = "restore", q.want # NoText, Restored(f, q)
  PROVE  /\ last' \in {last, NoReplacement}
         /\ \E r \in FlowRec : Lands(f, r) /\ Seen(r) /\ Runs(f, q, r) /\ r.kind = q.kind
<1>1. handle' = handle /\ generation' = generation
  BY DEF Restored
<1>2. CASE q.text = q.want /\ q.host = q.home
  <2>1. Replace(f, q) /\ last' = last
    BY <1>2 DEF Restored
  <2>2. Replaced(q)
    BY <1>2 DEF Replaced
  <2>3. PICK r \in FlowRec :
           /\ Lands(f, r) /\ Seen(r) /\ r.step \notin {"asked", "soon"} /\ (r.step = "queue" => r.reads = "verify")
           /\ r.gen = q.gen /\ r.stopped = q.stopped /\ r.kind = q.kind
    BY <2>1, <2>2, ReplaceLands
  <2>4. Runs(f, q, r)
    BY <1>1, <2>3 DEF Runs
  <2> QED BY <2>1, <2>3, <2>4
<1>3. CASE ~(q.text = q.want /\ q.host = q.home)
  <2>1. Step(f, Done(q)) /\ clip' = clip /\ last' \in {last, NoReplacement}
    BY <1>3 DEF Restored
  <2>2. PICK r \in FlowRec :
           /\ Lands(f, r) /\ Seen(r) /\ r.step = "done" /\ r.host = q.host /\ r.text = q.text
           /\ r.gen = q.gen /\ r.stopped = q.stopped /\ r.kind = q.kind
    BY <2>1, DoneLands
  <2>3. Runs(f, q, r)
    BY <1>1, <2>2 DEF Runs
  <2> QED BY <2>1, <2>2, <2>3
<1> QED BY <1>2, <1>3

(* The same of whatever a selection is read for. *)
Reads(f, q) ==
  /\ last' \in {last, NoReplacement}
  /\ \E r \in FlowRec : Lands(f, r) /\ Seen(r) /\ Runs(f, q, r)

LEMMA DoneReads ==
  ASSUME NEW f \in Flows, NEW q \in FlowRec, q.host \in Hosts, Step(f, Done(q)),
         clip' = clip, last' = last, handle' = handle, generation' = generation
  PROVE  Reads(f, q)
<1>1. PICK r \in FlowRec :
         /\ Lands(f, r) /\ Seen(r) /\ r.step = "done" /\ r.host = q.host /\ r.text = q.text
         /\ r.gen = q.gen /\ r.stopped = q.stopped /\ r.kind = q.kind
  BY DoneLands
<1>2. Runs(f, q, r)
  BY <1>1 DEF Runs
<1> QED BY <1>1, <1>2 DEF Reads

LEMMA CapturedReads ==
  ASSUME Shape, NEW f \in Flows, NEW q \in FlowRec, q.host \in Hosts, q.text # NoText,
         q.kind = "restore" => q.want # NoText, q.reads = "capture", Captured(f, q)
  PROVE  Reads(f, q)
<1>1. CASE q.kind = "panel"
  BY <1>1, DoneReads DEF Captured
<1>2. CASE q.kind = "restore"
  <2>1. Restored(f, q)
    BY <1>2 DEF Captured
  <2> QED BY <1>2, <2>1, RestoredLands DEF Reads
<1>3. CASE q.kind \notin {"panel", "restore"}
  <2>1. Run(f, q)
    BY <1>3 DEF Captured
  <2> QED BY <1>3, <2>1, RunLands DEF Reads
<1> QED BY <1>1, <1>2, <1>3

LEMMA NotCapturedReads ==
  ASSUME Shape, NEW f \in Flows, NEW q \in FlowRec, q.host \in Hosts,
         q.kind = "restore" => q.want # NoText, NotCaptured(f, q)
  PROVE  Reads(f, q)
<1>1. CASE q.kind = "restore" /\ q.got = NoText
  <2>1. Restored(f, q)
    BY <1>1 DEF NotCaptured
  <2> QED BY <1>1, <2>1, RestoredLands DEF Reads
<1>2. CASE ~(q.kind = "restore" /\ q.got = NoText)
  BY <1>2, DoneReads DEF NotCaptured
<1> QED BY <1>1, <1>2

LEMMA CaptureReads ==
  ASSUME Shape, NEW f \in Flows, NEW q \in FlowRec, q.host \in Hosts, q.step = "none",
         q.kind = "restore" => q.want # NoText, q.reads = "capture", Capture(f, q)
  PROVE  /\ last' \in {last, NoReplacement}
         /\ \E n \in FlowRec, r \in FlowRec :
              n.gen = q.gen /\ n.stopped = q.stopped /\ Lands(f, r) /\ Seen(r) /\ Runs(f, n, r)
<1>1. CASE q.host \in Shells
  <2> DEFINE n == [q EXCEPT !.got = Changed]
  <2>1. /\ n \in FlowRec /\ n.host = q.host /\ n.kind = q.kind /\ n.want = q.want
        /\ n.gen = q.gen /\ n.stopped = q.stopped
    BY TextReplaceAssumption DEF FlowRec, Changed
  <2>2. NotCaptured(f, n)
    BY <1>1 DEF Capture
  <2> HIDE DEF n
  <2> QED BY <2>1, <2>2, NotCapturedReads DEF Reads
<1>2. CASE q.host \notin Shells /\ q.host \in Web
  <2> DEFINE r == [q EXCEPT !.step = "queue"]
  <2>0. "queue" \in Steps
    BY DEF Steps, Reading
  <2>1. /\ r \in FlowRec /\ r.step = "queue"
        /\ r.kind = q.kind /\ r.reads = q.reads /\ r.host = q.host /\ r.text = q.text
        /\ r.new = q.new /\ r.want = q.want /\ r.home = q.home /\ r.got = q.got /\ r.saved = q.saved
        /\ r.gen = q.gen /\ r.stopped = q.stopped
    BY <2>0, Stepped
  <2>2. /\ flow' = [flow EXCEPT ![f] = r] /\ clip' = clip /\ last' = last
        /\ handle' = handle /\ generation' = generation
    BY <1>2 DEF Capture, Step
  <2> HIDE DEF r
  <2>3. Texted(r)
    BY <2>1 DEF Texted, Landing
  <2>4. Lands(f, r) /\ Seen(r) /\ Runs(f, q, r)
    BY <2>1, <2>2, <2>3 DEF Lands, Seen, Runs, Pastes
  <2> QED BY <2>1, <2>2, <2>4
<1>3. CASE q.host \notin Shells /\ q.host \notin Web /\ sel[q.host] = NoText
  <2>1. NotCaptured(f, q)
    BY <1>3 DEF Capture
  <2> QED BY <2>1, NotCapturedReads DEF Reads
<1>4. CASE q.host \notin Shells /\ q.host \notin Web /\ sel[q.host] # NoText
  <2> DEFINE n == [q EXCEPT !.text = sel[q.host]]
  <2>1. sel[q.host] \in Said
    BY DEF Shape
  <2>2. /\ n \in FlowRec /\ n.text = sel[q.host]
        /\ n.step = q.step /\ n.kind = q.kind /\ n.reads = q.reads /\ n.host = q.host
        /\ n.new = q.new /\ n.want = q.want /\ n.got = q.got
        /\ n.gen = q.gen /\ n.stopped = q.stopped
    BY <2>1, TextIs
  <2>3. Captured(f, n)
    BY <1>4 DEF Capture
  <2> HIDE DEF n
  <2> QED BY <1>4, <2>2, <2>3, CapturedReads DEF Reads
<1> QED BY <1>1, <1>2, <1>3, <1>4

-----------------------------------------------------------------------------
(* One flow goes on and the others stand still. *)

LEMMA OneMoves ==
  ASSUME Shape, NEW f \in Flows, NEW r \in FlowRec, flow' = [flow EXCEPT ![f] = r]
  PROVE  /\ flow' \in [Flows -> FlowRec] /\ flow'[f] = r
         /\ \A g \in Flows : g # f => flow'[g] = flow[g]
         /\ Busy' \subseteq Busy \cup {f} /\ Busy \subseteq Busy' \cup {f}
         /\ f \in Busy' <=> r.step \notin Resting
BY DEF Shape, Busy

LEMMA TextedKeeps ==
  ASSUME Shape, AllTexted, NEW f \in Flows, NEW r \in FlowRec, flow' = [flow EXCEPT ![f] = r],
         r.step \notin Resting => Texted(r)
  PROVE  AllTexted'
<1> SUFFICES ASSUME NEW g \in Busy' PROVE Texted(flow'[g])
  BY DEF AllTexted, Texted
<1>0. g \in Flows
  BY DEF Busy
<1>1. CASE g = f
  BY <1>1, OneMoves
<1>2. CASE g # f
  BY <1>0, <1>2, OneMoves DEF AllTexted
<1> QED BY <1>1, <1>2

LEMMA AloneKeeps ==
  ASSUME Shape, Alone, NEW f \in Flows, NEW r \in FlowRec, flow' = [flow EXCEPT ![f] = r],
         slips \subseteq slips', f \in Busy \/ (Busy # {} => "overlap" \in slips')
  PROVE  Alone'
<1> SUFFICES ASSUME "overlap" \notin slips', NEW g \in Busy', NEW h \in Busy' PROVE g = h
  BY DEF Alone, Clean
<1>1. g \in Busy \cup {f} /\ h \in Busy \cup {f}
  BY OneMoves
<1>2. \A a, b \in Busy : a = b
  BY DEF Alone, Clean
<1> QED BY <1>1, <1>2

(* While nobody overlaps it is the only one. *)
LEMMA Lonely ==
  ASSUME Shape, Alone, NEW f \in Flows, NEW r \in FlowRec, flow' = [flow EXCEPT ![f] = r],
         slips \subseteq slips', f \in Busy \/ (Busy # {} => "overlap" \in slips'), "overlap" \notin slips'
  PROVE  Busy \subseteq {f} /\ Busy' \subseteq {f}
<1>1. \A a, b \in Busy : a = b
  BY DEF Alone, Clean
<1> QED BY <1>1, OneMoves

LEMMA KeysKeep ==
  ASSUME Shape, KeysFit, NEW f \in Flows, NEW r \in FlowRec, flow' = [flow EXCEPT ![f] = r],
         slips \subseteq slips', keys' = keys,
         f \notin Busy \/ flow[f].step \notin {"copies", "posted"}
  PROVE  KeysFit'
<1> SUFFICES ASSUME Clean({"slow", "overlap", "quit"}), NEW k \in keys PROVE KeyFits(k)'
  BY DEF KeysFit, Clean
<1>1. KeyFits(k)
  BY DEF KeysFit
<1>2. k.flow \in Flows /\ k.flow # f
  BY <1>1 DEF KeyFits, Busy
<1>3. flow'[k.flow] = flow[k.flow]
  BY <1>2, OneMoves
<1> QED BY <1>1, <1>2, <1>3 DEF KeyFits, Busy

LEMMA StoppedKeeps ==
  ASSUME Shape, StoppedFits, NEW f \in Flows, NEW r \in FlowRec, flow' = [flow EXCEPT ![f] = r],
         slips \subseteq slips',
         r.stopped = "call" => \/ r.step \in {"asked", "done"}
                               \/ r.step = "answered" /\ r.new = NoText
                               \/ "unheard" \in slips'
  PROVE  StoppedFits'
<1> SUFFICES ASSUME NEW g \in Flows PROVE Stopped(flow[g])'
  BY DEF StoppedFits
<1>1. CASE g = f
  BY <1>1, OneMoves DEF Stopped
<1>2. CASE g # f
  BY <1>2, OneMoves DEF Stopped, StoppedFits
<1> QED BY <1>1, <1>2

-----------------------------------------------------------------------------
(* The runs of the model. *)

(* A flow that asked for none begins one, or goes on without. *)
LEMMA GensRun ==
  ASSUME Shape, GensFit, NEW f \in Flows, NEW r \in FlowRec, flow' = [flow EXCEPT ![f] = r],
         NEW q, q.gen = 0, f \in Busy => flow[f].gen = 0,
         r.step \in {"done", "queue", "asked", "soon"} \cup Pastes, r.step = "soon" => r.gen = 0,
         Runs(f, q, r)
  PROVE  GensFit'
<1>0. generation \in Nat /\ handle \in Nat /\ \A g \in Flows : g # 0 /\ flow[g].gen \in Nat
  BY Numbers, RecordIs DEF Shape
<1>1. /\ \A g \in Busy' : g \in Flows /\ (g # f => g \in Busy /\ flow'[g] = flow[g])
      /\ flow'[f] = r /\ (f \in Busy' <=> r.step # "done") /\ Busy \subseteq Busy' \cup {f}
      /\ \A g \in Busy : g \in Flows /\ (g # f => flow'[g] = flow[g])
  BY OneMoves DEF Busy, Resting, Pastes
<1>2. CASE handle' = handle /\ generation' = generation /\ r.gen = q.gen /\ r.step # "asked"
  <2>0. r.gen = 0
    BY <1>2
  <2>1. handle' # 0 => generation' > 0 /\ \E g \in Busy' : flow'[g].gen = generation'
    <3> SUFFICES ASSUME handle # 0 PROVE generation > 0 /\ \E g \in Busy' : flow'[g].gen = generation
      BY <1>2
    <3>1. PICK g \in Busy : flow[g].gen = generation /\ generation > 0
      BY DEF GensFit
    <3>2. g # f
      BY <3>1
    <3> QED BY <1>1, <3>1, <3>2
  <2>2. ASSUME NEW g \in Busy' PROVE GenOf(g, flow[g])'
    <3>1. CASE g = f
      BY <1>0, <1>1, <1>2, <2>0, <3>1 DEF GenOf, Reading, Pastes
    <3>2. CASE g # f
      <4>1. GenOf(g, flow[g])
        BY <1>1, <3>2 DEF GensFit
      <4> QED BY <1>1, <1>2, <3>2, <4>1 DEF GenOf
    <3> QED BY <3>1, <3>2
  <2>3. ASSUME NEW g \in Busy', NEW h \in Busy', flow'[g].gen = flow'[h].gen, flow'[g].gen > 0 PROVE g = h
    <3>1. g # f /\ h # f
      BY <1>1, <2>0, <2>3
    <3> QED BY <1>1, <2>3, <3>1 DEF GensFit
  <2> QED BY <2>1, <2>2, <2>3 DEF GensFit
<1>3. CASE /\ generation' = generation + 1 /\ r.gen = generation + 1
           /\ handle' = IF r.step = "asked" THEN f ELSE IF r.step = "done" THEN 0 ELSE handle
           /\ r.step = "queue" => r.reads = "verify"
  <2>1. handle' # 0 => generation' > 0 /\ \E g \in Busy' : flow'[g].gen = generation'
    <3> SUFFICES ASSUME handle' # 0 PROVE generation' > 0 /\ f \in Busy' /\ flow'[f].gen = generation'
      OBVIOUS
    <3>1. r.step # "done"
      BY <1>3
    <3> QED BY <1>0, <1>1, <1>3, <3>1
  <2>2. ASSUME NEW g \in Busy' PROVE GenOf(g, flow[g])'
    <3>1. CASE g = f
      BY <1>0, <1>1, <1>3, <3>1 DEF GenOf, Reading, Pastes
    <3>2. CASE g # f
      <4>1. GenOf(g, flow[g]) /\ g \in Flows
        BY <1>1, <3>2 DEF GensFit
      <4>2. flow[g].gen <= generation /\ flow[g].gen # generation'
        BY <1>0, <1>3, <4>1 DEF GenOf
      <4> QED BY <1>0, <1>1, <1>3, <3>2, <4>1, <4>2 DEF GenOf
    <3> QED BY <3>1, <3>2
  <2>3. ASSUME NEW g \in Busy', NEW h \in Busy', flow'[g].gen = flow'[h].gen, flow'[g].gen > 0 PROVE g = h
    <3>1. \A e \in Busy : flow[e].gen # generation + 1
      BY <1>0, <1>1 DEF GensFit, GenOf
    <3>2. g = f <=> h = f
      BY <1>1, <1>3, <2>3, <3>1
    <3> QED BY <1>1, <2>3, <3>2 DEF GensFit
  <2> QED BY <2>1, <2>2, <2>3 DEF GensFit
<1> QED BY <1>2, <1>3 DEF Runs

(* A flow with its run goes on or ends. *)
LEMMA GensEnd ==
  ASSUME Shape, GensFit, NEW f \in Busy, NEW r \in FlowRec, flow' = [flow EXCEPT ![f] = r],
         r.gen = flow[f].gen, generation' = generation, Release(f),
         r.step \notin {"none", "soon", "asked"}, r.step = "answered" => r.gen > 0,
         r.step \in Reading /\ r.reads = "capture" => r.gen = 0
  PROVE  GensFit'
<1>f. f \in Flows
  BY DEF Busy
<1>0. generation \in Nat /\ handle \in Nat /\ \A g \in Flows : g # 0 /\ flow[g].gen \in Nat
  BY Numbers, RecordIs DEF Shape
<1>1. /\ \A g \in Busy' : g \in Flows /\ (g # f => g \in Busy /\ flow'[g] = flow[g])
      /\ flow'[f] = r /\ (f \in Busy' <=> r.step # "done") /\ Busy \subseteq Busy' \cup {f}
      /\ \A g \in Busy : g \in Flows /\ (g # f => flow'[g] = flow[g])
  BY <1>f, OneMoves DEF Busy, Resting
<1>2. handle' = IF r.step = "done" /\ r.gen = generation THEN 0 ELSE handle
  BY <1>1 DEF Release, Ends
<1>3. handle' # 0 => generation' > 0 /\ \E g \in Busy' : flow'[g].gen = generation'
  <2> SUFFICES ASSUME handle' # 0 PROVE generation > 0 /\ \E g \in Busy' : flow'[g].gen = generation
    OBVIOUS
  <2>1. PICK g \in Busy : flow[g].gen = generation /\ generation > 0
    BY <1>2 DEF GensFit
  <2>2. CASE g # f
    BY <1>1, <2>1, <2>2
  <2>3. CASE g = f
    BY <1>1, <1>2, <2>1, <2>3
  <2> QED BY <2>2, <2>3
<1>4. ASSUME NEW g \in Busy' PROVE GenOf(g, flow[g])'
  <2>1. CASE g = f
    <3>1. GenOf(f, flow[f])
      BY DEF GensFit
    <3> QED BY <1>0, <1>1, <2>1, <3>1 DEF GenOf
  <2>2. CASE g # f
    <3>1. GenOf(g, flow[g]) /\ g \in Busy
      BY <1>1, <2>2 DEF GensFit
    <3>2. flow[g].gen = generation /\ flow[g].gen > 0 => r.gen # generation
      BY <2>2, <3>1 DEF GensFit
    <3> QED BY <1>1, <1>2, <2>2, <3>1, <3>2 DEF GenOf
  <2> QED BY <2>1, <2>2
<1>5. ASSUME NEW g \in Busy', NEW h \in Busy', flow'[g].gen = flow'[h].gen, flow'[g].gen > 0 PROVE g = h
  <2>1. g \in Busy /\ h \in Busy
    BY <1>1
  <2>2. flow'[g].gen = flow[g].gen /\ flow'[h].gen = flow[h].gen
    BY <1>1
  <2> QED BY <1>5, <2>1, <2>2 DEF GensFit
<1> QED BY <1>3, <1>4, <1>5 DEF GensFit

LEMMA GensStay ==
  ASSUME Shape, GensFit, NEW f \in Busy, NEW r \in FlowRec, flow' = [flow EXCEPT ![f] = r],
         r.gen = flow[f].gen, generation' = generation, handle' = handle,
         r.step \notin {"none", "done", "soon", "asked"}, r.step = "answered" => r.gen > 0,
         r.step \in Reading /\ r.reads = "capture" => r.gen = 0
  PROVE  GensFit'
<1>1. flow'[f] = r
  BY OneMoves DEF Busy
<1>2. Release(f)
  BY <1>1 DEF Release, Ends
<1> QED BY <1>2, GensEnd

-----------------------------------------------------------------------------
(* What was read, or answered, is put to use. *)

ClipSlips == {"copied", "slow", "overlap", "quit"}
PasteSlips == {"moved", "replaced", "copied", "slow", "overlap", "quit"}
User == front' = front /\ sel' = sel /\ users' = users /\ moves' = moves

LEMMA LandsShape ==
  ASSUME Shape, NEW f \in Flows, NEW r \in FlowRec, Lands(f, r), User, keys' = keys,
         handle' \in {handle, 0, f}, generation' \in {generation, generation + 1},
         last' \in {last, NoReplacement},
         tool' \in Sessions, tool' = NoSession \/ (tool'.text # NoText /\ tool'.host \in Hosts)
  PROVE  Shape'
<1>1. flow' \in [Flows -> FlowRec]
  BY OneMoves DEF Lands
<1>2. f \in Nat /\ r.new \in Said
  BY Numbers, RecordIs
<1>3. clip' \in Clip
  BY <1>2 DEF Lands, Clip, Shape
<1>4. handle' \in Nat /\ generation' \in Nat /\ (handle' # 0 => handle' \in Flows)
  BY <1>2 DEF Shape
<1>5. NoReplacement \in [host : Somewhere, text : Said, new : Said]
  BY Numbers DEF NoReplacement, Somewhere
<1> QED BY <1>1, <1>3, <1>4, <1>5 DEF Shape, User

LEMMA LandsKeeps ==
  ASSUME IInv, NEW f \in Flows, NEW r \in FlowRec, Lands(f, r),
         flow[f].step \in {"none", "soon", "heard", "answered"},
         slips \subseteq slips', flow[f].step = "none" => (Busy # {} => "overlap" \in slips'),
         slips' \cap PasteSlips = {} => Seen(r),
         User, keys' = keys
  PROVE  AllTexted' /\ Alone' /\ KeysFit' /\ ClipFits' /\ PasteFits'
<1>0. /\ Shape /\ AllTexted /\ Alone /\ KeysFit /\ ClipFits /\ PasteFits
      /\ flow' = [flow EXCEPT ![f] = r]
  BY DEF IInv, Lands
<1>a. f \in Busy <=> flow[f].step # "none"
  BY DEF Busy, Resting
<1>b. f \in Busy \/ (Busy # {} => "overlap" \in slips')
  BY <1>a
<1>1. AllTexted'
  BY <1>0, TextedKeeps DEF Lands, Resting
<1>2. Alone'
  BY <1>0, <1>b, AloneKeeps
<1>3. KeysFit'
  BY <1>0, KeysKeep
<1>4. flow'[f] = r /\ (f \in Busy' <=> r.step # "done")
  BY <1>0, OneMoves DEF Resting, Lands, Pastes
<1>5. ClipFits'
  <2> SUFFICES ASSUME slips' \cap ClipSlips = {}
               PROVE  /\ Busy' = {} => clip'.holds = users
                      /\ \A g \in Busy' : ClipOf(g, flow[g])'
    BY DEF ClipFits, Clean, ClipSlips, User
  <2>1. Busy \subseteq {f} /\ Busy' \subseteq {f}
    BY <1>0, <1>b, Lonely DEF ClipSlips
  <2>2. clip.holds = users
    <3>1. slips \cap ClipSlips = {}
      OBVIOUS
    <3>2. CASE f \in Busy
      <4>1. ClipOf(f, flow[f])
        BY <1>0, <3>1, <3>2 DEF ClipFits, Clean, ClipSlips
      <4> QED BY <4>1 DEF ClipOf, Landing
    <3>3. CASE f \notin Busy
      BY <1>0, <2>1, <3>1, <3>3 DEF ClipFits, Clean, ClipSlips
    <3> QED BY <3>2, <3>3
  <2>3. CASE r.step = "done"
    BY <1>4, <2>1, <2>2, <2>3 DEF Lands, Pastes
  <2>4. CASE r.step \in {"queue", "asked", "soon"}
    BY <1>4, <2>1, <2>2, <2>4 DEF Lands, Pastes, ClipOf, Landing, User
  <2>5. CASE r.step \in Pastes
    <3>1. clip' = [holds |-> r.new, by |-> f] /\ r.saved = users
      BY <2>2, <2>5 DEF Lands
    <3>2. ClipOf(f, r)'
      BY <2>5, <3>1 DEF ClipOf, Pastes, Landing, User
    <3> QED BY <1>4, <2>1, <2>5, <3>2 DEF Pastes
  <2> QED BY <2>3, <2>4, <2>5 DEF Lands
<1>6. PasteFits'
  <2> SUFFICES ASSUME slips' \cap PasteSlips = {}, NEW g \in Busy'
               PROVE  PasteOf(g, flow[g])'
    BY DEF PasteFits, Clean, PasteSlips
  <2>1. g = f
    BY <1>0, <1>b, Lonely DEF PasteSlips
  <2>2. Seen(r) /\ r.step \in {"queue", "asked", "soon"} \cup Pastes
    BY <1>4, <2>1 DEF Lands
  <2>3. CASE r.step \in {"queue", "asked", "soon"}
    BY <1>4, <2>1, <2>3 DEF PasteOf
  <2>4. CASE r.step \in Pastes
    <3>1. clip'.holds = r.new /\ sel'[r.host] = r.text /\ (r.step = "armed" => front' = r.host)
      BY <2>2, <2>4 DEF Lands, Seen, User
    <3> QED BY <1>4, <2>1, <2>4, <3>1 DEF PasteOf, Over, Pastes
  <2> QED BY <2>2, <2>3, <2>4
<1> QED BY <1>1, <1>2, <1>3, <1>5, <1>6

(* Panel leaves a session of what was read. *)
LEMMA PanelFits ==
  ASSUME Shape, NEW f \in Flows, NEW r \in FlowRec, flow' = [flow EXCEPT ![f] = r], r.host \in Hosts,
         NEW isOpen, NEW session \in {tool, NoSession}, Panel(f, isOpen, session)
  PROVE  tool' \in Sessions /\ (tool' = NoSession \/ (tool'.text # NoText /\ tool'.host \in Hosts))
<1>1. flow'[f] = r /\ r.text \in Said /\ r.host \in Somewhere
  BY OneMoves, RecordIs
<1>2. NoSession \in Sessions
  BY Numbers DEF NoSession, Sessions, Somewhere
<1>3. CASE tool' = session
  BY <1>2, <1>3 DEF Shape
<1>4. CASE tool' = [host |-> r.host, text |-> r.text] /\ r.text # NoText
  BY <1>1, <1>4 DEF Sessions
<1>5. tool' = session \/ (tool' = [host |-> r.host, text |-> r.text] /\ r.text # NoText)
  BY <1>1 DEF Panel
<1> QED BY <1>3, <1>4, <1>5

(* A key or a click begins a flow. *)
LEMMA Begins ==
  ASSUME IInv, NEW f \in Flows, Starts(f), NEW n \in FlowRec, n.gen = 0, n.stopped = "no",
         NEW r \in FlowRec, Lands(f, r), Seen(r), Runs(f, n, r), User, keys' = keys,
         last' \in {last, NoReplacement}, NEW isOpen, NEW session \in {tool, NoSession},
         Panel(f, isOpen, session)
  PROVE  IInv'
<1>0. Shape /\ StoppedFits /\ GensFit /\ flow' = [flow EXCEPT ![f] = r]
  BY DEF IInv, Lands
<1>1. flow[f].step = "none" /\ slips \subseteq slips' /\ (Busy # {} => "overlap" \in slips')
  BY DEF Starts, Slips
<1>2. f \notin Busy
  BY <1>1 DEF Busy, Resting
<1>3. tool' \in Sessions /\ (tool' = NoSession \/ (tool'.text # NoText /\ tool'.host \in Hosts))
  BY <1>0, PanelFits DEF Lands
<1>4. handle' \in {handle, 0, f} /\ generation' \in {generation, generation + 1}
  BY DEF Runs
<1>5. Shape'
  BY <1>0, <1>3, <1>4, LandsShape
<1>6. AllTexted' /\ Alone' /\ KeysFit' /\ ClipFits' /\ PasteFits'
  BY <1>1, LandsKeeps
<1>7. StoppedFits'
  BY <1>0, <1>1, StoppedKeeps DEF Runs
<1>8. GensFit'
  BY <1>0, <1>2, GensRun DEF Lands, Pastes
<1> QED BY <1>5, <1>6, <1>7, <1>8 DEF IInv

LEMMA CaptureBegins ==
  ASSUME IInv, NEW f \in Flows, Starts(f), NEW q \in FlowRec, q.gen = 0, q.stopped = "no",
         q.host \in Hosts, q.step = "none", q.reads = "capture", q.kind = "restore" => q.want # NoText,
         Capture(f, q), User, keys' = keys, NEW isOpen, NEW session \in {tool, NoSession},
         Panel(f, isOpen, session)
  PROVE  IInv'
<1>1. Shape
  BY DEF IInv
<1>2. /\ last' \in {last, NoReplacement}
      /\ \E n \in FlowRec, r \in FlowRec :
           n.gen = q.gen /\ n.stopped = q.stopped /\ Lands(f, r) /\ Seen(r) /\ Runs(f, n, r)
  BY <1>1, CaptureReads
<1>3. PICK n \in FlowRec, r \in FlowRec :
        n.gen = q.gen /\ n.stopped = q.stopped /\ Lands(f, r) /\ Seen(r) /\ Runs(f, n, r)
  BY <1>2
<1> QED BY <1>2, <1>3, Begins

(* A flow without a run goes on. *)
LEMMA GoesFrom ==
  ASSUME IInv, NEW f \in Flows, flow[f].step \in {"soon", "heard"}, flow[f].gen = 0,
         NEW q \in FlowRec, q.gen = 0, q.stopped = flow[f].stopped, Reads(f, q),
         User, keys' = keys, slips' = slips,
         tool' \in Sessions, tool' = NoSession \/ (tool'.text # NoText /\ tool'.host \in Hosts)
  PROVE  IInv'
<1>1. PICK r \in FlowRec : Lands(f, r) /\ Seen(r) /\ Runs(f, q, r)
  BY DEF Reads
<1>2. last' \in {last, NoReplacement}
  BY DEF Reads
<1>0. Shape /\ StoppedFits /\ GensFit /\ flow' = [flow EXCEPT ![f] = r]
  BY <1>1 DEF IInv, Lands
<1>4. handle' \in {handle, 0, f} /\ generation' \in {generation, generation + 1}
  BY <1>1 DEF Runs
<1>5. Shape'
  BY <1>0, <1>1, <1>2, <1>4, LandsShape
<1>6. AllTexted' /\ Alone' /\ KeysFit' /\ ClipFits' /\ PasteFits'
  BY <1>1, LandsKeeps
<1>7. StoppedFits'
  <2>1. Stopped(flow[f])
    BY <1>0 DEF StoppedFits
  <2> QED BY <1>0, <1>1, <2>1, StoppedKeeps DEF Runs, Stopped
<1>8. GensFit'
  BY <1>0, <1>1, GensRun DEF Lands, Pastes
<1> QED BY <1>5, <1>6, <1>7, <1>8 DEF IInv

(* A flow with a run goes on or ends. *)
LEMMA EndsFrom ==
  ASSUME IInv, NEW f \in Flows, flow[f].step \in {"heard", "answered"},
         NEW r \in FlowRec, Lands(f, r), slips \cap PasteSlips = {} => Seen(r),
         r.gen = flow[f].gen, r.stopped = flow[f].stopped, r.step \notin {"asked", "soon"},
         r.step = "queue" => r.reads = "verify",
         flow[f].step = "answered" /\ flow[f].new = NoText => r.step = "done",
         Release(f), generation' = generation, last' = last, User, keys' = keys, slips' = slips,
         tool' \in Sessions, tool' = NoSession \/ (tool'.text # NoText /\ tool'.host \in Hosts)
  PROVE  IInv'
<1>0. Shape /\ StoppedFits /\ GensFit /\ flow' = [flow EXCEPT ![f] = r] /\ f \in Busy
  BY DEF IInv, Lands, Busy, Resting
<1>4. handle' \in {handle, 0, f}
  BY DEF Release
<1>5. Shape'
  BY <1>0, <1>4, LandsShape
<1>6. AllTexted' /\ Alone' /\ KeysFit' /\ ClipFits' /\ PasteFits'
  BY LandsKeeps
<1>7. StoppedFits'
  <2>1. Stopped(flow[f])
    BY <1>0 DEF StoppedFits
  <2> QED BY <1>0, <2>1, StoppedKeeps DEF Stopped
<1>8. GensFit'
  BY <1>0, GensEnd DEF Lands, Pastes, Reading
<1> QED BY <1>5, <1>6, <1>7, <1>8 DEF IInv

-----------------------------------------------------------------------------
(* The keys and clicks. *)

LEMMA FixKeeps ==
  ASSUME IInv, NEW f \in Flows, Fix(f)
  PROVE  IInv'
<1> DEFINE q == Fresh("fix")
<1>1. front \in Hosts
  BY DEF IInv, Shape
<1>2. /\ q \in FlowRec /\ q.kind = "fix" /\ q.host = front /\ q.step = "none"
      /\ q.reads = "capture" /\ q.gen = 0 /\ q.stopped = "no" /\ q.got = NoText /\ q.text = NoText
  BY <1>1, FreshIs
<1>3. Starts(f) /\ Capture(f, q) /\ Panel(f, FALSE, Closed) /\ keys' = keys /\ User
  BY DEF Fix, User, user
<1>4. Closed \in {tool, NoSession}
  BY DEF Closed
<1> HIDE DEF q
<1> QED BY <1>1, <1>2, <1>3, <1>4, CaptureBegins

LEMMA InstructKeeps ==
  ASSUME IInv, NEW f \in Flows, Instruct(f)
  PROVE  IInv'
<1> DEFINE q == Fresh("panel")
<1>1. front \in Hosts
  BY DEF IInv, Shape
<1>2. /\ q \in FlowRec /\ q.kind = "panel" /\ q.host = front /\ q.step = "none"
      /\ q.reads = "capture" /\ q.gen = 0 /\ q.stopped = "no" /\ q.got = NoText /\ q.text = NoText
  BY <1>1, FreshIs
<1>3. Starts(f) /\ Capture(f, q) /\ Panel(f, panel, tool) /\ keys' = keys /\ User
  BY DEF Instruct, User, user
<1> HIDE DEF q
<1> QED BY <1>1, <1>2, <1>3, CaptureBegins

LEMMA RestoreKeeps ==
  ASSUME IInv, NEW f \in Flows, Restore(f)
  PROVE  IInv'
<1> DEFINE p == Fresh("restore")
<1> DEFINE q == [p EXCEPT !.new = last.text, !.want = last.new, !.home = last.host]
<1>1. /\ front \in Hosts /\ last.new # NoText
      /\ last.text \in Said /\ last.new \in Said /\ last.host \in Somewhere
  BY DEF IInv, Shape, Restore
<1>2. /\ p \in FlowRec /\ p.kind = "restore" /\ p.host = front /\ p.step = "none"
      /\ p.reads = "capture" /\ p.gen = 0 /\ p.stopped = "no" /\ p.got = NoText /\ p.text = NoText
  BY <1>1, FreshIs
<1>3. Starts(f) /\ Capture(f, q) /\ Panel(f, FALSE, Closed) /\ keys' = keys /\ User
  BY DEF Restore, User, user
<1> HIDE DEF p
<1>4. /\ q \in FlowRec /\ q.kind = p.kind /\ q.host = p.host /\ q.step = p.step /\ q.reads = p.reads
      /\ q.gen = p.gen /\ q.stopped = p.stopped /\ q.want = last.new
  BY <1>1, <1>2 DEF FlowRec
<1>5. Closed \in {tool, NoSession}
  BY DEF Closed
<1> HIDE DEF q
<1> QED BY <1>1, <1>2, <1>3, <1>4, <1>5, CaptureBegins

LEMMA ClickKeeps ==
  ASSUME IInv, NEW f \in Flows, NEW kind \in {"fix", "bold", "panel"}, Click(f, kind)
  PROVE  IInv'
<1> DEFINE p == Fresh(kind)
<1>1. Shape /\ front \in Hosts
  BY DEF IInv, Shape
<1>2. /\ p \in FlowRec /\ p.kind = kind /\ p.host = front /\ p.step = "none"
      /\ p.reads = "capture" /\ p.gen = 0 /\ p.stopped = "no" /\ p.got = NoText /\ p.text = NoText
  BY <1>1, FreshIs
<1>3. Starts(f) /\ Panel(f, panel, tool) /\ keys' = keys /\ User
  BY DEF Click, User, user
<1>4. CASE tool = NoSession
  <2>1. Capture(f, p)
    BY <1>4 DEF Click
  <2> HIDE DEF p
  <2> QED BY <1>1, <1>2, <1>3, <2>1, CaptureBegins
<1>5. CASE tool # NoSession
  <2> DEFINE q == [p EXCEPT !.host = tool.host, !.text = tool.text]
  <2>1. Captured(f, q)
    BY <1>5 DEF Click
  <2>2. tool.host \in Hosts /\ tool.host \in Somewhere /\ tool.text \in Said /\ tool.text # NoText
    BY <1>1, <1>5 DEF Shape, Sessions, Somewhere
  <2> HIDE DEF p
  <2>3. /\ q \in FlowRec /\ q.kind = kind /\ q.host = tool.host /\ q.text = tool.text
        /\ q.reads = p.reads /\ q.gen = p.gen /\ q.stopped = p.stopped
    BY <1>2, <2>2 DEF FlowRec
  <2> HIDE DEF q
  <2>4. Reads(f, q)
    BY <1>1, <1>2, <2>1, <2>2, <2>3, CapturedReads
  <2>5. PICK r \in FlowRec : Lands(f, r) /\ Seen(r) /\ Runs(f, q, r)
    BY <2>4 DEF Reads
  <2>6. last' \in {last, NoReplacement}
    BY <2>4 DEF Reads
  <2> QED BY <1>2, <1>3, <2>3, <2>5, <2>6, Begins
<1> QED BY <1>4, <1>5

LEMMA SubmitKeeps ==
  ASSUME IInv, NEW f \in Flows, Submit(f)
  PROVE  IInv'
<1> DEFINE p == Fresh("edit")
<1> DEFINE r == [p EXCEPT !.step = "soon", !.host = tool.host, !.text = tool.text]
<1>1. Shape /\ front \in Hosts
  BY DEF IInv, Shape
<1>2. /\ p \in FlowRec /\ p.kind = "edit" /\ p.host = front /\ p.step = "none"
      /\ p.reads = "capture" /\ p.gen = 0 /\ p.stopped = "no" /\ p.got = NoText /\ p.text = NoText
  BY <1>1, FreshIs
<1>3. /\ Starts(f) /\ Panel(f, FALSE, tool) /\ keys' = keys /\ User /\ clip' = clip
      /\ handle' = handle /\ generation' = generation /\ last' = last
      /\ flow' = [flow EXCEPT ![f] = r]
  BY DEF Submit, User, user, Step
<1>4. tool.host \in Hosts /\ tool.host \in Somewhere /\ tool.text \in Said /\ tool.text # NoText
  BY <1>1 DEF Submit, Shape, Sessions, Somewhere
<1>5. "soon" \in Steps
  BY DEF Steps
<1> HIDE DEF p
<1>6. /\ r \in FlowRec /\ r.kind = p.kind /\ r.host = tool.host /\ r.text = tool.text /\ r.step = "soon"
      /\ r.reads = p.reads /\ r.gen = p.gen /\ r.stopped = p.stopped
  BY <1>2, <1>4, <1>5 DEF FlowRec
<1> HIDE DEF r
<1>7. Texted(r)
  BY <1>2, <1>4, <1>6 DEF Texted, Landing
<1>8. Lands(f, r) /\ Seen(r) /\ Runs(f, r, r)
  BY <1>2, <1>3, <1>4, <1>6, <1>7 DEF Lands, Seen, Runs, Pastes
<1> QED BY <1>2, <1>3, <1>6, <1>8, Begins

-----------------------------------------------------------------------------
(* The turns of a flow. *)

LEMMA ToolStays ==
  ASSUME Shape, tool' = tool
  PROVE  tool' \in Sessions /\ (tool' = NoSession \/ (tool'.text # NoText /\ tool'.host \in Hosts))
BY DEF Shape

LEMMA EditBeginsKeeps ==
  ASSUME IInv, NEW f \in Flows, EditBegins(f)
  PROVE  IInv'
<1> DEFINE q == flow[f]
<1>1. Shape /\ f \in Busy /\ q.step = "soon" /\ q \in FlowRec
  BY DEF IInv, EditBegins, Busy, Resting, Shape
<1>2. Texted(q) /\ GenOf(f, q)
  BY <1>1 DEF IInv, AllTexted, GensFit
<1>3. q.reads = "capture" /\ q.kind # "restore" /\ q.text # NoText /\ q.host \in Hosts /\ q.gen = 0
  BY <1>1, <1>2, RecordIs DEF Texted, GenOf, Reading, Landing
<1>4. Run(f, q) /\ User /\ keys' = keys /\ slips' = slips /\ tool' = tool
  BY DEF EditBegins, User, user, bars
<1> HIDE DEF q
<1>5. Reads(f, q)
  BY <1>1, <1>3, <1>4, RunLands DEF Reads
<1> USE DEF q
<1> QED BY <1>1, <1>3, <1>4, <1>5, ToolStays, GoesFrom

LEMMA AnsweredKeeps ==
  ASSUME IInv, NEW f \in Flows, Answered(f)
  PROVE  IInv'
<1> DEFINE q == flow[f]
<1>1. Shape /\ f \in Busy /\ q.step = "answered" /\ q \in FlowRec
  BY DEF IInv, Answered, Busy, Resting, Shape
<1>2. Texted(q)
  BY <1>1 DEF IInv, AllTexted
<1>3. q.kind # "restore" /\ q.text # NoText /\ q.host \in Hosts
  BY <1>1, <1>2 DEF Texted
<1>4. User /\ keys' = keys /\ slips' = slips /\ tool' = tool /\ Release(f) /\ generation' = generation /\ last' = last
  BY DEF Answered, User, user, bars
<1>5. CASE q.new \in {NoText, q.text}
  <2>1. Step(f, Done(q)) /\ clip' = clip
    BY <1>5 DEF Answered
  <2>2. PICK r \in FlowRec :
           /\ Lands(f, r) /\ Seen(r) /\ r.step = "done" /\ r.host = q.host /\ r.text = q.text
           /\ r.gen = q.gen /\ r.stopped = q.stopped /\ r.kind = q.kind
    BY <1>1, <1>3, <2>1, DoneLands
  <2> QED BY <1>1, <1>4, <2>2, ToolStays, EndsFrom
<1>6. CASE q.new \notin {NoText, q.text}
  <2>1. Replace(f, q)
    BY <1>6 DEF Answered
  <2>2. Replaced(q)
    BY <1>3, <1>6 DEF Replaced
  <2>3. PICK r \in FlowRec :
           /\ Lands(f, r) /\ Seen(r) /\ r.step \notin {"asked", "soon"} /\ (r.step = "queue" => r.reads = "verify")
           /\ r.gen = q.gen /\ r.stopped = q.stopped /\ r.kind = q.kind
    BY <1>1, <2>1, <2>2, ReplaceLands
  <2> QED BY <1>1, <1>4, <1>6, <2>3, ToolStays, EndsFrom
<1> QED BY <1>5, <1>6

LEMMA HeardKeeps ==
  ASSUME IInv, NEW f \in Flows, Heard(f)
  PROVE  IInv'
<1> DEFINE q == flow[f]
<1>1. Shape /\ f \in Busy /\ q.step = "heard" /\ q \in FlowRec
  BY DEF IInv, Heard, Busy, Resting, Shape
<1>2. Texted(q) /\ GenOf(f, q)
  BY <1>1 DEF IInv, AllTexted, GensFit
<1>3. /\ q.host \in Hosts /\ (q.kind = "restore" => q.want # NoText)
      /\ q.reads \in {"capture", "verify"} /\ q.got \in Int
  BY <1>1, <1>2, RecordIs DEF Texted
<1>4. User /\ keys' = keys /\ slips' = slips /\ Panel(f, panel, tool)
  BY DEF Heard, User, user
<1>5. ASSUME NEW r \in FlowRec, Lands(f, r)
      PROVE  tool' \in Sessions /\ (tool' = NoSession \/ (tool'.text # NoText /\ tool'.host \in Hosts))
  BY <1>1, <1>4, <1>5, PanelFits DEF Lands
<1>6. CASE q.reads = "verify"
  <2>1. /\ IF q.got = q.text THEN Paste(f, q) ELSE Step(f, Done(q)) /\ UNCHANGED clip
        /\ generation' = generation /\ last' = last /\ Release(f)
    BY <1>6 DEF Heard
  <2>2. CASE q.got = q.text
    <3>1. Replaced(q)
      BY <1>2, <1>3, <1>6 DEF Replaced, Texted
    <3>2. PICK r \in FlowRec :
             /\ Lands(f, r) /\ r.step \in Pastes /\ r.host = q.host /\ r.text = q.text
             /\ r.gen = q.gen /\ r.stopped = q.stopped /\ r.kind = q.kind
      BY <1>1, <2>1, <2>2, <3>1, PasteLands
    <3>3. slips \cap PasteSlips = {} => Seen(r)
      <4> SUFFICES ASSUME slips \cap PasteSlips = {} PROVE sel[r.host] = r.text
        BY DEF Seen
      <4>1. PasteOf(f, q)
        BY <1>1 DEF IInv, PasteFits, Clean, PasteSlips
      <4> QED BY <1>1, <1>6, <2>2, <3>2, <4>1 DEF PasteOf
    <3> QED BY <1>1, <1>4, <1>5, <2>1, <3>2, <3>3, EndsFrom DEF Pastes
  <2>3. CASE q.got # q.text
    <3>1. Step(f, Done(q)) /\ clip' = clip
      BY <2>1, <2>3
    <3>2. PICK r \in FlowRec :
             /\ Lands(f, r) /\ Seen(r) /\ r.step = "done" /\ r.host = q.host /\ r.text = q.text
             /\ r.gen = q.gen /\ r.stopped = q.stopped /\ r.kind = q.kind
      BY <1>1, <1>3, <3>1, DoneLands
    <3> QED BY <1>1, <1>4, <1>5, <2>1, <3>2, EndsFrom
  <2> QED BY <2>2, <2>3
<1>7. CASE q.reads = "capture"
  <2>1. q.gen = 0
    BY <1>1, <1>2, <1>7 DEF GenOf, Reading
  <2>2. CASE q.got \in {NoText, Changed}
    <3>1. NotCaptured(f, q)
      BY <1>7, <2>2 DEF Heard
    <3>2. Reads(f, q)
      BY <1>1, <1>3, <3>1, NotCapturedReads
    <3>3. tool' \in Sessions /\ (tool' = NoSession \/ (tool'.text # NoText /\ tool'.host \in Hosts))
      BY <1>5, <3>2 DEF Reads
    <3> QED BY <1>1, <1>4, <2>1, <3>2, <3>3, GoesFrom
  <2>3. CASE q.got \notin {NoText, Changed}
    <3> DEFINE n == [q EXCEPT !.text = q.got]
    <3>1. Captured(f, n)
      BY <1>7, <2>3 DEF Heard
    <3>2. q.got \in Said
      BY <1>3, <2>3 DEF Said
    <3>3. /\ n \in FlowRec /\ n.text = q.got
          /\ n.step = q.step /\ n.kind = q.kind /\ n.reads = q.reads /\ n.host = q.host
          /\ n.new = q.new /\ n.want = q.want /\ n.got = q.got
          /\ n.gen = q.gen /\ n.stopped = q.stopped
      BY <1>1, <3>2, TextIs
    <3> HIDE DEF n
    <3>4. Reads(f, n)
      BY <1>1, <1>3, <1>7, <2>3, <3>1, <3>3, CapturedReads
    <3>5. tool' \in Sessions /\ (tool' = NoSession \/ (tool'.text # NoText /\ tool'.host \in Hosts))
      BY <1>5, <3>4 DEF Reads
    <3> QED BY <1>1, <1>4, <2>1, <3>3, <3>4, <3>5, GoesFrom
  <2> QED BY <2>2, <2>3
<1> QED BY <1>3, <1>6, <1>7

(* A turn in which a flow keeps its run, or has none to end. *)
LEMMA TurnShape ==
  ASSUME Shape, NEW f \in Flows, NEW r \in FlowRec, flow' = [flow EXCEPT ![f] = r],
         front' \in Hosts, sel' \in [Hosts -> Said], clip' \in Clip, users' = users, keys' \in SUBSET Keys,
         handle' \in {handle, 0}, generation' = generation, tool' = tool,
         last' \in [host : Somewhere, text : Said, new : Said], last' = NoReplacement \/ last'.new # NoText
  PROVE  Shape'
BY OneMoves DEF Shape

LEMMA PutBackIs ==
  ASSUME Shape, NEW f \in Flows, PutBack(f)
  PROVE  /\ clip' \in Clip
         /\ IF clip.by = f THEN clip'.holds = flow[f].saved ELSE clip' = clip
<1>1. flow[f] \in FlowRec /\ flow[f].saved \in Said
  BY RecordIs DEF Shape
<1> QED BY <1>1 DEF PutBack, Ours, Put, Clip, Shape

LEMMA CopyBeginsKeeps ==
  ASSUME IInv, NEW f \in Flows, CopyBegins(f)
  PROVE  IInv'
<1> DEFINE q == flow[f]
<1>1. /\ Shape /\ AllTexted /\ Alone /\ KeysFit /\ ClipFits /\ PasteFits /\ StoppedFits /\ GensFit
      /\ f \in Busy /\ q.step = "queue" /\ q \in FlowRec
  BY DEF IInv, CopyBegins, Busy, Resting, Shape
<1>2. Texted(q) /\ GenOf(f, q) /\ Stopped(q)
  BY <1>1 DEF AllTexted, GensFit, StoppedFits
<1>3. /\ User /\ slips' = slips /\ tool' = tool /\ handle' = handle /\ generation' = generation /\ last' = last
  BY DEF CopyBegins, User, user, bars
<1>4. q.reads \in {"capture", "verify"} /\ q.text \in Said /\ q.gen \in Nat
  BY <1>1, RecordIs
<1>5. CASE front # q.host
  <2> DEFINE r == [q EXCEPT !.step = "heard", !.got = Changed]
  <2>1. flow' = [flow EXCEPT ![f] = r] /\ clip' = clip /\ keys' = keys
    BY <1>5 DEF CopyBegins, Step
  <2>2. Changed \in Int /\ Changed \notin Said
    BY TextReplaceAssumption DEF Changed, Said
  <2>3. /\ r \in FlowRec /\ r.step = "heard" /\ r.got = Changed
        /\ r.kind = q.kind /\ r.reads = q.reads /\ r.host = q.host /\ r.text = q.text
        /\ r.new = q.new /\ r.want = q.want /\ r.gen = q.gen /\ r.stopped = q.stopped
    BY <1>1, <2>2, HeardIs
  <2> HIDE DEF r, q
  <2>4. Texted(r)
    BY <1>1, <1>2, <2>3 DEF Texted, Landing, Reading
  <2>5. flow'[f] = r /\ \A g \in Flows : g # f => flow'[g] = flow[g]
    BY <1>1, <2>1, <2>3, OneMoves
  <2> USE DEF q
  <2>6. Shape'
    BY <1>1, <1>3, <2>1, <2>3, TurnShape DEF Shape, User
  <2>7. AllTexted' /\ Alone' /\ KeysFit'
    BY <1>1, <1>3, <2>1, <2>3, <2>4, TextedKeeps, AloneKeeps, KeysKeep
  <2>8. ClipFits'
    <3> SUFFICES ASSUME slips' \cap ClipSlips = {}
                 PROVE  /\ Busy' = {} => clip'.holds = users'
                        /\ \A g \in Busy' : ClipOf(g, flow[g])'
      BY DEF ClipFits, Clean, ClipSlips
    <3>1. Busy' \subseteq {f} /\ f \in Busy'
      BY <1>1, <1>3, <2>1, <2>3, Lonely, OneMoves DEF ClipSlips, Resting
    <3>2. ClipOf(f, q)
      BY <1>1, <1>3 DEF ClipFits, Clean, ClipSlips
    <3> QED BY <1>1, <1>3, <2>1, <2>3, <2>5, <3>1, <3>2 DEF ClipOf, Landing, User
  <2>9. PasteFits'
    <3> SUFFICES ASSUME slips' \cap PasteSlips = {}, NEW g \in Busy' PROVE PasteOf(g, flow[g])'
      BY DEF PasteFits, Clean, PasteSlips
    <3>1. g = f
      BY <1>1, <1>3, <2>1, <2>3, Lonely DEF PasteSlips
    <3> QED BY <1>4, <2>2, <2>3, <2>5, <3>1 DEF PasteOf
  <2>10. StoppedFits'
    BY <1>1, <1>2, <1>3, <2>1, <2>3, StoppedKeeps DEF Stopped
  <2>11. GensFit'
    BY <1>1, <1>2, <1>3, <2>1, <2>3, GensStay DEF GenOf, Reading
  <2> QED BY <2>6, <2>7, <2>8, <2>9, <2>10, <2>11 DEF IInv
<1>6. CASE front = q.host
  <2> DEFINE t == clip.holds
  <2> DEFINE k == [key |-> "c", host |-> front, flow |-> f]
  <2> DEFINE r == [q EXCEPT !.step = "copies", !.saved = t]
  <2>1. /\ flow' = [flow EXCEPT ![f] = r] /\ clip' = [holds |-> Sentinel(f), by |-> 0]
        /\ keys' = keys \cup {k}
    BY <1>6 DEF CopyBegins, Step, Put
  <2>2. t \in Said /\ "copies" \in Steps /\ Sentinel(f) \in Said /\ Sentinel(f) # NoText
    BY <1>1, Numbers DEF Shape, Clip, Steps, Reading
  <2>k. k \in Keys /\ k.key = "c" /\ k.host = q.host /\ k.flow = f
    BY <1>1, <1>6 DEF Keys, Shape
  <2> HIDE DEF t, k
  <2>3. /\ r \in FlowRec /\ r.step = "copies" /\ r.saved = t
        /\ r.kind = q.kind /\ r.reads = q.reads /\ r.host = q.host /\ r.text = q.text
        /\ r.new = q.new /\ r.want = q.want /\ r.gen = q.gen /\ r.stopped = q.stopped
    BY <1>1, <2>2 DEF FlowRec
  <2> HIDE DEF r, q
  <2>4. Texted(r)
    BY <1>1, <1>2, <2>3 DEF Texted, Landing, Reading
  <2>5. flow'[f] = r /\ f \in Busy' /\ \A g \in Flows : g # f => flow'[g] = flow[g]
    BY <1>1, <2>1, <2>3, OneMoves DEF Resting
  <2> USE DEF q
  <2>c. clip' \in Clip /\ clip'.holds = Sentinel(f)
    BY <2>1, <2>2 DEF Clip
  <2>6. Shape'
    <3>1. keys' \in SUBSET Keys
      BY <1>1, <2>1, <2>k DEF Shape
    <3> QED BY <1>1, <1>3, <2>1, <2>3, <2>c, <3>1, TurnShape DEF Shape, User
  <2>7. AllTexted' /\ Alone'
    BY <1>1, <1>3, <2>1, <2>3, <2>4, TextedKeeps, AloneKeeps
  <2>8. KeysFit'
    <3> SUFFICES ASSUME Clean({"slow", "overlap", "quit"}), NEW x \in keys' PROVE KeyFits(x)'
      BY <1>3 DEF KeysFit, Clean
    <3>1. CASE x = k
      BY <2>3, <2>5, <2>k, <3>1 DEF KeyFits
    <3>2. CASE x \in keys
      <4>1. KeyFits(x)
        BY <1>1, <3>2 DEF KeysFit
      <4>2. x.flow \in Flows /\ x.flow # f
        BY <1>1, <4>1 DEF KeyFits, Busy
      <4> QED BY <2>5, <4>1, <4>2 DEF KeyFits, Busy
    <3> QED BY <2>1, <3>1, <3>2
  <2>9. ClipFits'
    <3> SUFFICES ASSUME slips' \cap ClipSlips = {}
                 PROVE  /\ Busy' = {} => clip'.holds = users'
                        /\ \A g \in Busy' : ClipOf(g, flow[g])'
      BY DEF ClipFits, Clean, ClipSlips
    <3>1. Busy' \subseteq {f}
      BY <1>1, <1>3, <2>1, <2>3, Lonely DEF ClipSlips
    <3>2. ClipOf(f, q)
      BY <1>1, <1>3 DEF ClipFits, Clean, ClipSlips
    <3>3. t = users
      BY <1>1, <3>2 DEF ClipOf, Landing, t
    <3> QED BY <1>3, <2>2, <2>3, <2>5, <2>c, <3>1, <3>3 DEF ClipOf, Landing, User
  <2>10. PasteFits'
    <3> SUFFICES ASSUME slips' \cap PasteSlips = {}, NEW g \in Busy' PROVE PasteOf(g, flow[g])'
      BY DEF PasteFits, Clean, PasteSlips
    <3>1. g = f
      BY <1>1, <1>3, <2>1, <2>3, Lonely DEF PasteSlips
    <3> QED BY <2>3, <2>5, <2>c, <3>1 DEF PasteOf
  <2>11. StoppedFits'
    BY <1>1, <1>2, <1>3, <2>1, <2>3, StoppedKeeps DEF Stopped
  <2>12. GensFit'
    BY <1>1, <1>2, <1>3, <2>1, <2>3, GensStay DEF GenOf, Reading
  <2> QED BY <2>6, <2>7, <2>8, <2>9, <2>10, <2>11, <2>12 DEF IInv
<1> QED BY <1>5, <1>6

LEMMA CopyEndsKeeps ==
  ASSUME IInv, NEW f \in Flows, CopyEnds(f)
  PROVE  IInv'
<1> DEFINE q == flow[f]
<1> DEFINE t == IF IsCaptured(f) THEN clip.holds ELSE NoText
<1> DEFINE r == [q EXCEPT !.step = "heard", !.got = t]
<1>1. /\ Shape /\ AllTexted /\ Alone /\ KeysFit /\ ClipFits /\ PasteFits /\ StoppedFits /\ GensFit
      /\ f \in Busy /\ q.step = "copies" /\ q \in FlowRec
  BY DEF IInv, CopyEnds, Busy, Resting, Shape
<1>2. Texted(q) /\ GenOf(f, q) /\ Stopped(q)
  BY <1>1 DEF AllTexted, GensFit, StoppedFits
<1>3. /\ User /\ slips \subseteq slips' /\ (Pending(f) => "slow" \in slips')
      /\ tool' = tool /\ handle' = handle /\ generation' = generation /\ last' = last /\ keys' = keys
  BY DEF CopyEnds, User, user, bars, Slips
<1>4. /\ q.reads \in {"capture", "verify"} /\ q.text \in Said /\ q.gen \in Nat /\ q.saved \in Said
      /\ clip.holds \in Said /\ NoText \in Said /\ t \in Int /\ f \in Nat
  <2>1. clip.holds \in Said /\ NoText \in Said
    BY <1>1, Numbers DEF Shape, Clip
  <2> QED BY <1>1, <2>1, RecordIs, Numbers DEF Said
<1>5. flow' = [flow EXCEPT ![f] = r]
  BY DEF CopyEnds, Step
<1>6. IF clip.holds = Sentinel(f) \/ IsCaptured(f) THEN clip' = [holds |-> q.saved, by |-> 0] ELSE clip' = clip
  BY DEF CopyEnds, PutBackRead, Put
<1>7. clip' \in Clip
  BY <1>1, <1>4, <1>6 DEF Clip, Shape
<1>t. t = IF IsCaptured(f) THEN clip.holds ELSE NoText
  OBVIOUS
<1> HIDE DEF t
<1>8. /\ r \in FlowRec /\ r.step = "heard" /\ r.got = t
      /\ r.kind = q.kind /\ r.reads = q.reads /\ r.host = q.host /\ r.text = q.text
      /\ r.new = q.new /\ r.want = q.want /\ r.gen = q.gen /\ r.stopped = q.stopped
  BY <1>1, <1>4, HeardIs
<1> HIDE DEF r
<1>9. Texted(r)
  <2> HIDE DEF q
  <2> QED BY <1>1, <1>2, <1>8 DEF Texted, Landing, Reading
<1>10. flow'[f] = r /\ f \in Busy' /\ \A g \in Flows : g # f => flow'[g] = flow[g]
  BY <1>1, <1>5, <1>8, OneMoves DEF Resting
<1>11. Shape'
  BY <1>1, <1>3, <1>5, <1>7, <1>8, TurnShape DEF Shape, User
<1>12. AllTexted' /\ Alone'
  BY <1>1, <1>3, <1>5, <1>8, <1>9, TextedKeeps, AloneKeeps
<1>13. KeysFit'
  <2> SUFFICES ASSUME slips' \cap {"slow", "overlap", "quit"} = {}, NEW k \in keys PROVE KeyFits(k)'
    BY <1>3 DEF KeysFit, Clean
  <2>1. KeyFits(k)
    BY <1>1, <1>3 DEF KeysFit, Clean
  <2>2. k.flow # f
    BY <1>3 DEF Pending
  <2> QED BY <1>10, <2>1, <2>2 DEF KeyFits, Busy
<1>14. ClipFits'
  <2> SUFFICES ASSUME slips' \cap ClipSlips = {}
               PROVE  /\ Busy' = {} => clip'.holds = users'
                      /\ \A g \in Busy' : ClipOf(g, flow[g])'
    BY DEF ClipFits, Clean, ClipSlips
  <2>1. Busy' \subseteq {f}
    BY <1>1, <1>3, <1>5, <1>8, Lonely DEF ClipSlips
  <2>2. ClipOf(f, q)
    BY <1>1, <1>3 DEF ClipFits, Clean, ClipSlips
  <2>3. q.saved = users /\ clip.holds # NoText
    BY <1>1, <2>2 DEF ClipOf
  <2>4. clip'.holds = users
    BY <1>6, <2>3 DEF IsCaptured
  <2> QED BY <1>3, <1>8, <1>10, <2>1, <2>4 DEF ClipOf, Landing, User
<1>15. PasteFits'
  <2> SUFFICES ASSUME slips' \cap PasteSlips = {}, NEW g \in Busy' PROVE PasteOf(g, flow[g])'
    BY DEF PasteFits, Clean, PasteSlips
  <2>1. g = f
    BY <1>1, <1>3, <1>5, <1>8, Lonely DEF PasteSlips
  <2>2. PasteOf(f, q)
    BY <1>1, <1>3 DEF PasteFits, Clean, PasteSlips
  <2>3. ASSUME r.reads = "verify", r.got = r.text PROVE sel'[r.host] = r.text
    <3>1. q.text # NoText
      BY <1>2, <1>8, <2>3 DEF Texted
    <3>2. IsCaptured(f) /\ clip.holds = q.text
      BY <1>8, <1>t, <2>3, <3>1
    <3> QED BY <1>1, <1>3, <1>8, <2>2, <3>2 DEF PasteOf, IsCaptured, User
  <2> QED BY <1>8, <1>10, <2>1, <2>3 DEF PasteOf
<1>16. StoppedFits'
  BY <1>1, <1>2, <1>3, <1>5, <1>8, StoppedKeeps DEF Stopped
<1>17. GensFit'
  BY <1>1, <1>2, <1>3, <1>5, <1>8, GensStay DEF GenOf, Reading
<1> QED BY <1>11, <1>12, <1>13, <1>14, <1>15, <1>16, <1>17 DEF IInv

(* What every turn keeps that a flow makes after its run was begun. *)
LEMMA TurnKeeps ==
  ASSUME IInv, NEW f \in Busy, NEW r \in FlowRec, flow' = [flow EXCEPT ![f] = r], Texted(r),
         slips \subseteq slips', r.gen = flow[f].gen, r.stopped = flow[f].stopped,
         r.step \in {"answered", "done"} \cup Landing, r.step = "answered" => r.gen > 0,
         generation' = generation, Release(f),
         r.stopped = "call" => \/ r.step = "done"
                               \/ r.step = "answered" /\ r.new = NoText
                               \/ "unheard" \in slips'
  PROVE  AllTexted' /\ Alone' /\ StoppedFits' /\ GensFit'
<1>1. Shape /\ AllTexted /\ Alone /\ StoppedFits /\ GensFit /\ f \in Flows
  BY DEF IInv, Busy
<1>2. AllTexted' /\ Alone'
  BY <1>1, TextedKeeps, AloneKeeps
<1>3. StoppedFits'
  BY <1>1, StoppedKeeps
<1>4. GensFit'
  BY <1>1, GensEnd DEF Landing, Reading
<1> QED BY <1>2, <1>3, <1>4

(* A flow that is over. *)
LEMMA OverKeeps ==
  ASSUME IInv, NEW f \in Busy, flow' = [flow EXCEPT ![f] = Done(flow[f])],
         slips \subseteq slips', generation' = generation, Release(f)
  PROVE  AllTexted' /\ Alone' /\ StoppedFits' /\ GensFit'
<1>1. Shape /\ AllTexted /\ Alone /\ StoppedFits /\ GensFit /\ f \in Flows /\ flow[f] \in FlowRec
  BY DEF IInv, Busy, Shape
<1> DEFINE r == Done(flow[f])
<1>2. r \in FlowRec /\ r.step = "done" /\ r.stopped = flow[f].stopped /\ r.gen = flow[f].gen
  BY <1>1, DoneIs
<1> HIDE DEF r
<1>3. flow' = [flow EXCEPT ![f] = r]
  BY DEF r
<1>4. AllTexted' /\ Alone'
  BY <1>1, <1>2, <1>3, TextedKeeps, AloneKeeps DEF Resting
<1>5. StoppedFits'
  BY <1>1, <1>2, <1>3, StoppedKeeps
<1>6. GensFit'
  BY <1>1, <1>2, <1>3, GensEnd DEF Reading
<1> QED BY <1>4, <1>5, <1>6

LEMMA AnswersKeeps ==
  ASSUME IInv, NEW f \in Flows, Answers(f)
  PROVE  IInv'
<1> DEFINE q == flow[f]
<1>1. /\ Shape /\ AllTexted /\ Alone /\ KeysFit /\ ClipFits /\ PasteFits /\ StoppedFits /\ GensFit
      /\ f \in Busy /\ q.step = "asked" /\ q \in FlowRec
  BY DEF IInv, Answers, Busy, Resting, Shape
<1>2. Texted(q) /\ GenOf(f, q)
  BY <1>1 DEF AllTexted, GensFit
<1>3. PICK good \in BOOLEAN, unheard \in BOOLEAN :
        /\ unheard => good /\ ~Taken(f)
        /\ Step(f, [q EXCEPT !.step = "answered",
                             !.new = IF good /\ (Taken(f) \/ unheard) THEN Fixed(q.text) ELSE NoText])
        /\ Slips(IF unheard THEN {"unheard"} ELSE {})
  BY DEF Answers
<1> DEFINE t == IF good /\ (Taken(f) \/ unheard) THEN Fixed(q.text) ELSE NoText
<1> DEFINE r == [q EXCEPT !.step = "answered", !.new = t]
<1>4. /\ User /\ clip' = clip /\ keys' = keys /\ tool' = tool /\ handle' = handle
      /\ generation' = generation /\ last' = last /\ slips \subseteq slips'
  BY <1>3 DEF Answers, User, user, bars, Slips
<1>5. flow' = [flow EXCEPT ![f] = r]
  BY <1>3 DEF Step
<1>6. t \in Said /\ "answered" \in Steps
  BY <1>1, RecordIs, Numbers DEF Steps
<1>7. q.stopped = "call" => t = NoText \/ "unheard" \in slips'
  BY <1>3 DEF Taken, Slips
<1> HIDE DEF t
<1>8. /\ r \in FlowRec /\ r.step = "answered" /\ r.new = t /\ r.kind = q.kind /\ r.reads = q.reads
      /\ r.host = q.host /\ r.text = q.text /\ r.want = q.want /\ r.gen = q.gen /\ r.stopped = q.stopped
  BY <1>1, <1>6 DEF FlowRec
<1> HIDE DEF r
<1>9. Texted(r)
  <2> HIDE DEF q
  <2> QED BY <1>1, <1>2, <1>8 DEF Texted, Landing, Reading
<1>10. flow'[f] = r /\ f \in Busy' /\ \A g \in Flows : g # f => flow'[g] = flow[g]
  BY <1>1, <1>5, <1>8, OneMoves DEF Resting
<1>11. Shape'
  BY <1>1, <1>4, <1>5, <1>8, TurnShape DEF Shape, User
<1>12. AllTexted' /\ Alone' /\ StoppedFits' /\ GensFit'
  <2>1. q.gen > 0
    BY <1>1, <1>2 DEF GenOf
  <2>2. Release(f)
    BY <1>4, <1>8, <1>10 DEF Release, Ends
  <2> QED BY <1>1, <1>4, <1>5, <1>7, <1>8, <1>9, <2>1, <2>2, TurnKeeps
<1>13. KeysFit'
  BY <1>1, <1>4, <1>5, <1>8, KeysKeep
<1>14. ClipFits'
  <2> SUFFICES ASSUME slips' \cap ClipSlips = {}
               PROVE  /\ Busy' = {} => clip'.holds = users'
                      /\ \A g \in Busy' : ClipOf(g, flow[g])'
    BY DEF ClipFits, Clean, ClipSlips
  <2>1. Busy' \subseteq {f}
    BY <1>1, <1>4, <1>5, <1>8, Lonely DEF ClipSlips
  <2>2. ClipOf(f, q)
    BY <1>1, <1>4 DEF ClipFits, Clean, ClipSlips
  <2>3. clip.holds = users
    BY <1>1, <2>2 DEF ClipOf, Landing
  <2> QED BY <1>4, <1>8, <1>10, <2>1, <2>3 DEF ClipOf, Landing, User
<1>15. PasteFits'
  <2> SUFFICES ASSUME slips' \cap PasteSlips = {}, NEW g \in Busy' PROVE PasteOf(g, flow[g])'
    BY DEF PasteFits, Clean, PasteSlips
  <2>1. g = f
    BY <1>1, <1>4, <1>5, <1>8, Lonely DEF PasteSlips
  <2> QED BY <1>8, <1>10, <2>1 DEF PasteOf
<1> QED BY <1>11, <1>12, <1>13, <1>14, <1>15 DEF IInv

LEMMA ActivatesKeeps ==
  ASSUME IInv, NEW f \in Flows, Activates(f)
  PROVE  IInv'
<1> DEFINE q == flow[f]
<1> DEFINE r == [q EXCEPT !.step = "armed"]
<1>1. /\ Shape /\ AllTexted /\ Alone /\ KeysFit /\ ClipFits /\ PasteFits /\ StoppedFits /\ GensFit
      /\ f \in Busy /\ q.step = "front" /\ q \in FlowRec
  BY DEF IInv, Activates, Busy, Resting, Shape
<1>2. Texted(q) /\ GenOf(f, q) /\ Stopped(q)
  BY <1>1 DEF AllTexted, GensFit, StoppedFits
<1>3. /\ front' = q.host /\ sel' = sel /\ users' = users /\ slips' = slips /\ tool' = tool /\ handle' = handle
      /\ generation' = generation /\ last' = last /\ clip' = clip /\ keys' = keys
      /\ flow' = [flow EXCEPT ![f] = r]
  BY DEF Activates, Step
<1>4. "armed" \in Steps
  BY DEF Steps, Landing
<1>5. /\ r \in FlowRec /\ r.step = "armed"
      /\ r.kind = q.kind /\ r.reads = q.reads /\ r.host = q.host /\ r.text = q.text
      /\ r.new = q.new /\ r.want = q.want /\ r.home = q.home /\ r.got = q.got /\ r.saved = q.saved
      /\ r.gen = q.gen /\ r.stopped = q.stopped
  BY <1>1, <1>4, Stepped
<1> HIDE DEF r
<1>6. Texted(r)
  <2> HIDE DEF q
  <2> QED BY <1>1, <1>2, <1>5 DEF Texted, Landing, Reading
<1>7. flow'[f] = r /\ f \in Busy' /\ \A g \in Flows : g # f => flow'[g] = flow[g]
  BY <1>1, <1>3, <1>5, OneMoves DEF Resting
<1>8. Shape'
  BY <1>1, <1>2, <1>3, <1>5, TurnShape DEF Shape, Texted
<1>9. AllTexted' /\ Alone' /\ StoppedFits' /\ GensFit'
  <2>1. Release(f)
    BY <1>3, <1>5, <1>7 DEF Release, Ends
  <2> QED BY <1>1, <1>2, <1>3, <1>5, <1>6, <2>1, TurnKeeps DEF Landing, Stopped
<1>10. KeysFit'
  BY <1>1, <1>3, <1>5, KeysKeep
<1>11. ClipFits'
  <2> SUFFICES ASSUME slips' \cap ClipSlips = {}
               PROVE  /\ Busy' = {} => clip'.holds = users'
                      /\ \A g \in Busy' : ClipOf(g, flow[g])'
    BY DEF ClipFits, Clean, ClipSlips
  <2>1. Busy' \subseteq {f}
    BY <1>1, <1>3, <1>5, Lonely DEF ClipSlips
  <2>2. ClipOf(f, q)
    BY <1>1, <1>3 DEF ClipFits, Clean, ClipSlips
  <2>3. IF clip.by = f THEN q.saved = users ELSE clip.holds = users
    BY <1>1, <2>2 DEF ClipOf, Landing
  <2> QED BY <1>3, <1>5, <1>7, <2>1, <2>3 DEF ClipOf, Landing
<1>12. PasteFits'
  <2> SUFFICES ASSUME slips' \cap PasteSlips = {}, NEW g \in Busy' PROVE PasteOf(g, flow[g])'
    BY DEF PasteFits, Clean, PasteSlips
  <2>1. g = f
    BY <1>1, <1>3, <1>5, Lonely DEF PasteSlips
  <2>2. Over(q)
    BY <1>1, <1>3 DEF PasteFits, Clean, PasteSlips, PasteOf
  <2> QED BY <1>3, <1>5, <1>7, <2>1, <2>2 DEF PasteOf, Over
<1> QED BY <1>8, <1>9, <1>10, <1>11, <1>12 DEF IInv

LEMMA GivesUpKeeps ==
  ASSUME IInv, NEW f \in Flows, GivesUp(f)
  PROVE  IInv'
<1> DEFINE q == flow[f]
<1> DEFINE r == Done(q)
<1>1. /\ Shape /\ AllTexted /\ Alone /\ KeysFit /\ ClipFits /\ PasteFits /\ StoppedFits /\ GensFit
      /\ f \in Busy /\ q.step = "front" /\ q \in FlowRec
  BY DEF IInv, GivesUp, Busy, Resting, Shape
<1>3. /\ User /\ slips' = slips /\ tool' = tool /\ Release(f)
      /\ generation' = generation /\ last' = last /\ PutBack(f) /\ keys' = keys
      /\ flow' = [flow EXCEPT ![f] = r]
  BY DEF GivesUp, Step, User, user, bars
<1>4. /\ clip' \in Clip
      /\ IF clip.by = f THEN clip'.holds = q.saved ELSE clip' = clip
  BY <1>1, <1>3, PutBackIs
<1>9. AllTexted' /\ Alone' /\ StoppedFits' /\ GensFit'
  BY <1>1, <1>3, OverKeeps
<1>5. r \in FlowRec /\ r.step = "done"
  BY <1>1, DoneIs
<1> HIDE DEF r
<1>7. f \notin Busy'
  BY <1>1, <1>3, <1>5, OneMoves DEF Resting
<1>8. Shape'
  BY <1>1, <1>3, <1>4, <1>5, TurnShape DEF Shape, User, Release
<1>10. KeysFit'
  BY <1>1, <1>3, <1>5, KeysKeep
<1>11. ClipFits'
  <2> SUFFICES ASSUME slips' \cap ClipSlips = {}
               PROVE  /\ Busy' = {} => clip'.holds = users'
                      /\ \A g \in Busy' : ClipOf(g, flow[g])'
    BY DEF ClipFits, Clean, ClipSlips
  <2>1. Busy' = {}
    BY <1>1, <1>3, <1>5, <1>7, Lonely DEF ClipSlips
  <2>2. ClipOf(f, q)
    BY <1>1, <1>3 DEF ClipFits, Clean, ClipSlips
  <2>3. clip'.holds = users
    BY <1>1, <1>4, <2>2 DEF ClipOf, Landing
  <2> QED BY <1>3, <2>1, <2>3 DEF User
<1>12. PasteFits'
  <2>1. slips' \cap PasteSlips = {} => Busy' = {}
    BY <1>1, <1>3, <1>5, <1>7, Lonely DEF PasteSlips
  <2> QED BY <2>1 DEF PasteFits, Clean, PasteSlips
<1> QED BY <1>8, <1>9, <1>10, <1>11, <1>12 DEF IInv

LEMMA PostsKeeps ==
  ASSUME IInv, NEW f \in Flows, Posts(f)
  PROVE  IInv'
<1> DEFINE q == flow[f]
<1> DEFINE r == [q EXCEPT !.step = "posted"]
<1> DEFINE k == [key |-> "v", host |-> front, flow |-> f]
<1>1. /\ Shape /\ AllTexted /\ Alone /\ KeysFit /\ ClipFits /\ PasteFits /\ StoppedFits /\ GensFit
      /\ f \in Busy /\ q.step = "armed" /\ q \in FlowRec
  BY DEF IInv, Posts, Busy, Resting, Shape
<1>2. Texted(q) /\ GenOf(f, q) /\ Stopped(q)
  BY <1>1 DEF AllTexted, GensFit, StoppedFits
<1>3. /\ User /\ slips' = slips /\ tool' = tool /\ handle' = handle
      /\ generation' = generation /\ last' = last /\ clip' = clip /\ keys' = keys \cup {k}
      /\ flow' = [flow EXCEPT ![f] = r]
  BY DEF Posts, Step, User, user, bars
<1>k. k \in Keys /\ k.key = "v" /\ k.host = front /\ k.flow = f
  BY <1>1 DEF Keys, Shape
<1>4. "posted" \in Steps
  BY DEF Steps, Landing
<1>5. /\ r \in FlowRec /\ r.step = "posted"
      /\ r.kind = q.kind /\ r.reads = q.reads /\ r.host = q.host /\ r.text = q.text
      /\ r.new = q.new /\ r.want = q.want /\ r.home = q.home /\ r.got = q.got /\ r.saved = q.saved
      /\ r.gen = q.gen /\ r.stopped = q.stopped
  BY <1>1, <1>4, Stepped
<1> HIDE DEF r, k
<1>6. Texted(r)
  <2> HIDE DEF q
  <2> QED BY <1>1, <1>2, <1>5 DEF Texted, Landing, Reading
<1>7. flow'[f] = r /\ f \in Busy' /\ \A g \in Flows : g # f => flow'[g] = flow[g]
  BY <1>1, <1>3, <1>5, OneMoves DEF Resting
<1>8. Shape'
  <2>1. keys' \in SUBSET Keys
    BY <1>1, <1>3, <1>k DEF Shape
  <2> QED BY <1>1, <1>3, <1>5, <2>1, TurnShape DEF Shape, User
<1>9. AllTexted' /\ Alone' /\ StoppedFits' /\ GensFit'
  <2>1. Release(f)
    BY <1>3, <1>5, <1>7 DEF Release, Ends
  <2> QED BY <1>1, <1>2, <1>3, <1>5, <1>6, <2>1, TurnKeeps DEF Landing, Stopped
<1>l. ASSUME Clean({"slow", "overlap", "quit"}), NEW x \in keys PROVE KeyFits(x) /\ x.flow # f
  BY <1>1, <1>l DEF KeysFit, KeyFits
<1>10. KeysFit'
  <2> SUFFICES ASSUME Clean({"slow", "overlap", "quit"}), NEW x \in keys' PROVE KeyFits(x)'
    BY <1>3 DEF KeysFit, Clean
  <2>1. CASE x = k
    BY <1>5, <1>7, <1>k, <2>1 DEF KeyFits
  <2>2. CASE x \in keys
    <3>1. KeyFits(x) /\ x.flow # f
      BY <1>l, <2>2
    <3> QED BY <1>7, <3>1 DEF KeyFits, Busy
  <2> QED BY <1>3, <2>1, <2>2
<1>11. ClipFits'
  <2> SUFFICES ASSUME slips' \cap ClipSlips = {}
               PROVE  /\ Busy' = {} => clip'.holds = users'
                      /\ \A g \in Busy' : ClipOf(g, flow[g])'
    BY DEF ClipFits, Clean, ClipSlips
  <2>1. Busy' \subseteq {f}
    BY <1>1, <1>3, <1>5, Lonely DEF ClipSlips
  <2>2. ClipOf(f, q)
    BY <1>1, <1>3 DEF ClipFits, Clean, ClipSlips
  <2>3. IF clip.by = f THEN q.saved = users ELSE clip.holds = users
    BY <1>1, <2>2 DEF ClipOf, Landing
  <2> QED BY <1>3, <1>5, <1>7, <2>1, <2>3 DEF ClipOf, Landing, User
<1>12. PasteFits'
  <2> SUFFICES ASSUME slips' \cap PasteSlips = {}, NEW g \in Busy' PROVE PasteOf(g, flow[g])'
    BY DEF PasteFits, Clean, PasteSlips
  <2>1. g = f
    BY <1>1, <1>3, <1>5, Lonely DEF PasteSlips
  <2>2. Over(q) /\ front = q.host
    BY <1>1, <1>3 DEF PasteFits, Clean, PasteSlips, PasteOf
  <2>3. ASSUME NEW x \in keys', x.flow = f PROVE x = k
    BY <1>3, <1>l, <2>3 DEF Clean, PasteSlips
  <2> QED BY <1>3, <1>5, <1>7, <1>k, <2>1, <2>2, <2>3 DEF PasteOf, Over, User
<1> QED BY <1>8, <1>9, <1>10, <1>11, <1>12 DEF IInv

LEMMA PutsBackKeeps ==
  ASSUME IInv, NEW f \in Flows, PutsBack(f)
  PROVE  IInv'
<1> DEFINE q == flow[f]
<1> DEFINE r == Done(q)
<1>1. /\ Shape /\ AllTexted /\ Alone /\ KeysFit /\ ClipFits /\ PasteFits /\ StoppedFits /\ GensFit
      /\ f \in Busy /\ q.step = "posted" /\ q \in FlowRec
  BY DEF IInv, PutsBack, Busy, Resting, Shape
<1>2. Texted(q)
  BY <1>1 DEF AllTexted
<1>3. /\ User /\ slips \subseteq slips' /\ (Pending(f) => "slow" \in slips') /\ tool' = tool /\ Release(f)
      /\ generation' = generation /\ PutBack(f) /\ keys' = keys
      /\ flow' = [flow EXCEPT ![f] = r]
  BY DEF PutsBack, Step, User, user, bars, Slips
<1>4. /\ clip' \in Clip
      /\ IF clip.by = f THEN clip'.holds = q.saved ELSE clip' = clip
  BY <1>1, <1>3, PutBackIs
<1>9. AllTexted' /\ Alone' /\ StoppedFits' /\ GensFit'
  BY <1>1, <1>3, OverKeeps
<1>5. r \in FlowRec /\ r.step = "done"
  BY <1>1, DoneIs
<1> HIDE DEF r
<1>7. f \notin Busy' /\ \A g \in Flows : g # f => flow'[g] = flow[g]
  BY <1>1, <1>3, <1>5, OneMoves DEF Resting
<1>t. last' \in [host : Somewhere, text : Said, new : Said] /\ (last' = NoReplacement \/ last'.new # NoText)
  <2>1. NoReplacement \in [host : Somewhere, text : Said, new : Said]
    BY Numbers DEF NoReplacement, Somewhere
  <2>2. q.kind # "restore" => q.new # NoText
    BY <1>1, <1>2 DEF Texted, Landing
  <2>3. q.host \in Somewhere /\ q.text \in Said /\ q.new \in Said
    BY <1>1, RecordIs
  <2>4. last' = IF q.kind = "restore" THEN NoReplacement ELSE [host |-> q.host, text |-> q.text, new |-> q.new]
    BY DEF PutsBack
  <2> QED BY <2>1, <2>2, <2>3, <2>4
<1>8. Shape'
  BY <1>1, <1>3, <1>4, <1>5, <1>t, TurnShape DEF Shape, User, Release
<1>10. KeysFit'
  <2> SUFFICES ASSUME slips' \cap {"slow", "overlap", "quit"} = {}, NEW k \in keys PROVE KeyFits(k)'
    BY <1>3 DEF KeysFit, Clean
  <2>1. KeyFits(k)
    BY <1>1, <1>3 DEF KeysFit, Clean
  <2>2. k.flow # f
    BY <1>3 DEF Pending
  <2> QED BY <1>7, <2>1, <2>2 DEF KeyFits, Busy
<1>11. ClipFits'
  <2> SUFFICES ASSUME slips' \cap ClipSlips = {}
               PROVE  /\ Busy' = {} => clip'.holds = users'
                      /\ \A g \in Busy' : ClipOf(g, flow[g])'
    BY DEF ClipFits, Clean, ClipSlips
  <2>1. Busy' = {}
    BY <1>1, <1>3, <1>5, <1>7, Lonely DEF ClipSlips
  <2>2. ClipOf(f, q)
    BY <1>1, <1>3 DEF ClipFits, Clean, ClipSlips
  <2>3. clip'.holds = users
    BY <1>1, <1>4, <2>2 DEF ClipOf, Landing
  <2> QED BY <1>3, <2>1, <2>3 DEF User
<1>12. PasteFits'
  <2>1. slips' \cap PasteSlips = {} => Busy' = {}
    BY <1>1, <1>3, <1>5, <1>7, Lonely DEF PasteSlips
  <2> QED BY <2>1 DEF PasteFits, Clean, PasteSlips
<1> QED BY <1>8, <1>9, <1>10, <1>11, <1>12 DEF IInv

-----------------------------------------------------------------------------
(* Escape, the toolbar, the user and the applications. *)

LEMMA EscapeKeeps ==
  ASSUME IInv, Escape
  PROVE  IInv'
<1>1. /\ Shape /\ AllTexted /\ Alone /\ KeysFit /\ ClipFits /\ PasteFits /\ StoppedFits /\ GensFit
      /\ handle \in Flows /\ flow[handle] \in FlowRec
  BY DEF IInv, Escape, Shape
<1> DEFINE f == handle
<1> DEFINE q == flow[f]
<1> DEFINE s == IF q.step = "asked" THEN "call" ELSE "late"
<1> DEFINE r == [q EXCEPT !.stopped = s]
<1>2. /\ User /\ clip' = clip /\ keys' = keys /\ generation' = generation /\ last' = last
      /\ tool' = tool /\ slips' = slips /\ handle' = 0 /\ flow' = [flow EXCEPT ![f] = r]
  BY DEF Escape, User, user, bars
<1>3. s \in {"no", "call", "late"} /\ (s = "call" => q.step = "asked") /\ s # "no"
  OBVIOUS
<1> HIDE DEF s
<1>4. /\ r \in FlowRec /\ r.stopped = s /\ r.step = q.step
      /\ r.kind = q.kind /\ r.reads = q.reads /\ r.host = q.host /\ r.text = q.text
      /\ r.new = q.new /\ r.want = q.want /\ r.home = q.home /\ r.got = q.got /\ r.saved = q.saved
      /\ r.gen = q.gen
  BY <1>1, <1>3 DEF FlowRec
<1> HIDE DEF r
<1>5. /\ flow' \in [Flows -> FlowRec] /\ flow'[f] = r
      /\ \A g \in Flows : g # f => flow'[g] = flow[g]
  BY <1>1, <1>2, <1>4, OneMoves
<1>6. /\ Busy' = Busy
      /\ \A g \in Flows :
           /\ flow'[g].step = flow[g].step /\ flow'[g].kind = flow[g].kind /\ flow'[g].reads = flow[g].reads
           /\ flow'[g].host = flow[g].host /\ flow'[g].text = flow[g].text /\ flow'[g].new = flow[g].new
           /\ flow'[g].want = flow[g].want /\ flow'[g].got = flow[g].got
           /\ flow'[g].saved = flow[g].saved /\ flow'[g].gen = flow[g].gen
  <2>1. \A g \in Flows :
           /\ flow'[g].step = flow[g].step /\ flow'[g].kind = flow[g].kind /\ flow'[g].reads = flow[g].reads
           /\ flow'[g].host = flow[g].host /\ flow'[g].text = flow[g].text /\ flow'[g].new = flow[g].new
           /\ flow'[g].want = flow[g].want /\ flow'[g].got = flow[g].got
           /\ flow'[g].saved = flow[g].saved /\ flow'[g].gen = flow[g].gen
    BY <1>4, <1>5
  <2> QED BY <2>1 DEF Busy
<1>7. Shape'
  BY <1>1, <1>2, <1>5 DEF Shape, User
<1>8. Busy \subseteq Flows
  BY DEF Busy
<1> HIDE DEF q, f
<1>9. AllTexted'
  BY <1>1, <1>6, <1>8 DEF AllTexted, Texted
<1>10. Alone'
  BY <1>1, <1>2, <1>6 DEF Alone, Clean
<1>11. KeysFit'
  BY <1>1, <1>2, <1>6, <1>8 DEF KeysFit, KeyFits, Clean
<1>12. ClipFits'
  <2> SUFFICES ASSUME slips \cap ClipSlips = {}
               PROVE  /\ Busy' = {} => clip'.holds = users'
                      /\ \A g \in Busy' : ClipOf(g, flow[g])'
    BY <1>2 DEF ClipFits, Clean, ClipSlips
  <2>1. Busy = {} => clip.holds = users
    BY <1>1 DEF ClipFits, Clean, ClipSlips
  <2>2. ASSUME NEW g \in Busy PROVE ClipOf(g, flow[g])'
    <3>1. ClipOf(g, flow[g])
      BY <1>1 DEF ClipFits, Clean, ClipSlips
    <3> QED BY <1>2, <1>6, <1>8, <3>1 DEF ClipOf, User
  <2> QED BY <1>2, <1>6, <2>1, <2>2 DEF User
<1>13. PasteFits'
  <2> SUFFICES ASSUME slips \cap PasteSlips = {}, NEW g \in Busy PROVE PasteOf(g, flow[g])'
    BY <1>2, <1>6 DEF PasteFits, Clean, PasteSlips
  <2>1. PasteOf(g, flow[g])
    BY <1>1 DEF PasteFits, Clean, PasteSlips
  <2> QED BY <1>2, <1>6, <1>8, <2>1 DEF PasteOf, Over, User
<1>14. StoppedFits'
  <2> USE DEF f, q
  <2>1. Stopped(flow[f])
    BY <1>1 DEF StoppedFits
  <2> QED BY <1>1, <1>2, <1>3, <1>4, <2>1, StoppedKeeps DEF Stopped
<1>15. GensFit'
  <2>1. ASSUME NEW g \in Busy PROVE GenOf(g, flow[g])'
    <3>1. GenOf(g, flow[g])
      BY <1>1 DEF GensFit
    <3>2. g = f => flow'[g].stopped # "no"
      BY <1>3, <1>4, <1>5
    <3>3. g # f => flow'[g].stopped = flow[g].stopped
      BY <1>5, <1>8
    <3> QED BY <1>2, <1>6, <1>8, <3>1, <3>2, <3>3 DEF GenOf, f
  <2> QED BY <1>1, <1>2, <1>6, <1>8, <2>1 DEF GensFit
<1> QED BY <1>7, <1>9, <1>10, <1>11, <1>12, <1>13, <1>14, <1>15 DEF IInv

(* The flows and what they go by stand still. *)
LEMMA Rests ==
  ASSUME IInv, flow' = flow, keys' = keys, clip' = clip, users' = users, sel' = sel, front' = front,
         handle' = handle, generation' = generation, last' = last, slips' = slips,
         tool' \in Sessions, tool' = NoSession \/ (tool'.text # NoText /\ tool'.host \in Hosts)
  PROVE  IInv'
<1>1. Busy' = Busy
  BY DEF Busy
<1>2. Shape'
  BY DEF IInv, Shape
<1>3. AllTexted' /\ Alone' /\ KeysFit'
  BY <1>1 DEF IInv, AllTexted, Texted, Alone, KeysFit, KeyFits, Clean
<1>4. ClipFits'
  BY <1>1 DEF IInv, ClipFits, ClipOf, Clean
<1>5. PasteFits'
  BY <1>1 DEF IInv, PasteFits, PasteOf, Over, Clean
<1>6. StoppedFits' /\ GensFit'
  BY <1>1 DEF IInv, StoppedFits, Stopped, GensFit, GenOf
<1> QED BY <1>2, <1>3, <1>4, <1>5, <1>6 DEF IInv

LEMMA BarsKeep ==
  ASSUME IInv, Evaluate \/ Dismiss \/ CancelPanel
  PROVE  IInv'
<1>1. Shape /\ NoSession \in Sessions
  BY Numbers DEF IInv, NoSession, Sessions, Somewhere
<1>2. /\ flow' = flow /\ keys' = keys /\ clip' = clip /\ users' = users /\ sel' = sel /\ front' = front
      /\ handle' = handle /\ generation' = generation /\ last' = last /\ slips' = slips
  BY DEF Evaluate, Dismiss, CancelPanel, user
<1>3. CASE tool' = tool \/ tool' = NoSession
  BY <1>1, <1>2, <1>3, Rests DEF Shape
<1>4. CASE ~(tool' = tool \/ tool' = NoSession)
  <2>1. tool' = [host |-> front, text |-> sel[front]] /\ sel[front] # NoText
    BY <1>4 DEF Evaluate, Dismiss, CancelPanel, Session
  <2>2. front \in Hosts /\ sel[front] \in Said
    BY <1>1 DEF Shape
  <2>3. tool' \in Sessions /\ tool'.text # NoText /\ tool'.host \in Hosts
    BY <2>1, <2>2 DEF Sessions, Somewhere
  <2> QED BY <1>2, <2>3, Rests
<1> QED BY <1>3, <1>4

(* Another text is selected, by the user or by an undo. *)
LEMMA SelectionMoves ==
  ASSUME IInv, NEW h, NEW t \in Said,
         flow' = flow, keys' = keys, clip' = clip, users' = users, front' \in Hosts,
         sel' = [sel EXCEPT ![h] = t], handle' = handle, generation' = generation, last' = last,
         slips \subseteq slips', Checking # {} => "moved" \in slips', tool' \in {tool, NoSession}
  PROVE  IInv'
<1>1. Shape /\ AllTexted /\ Alone /\ KeysFit /\ ClipFits /\ PasteFits /\ StoppedFits /\ GensFit
  BY DEF IInv
<1>3. Busy' = Busy
  BY DEF Busy
<1>4. Shape'
  <2>1. NoSession \in Sessions
    BY Numbers DEF NoSession, Sessions, Somewhere
  <2> QED BY <1>1, <2>1 DEF Shape
<1>5. AllTexted' /\ Alone' /\ KeysFit'
  BY <1>1, <1>3 DEF AllTexted, Texted, Alone, KeysFit, KeyFits, Clean
<1>6. ClipFits'
  BY <1>1, <1>3 DEF ClipFits, ClipOf, Clean
<1>7. PasteFits'
  <2> SUFFICES ASSUME slips' \cap PasteSlips = {}, NEW f \in Busy PROVE PasteOf(f, flow[f])'
    BY <1>3 DEF PasteFits, Clean, PasteSlips
  <2>1. flow[f].step \notin {"front", "armed", "posted", "copies", "heard"}
    BY DEF Checking, Pasting, Copying, PasteSlips
  <2> QED BY <2>1 DEF PasteOf
<1>8. StoppedFits' /\ GensFit'
  BY <1>1, <1>3 DEF StoppedFits, Stopped, GensFit, GenOf
<1> QED BY <1>4, <1>5, <1>6, <1>7, <1>8 DEF IInv

LEMMA SelectKeeps ==
  ASSUME IInv, NEW h \in Hosts, NEW t \in Selectable, Select(h, t)
  PROVE  IInv'
<1>1. t \in Said
  BY Numbers DEF IInv, Selectable, Shape
<1>2. /\ flow' = flow /\ keys' = keys /\ clip' = clip /\ users' = users /\ front' = h
      /\ sel' = [sel EXCEPT ![h] = t] /\ handle' = handle /\ generation' = generation /\ last' = last
      /\ slips \subseteq slips' /\ (Checking # {} => "moved" \in slips') /\ tool' \in {tool, NoSession}
  BY DEF Select, Slips, Closed
<1> QED BY <1>1, <1>2, SelectionMoves

LEMMA UndoesKeeps ==
  ASSUME IInv, NEW h, Undoes(h)
  PROVE  IInv'
<1>1. PICK t \in Texts \cup {NoText} : sel' = [sel EXCEPT ![h] = t]
  BY DEF Undoes
<1>2. t \in Said /\ front \in Hosts
  BY <1>1, Numbers DEF IInv, Shape
<1>3. /\ flow' = flow /\ keys' = keys /\ clip' = clip /\ users' = users /\ front' = front
      /\ handle' = handle /\ generation' = generation /\ last' = last
      /\ slips \subseteq slips' /\ (Checking # {} => "moved" \in slips') /\ tool' = tool
  BY DEF Undoes, Slips, bars
<1> QED BY <1>1, <1>2, <1>3, SelectionMoves

LEMMA CopyKeeps ==
  ASSUME IInv, Copy
  PROVE  IInv'
<1>1. Shape /\ AllTexted /\ Alone /\ KeysFit /\ ClipFits /\ PasteFits /\ StoppedFits /\ GensFit
  BY DEF IInv
<1>2. /\ flow' = flow /\ keys' = keys /\ front' = front /\ sel' = sel /\ handle' = handle
      /\ generation' = generation /\ last' = last /\ tool' = tool
      /\ slips \subseteq slips' /\ (Copying # {} => "copied" \in slips') /\ (Pasting # {} => "replaced" \in slips')
      /\ users' = sel[front] /\ clip' = [holds |-> users', by |-> 0]
  BY DEF Copy, Slips, Put, bars
<1>3. Busy' = Busy /\ Busy \subseteq Flows
  BY <1>2 DEF Busy
<1>4. Shape'
  BY <1>1, <1>2 DEF Shape, Clip
<1>5. AllTexted' /\ Alone' /\ KeysFit'
  BY <1>1, <1>2, <1>3 DEF AllTexted, Texted, Alone, KeysFit, KeyFits, Clean
<1>6. ClipFits'
  <2> SUFFICES ASSUME slips' \cap ClipSlips = {}
               PROVE  clip'.holds = users' /\ \A f \in Busy : ClipOf(f, flow[f])'
    BY <1>3 DEF ClipFits, Clean, ClipSlips
  <2>1. clip'.holds = users' /\ clip'.by = 0
    BY <1>2
  <2>2. ASSUME NEW f \in Busy PROVE ClipOf(f, flow[f])'
    <3>1. flow[f].step # "copies" /\ f # 0
      BY <1>2, <1>3, Numbers DEF Copying, ClipSlips
    <3> QED BY <1>2, <2>1, <3>1 DEF ClipOf
  <2> QED BY <2>1, <2>2
<1>7. PasteFits'
  <2> SUFFICES ASSUME slips' \cap PasteSlips = {}, NEW f \in Busy PROVE PasteOf(f, flow[f])'
    BY <1>3 DEF PasteFits, Clean, PasteSlips
  <2>1. flow[f].step \notin {"front", "armed", "posted", "copies"}
    BY <1>2 DEF Pasting, Copying, PasteSlips
  <2>2. PasteOf(f, flow[f])
    BY <1>1, <1>2 DEF PasteFits, Clean, PasteSlips
  <2> QED BY <1>2, <2>1, <2>2 DEF PasteOf
<1>8. StoppedFits' /\ GensFit'
  BY <1>1, <1>2, <1>3 DEF StoppedFits, Stopped, GensFit, GenOf
<1> QED BY <1>4, <1>5, <1>6, <1>7, <1>8 DEF IInv

LEMMA QuitKeeps ==
  ASSUME IInv, Quit
  PROVE  IInv'
<1>1. Shape /\ KeysFit /\ ClipFits /\ StoppedFits
  BY DEF IInv
<1>2. /\ flow' = [f \in Flows |-> IF f \in Busy THEN Done(flow[f]) ELSE flow[f]]
      /\ keys' = keys /\ front' = front /\ sel' = sel /\ clip' = clip /\ users' = users /\ handle' = 0
      /\ generation' = 0 /\ last' = NoReplacement /\ tool' = NoSession
      /\ slips \subseteq slips' /\ (Busy # {} => "quit" \in slips')
  BY DEF Quit, Slips
<1>3. \A f \in Flows : /\ flow'[f] \in FlowRec /\ flow'[f].stopped = flow[f].stopped
                       /\ flow'[f].step \in Resting
                       /\ f \in Busy => flow'[f].step = "done"
                       /\ f \notin Busy => flow'[f] = flow[f]
  <2> SUFFICES ASSUME NEW f \in Flows
               PROVE  /\ flow'[f] \in FlowRec /\ flow'[f].stopped = flow[f].stopped
                      /\ flow'[f].step \in Resting
                      /\ f \in Busy => flow'[f].step = "done"
                      /\ f \notin Busy => flow'[f] = flow[f]
    OBVIOUS
  <2>1. flow[f] \in FlowRec
    BY <1>1 DEF Shape
  <2>2. Done(flow[f]) \in FlowRec /\ Done(flow[f]).step = "done" /\ Done(flow[f]).stopped = flow[f].stopped
    BY <2>1, DoneIs
  <2>3. flow'[f] = IF f \in Busy THEN Done(flow[f]) ELSE flow[f]
    BY <1>2
  <2> HIDE DEF Done
  <2>4. f \notin Busy => flow[f].step \in Resting
    BY DEF Busy
  <2> QED BY <2>1, <2>2, <2>3, <2>4 DEF Resting
<1>4. Busy' = {}
  BY <1>3 DEF Busy
<1>5. Shape'
  <2>1. NoSession \in Sessions /\ NoReplacement \in [host : Somewhere, text : Said, new : Said]
    BY Numbers DEF NoSession, NoReplacement, Sessions, Somewhere
  <2>2. flow' \in [Flows -> FlowRec]
    BY <1>2, <1>3
  <2> QED BY <1>1, <1>2, <2>1, <2>2 DEF Shape
<1>6. AllTexted' /\ Alone' /\ PasteFits'
  BY <1>4 DEF AllTexted, Alone, PasteFits
<1>7. KeysFit'
  BY <1>1, <1>2 DEF KeysFit, KeyFits, Clean
<1>8. ClipFits'
  BY <1>1, <1>2, <1>4 DEF ClipFits, Clean
<1>9. StoppedFits'
  <2> SUFFICES ASSUME NEW f \in Flows PROVE Stopped(flow[f])'
    BY DEF StoppedFits
  <2>1. Stopped(flow[f])
    BY <1>1 DEF StoppedFits
  <2> QED BY <1>2, <1>3, <2>1 DEF Stopped
<1>10. GensFit'
  BY <1>2, <1>4 DEF GensFit
<1> QED BY <1>5, <1>6, <1>7, <1>8, <1>9, <1>10 DEF IInv

LEMMA HandlesKeeps ==
  ASSUME IInv, NEW k \in keys, Handles(k)
  PROVE  IInv'
<1>1. Shape /\ AllTexted /\ Alone /\ KeysFit /\ ClipFits /\ PasteFits /\ StoppedFits /\ GensFit
  BY DEF IInv
<1>2. /\ flow' = flow /\ keys' = keys \ {k} /\ front' = front /\ users' = users /\ handle' = handle
      /\ generation' = generation /\ last' = last /\ tool' = tool /\ slips' = slips
  BY DEF Handles, bars
<1>3. k \in Keys /\ k.host \in Hosts /\ k.key \in {"c", "v"} /\ NoText \in Said
  BY <1>1, Numbers DEF Shape, Keys
<1>4. Busy' = Busy
  BY <1>2 DEF Busy
<1>6. k.key = "v" => sel' = [sel EXCEPT ![k.host] = NoText] /\ clip' = clip
  BY DEF Handles
<1>7. k.key = "c" => /\ sel' = sel
                     /\ IF sel[k.host] # NoText THEN clip' = [holds |-> sel[k.host], by |-> 0] ELSE clip' = clip
  BY DEF Handles, Put
<1>8. Shape'
  <2>1. sel' \in [Hosts -> Said] /\ sel[k.host] \in Said
    BY <1>1, <1>3, <1>6, <1>7 DEF Shape
  <2>2. clip' \in Clip
    BY <1>1, <1>3, <1>6, <1>7, <2>1 DEF Shape, Clip
  <2> QED BY <1>1, <1>2, <2>1, <2>2 DEF Shape
<1>9. AllTexted' /\ Alone' /\ KeysFit'
  BY <1>1, <1>2, <1>4 DEF AllTexted, Texted, Alone, KeysFit, KeyFits, Clean
<1>10. ASSUME slips \cap ClipSlips = {}
       PROVE  KeyFits(k) /\ Busy = {k.flow}
  <2>1. KeyFits(k)
    BY <1>1, <1>10 DEF KeysFit, Clean, ClipSlips
  <2>2. \A f, g \in Busy : f = g
    BY <1>1, <1>10 DEF Alone, Clean, ClipSlips
  <2> QED BY <2>1, <2>2 DEF KeyFits
<1>11. ClipFits'
  <2> SUFFICES ASSUME slips \cap ClipSlips = {} PROVE ClipOf(k.flow, flow[k.flow])'
    BY <1>2, <1>4, <1>10 DEF ClipFits, Clean, ClipSlips
  <2>1. ClipOf(k.flow, flow[k.flow])
    BY <1>1, <1>10 DEF ClipFits, Clean, ClipSlips
  <2>2. CASE k.key = "v"
    BY <1>2, <1>6, <2>1, <2>2 DEF ClipOf
  <2>3. CASE k.key = "c"
    <3>1. flow[k.flow].step = "copies"
      BY <1>10, <2>3 DEF KeyFits
    <3>2. clip'.holds # NoText
      BY <1>7, <2>1, <2>3, <3>1 DEF ClipOf
    <3> QED BY <1>2, <2>1, <3>1, <3>2 DEF ClipOf, Landing
  <2> QED BY <1>3, <2>2, <2>3
<1>12. PasteFits'
  <2> SUFFICES ASSUME slips \cap PasteSlips = {} PROVE PasteOf(k.flow, flow[k.flow])'
    BY <1>2, <1>4, <1>10 DEF PasteFits, Clean, PasteSlips, ClipSlips
  <2>1. PasteOf(k.flow, flow[k.flow]) /\ KeyFits(k)
    BY <1>1, <1>10 DEF PasteFits, Clean, PasteSlips, ClipSlips
  <2>2. CASE k.key = "v"
    <3>1. flow[k.flow].step = "posted" /\ k.host = flow[k.flow].host
      BY <2>1, <2>2 DEF KeyFits, PasteOf
    <3>2. ASSUME NEW x \in keys, x.flow = k.flow PROVE x = k
      <4>1. KeyFits(x) /\ x.host = flow[k.flow].host /\ x \in Keys
        BY <1>1, <2>1, <3>1, <3>2 DEF KeysFit, Clean, PasteSlips, PasteOf, Shape
      <4>2. x.key = "v"
        BY <3>1, <3>2, <4>1 DEF KeyFits
      <4> QED BY <1>3, <2>2, <3>1, <3>2, <4>1, <4>2 DEF Keys
    <3> QED BY <1>2, <3>1, <3>2 DEF PasteOf
  <2>3. CASE k.key = "c"
    <3>1. flow[k.flow].step = "copies" /\ k.host = flow[k.flow].host
      BY <2>1, <2>3 DEF KeyFits
    <3>2. sel' = sel /\ clip'.holds \in {Sentinel(k.flow), sel[flow[k.flow].host]}
      BY <1>7, <2>1, <2>3, <3>1 DEF PasteOf
    <3> QED BY <1>2, <3>1, <3>2 DEF PasteOf
  <2> QED BY <1>3, <2>2, <2>3
<1>13. StoppedFits' /\ GensFit'
  BY <1>1, <1>2, <1>4 DEF StoppedFits, Stopped, GensFit, GenOf
<1> QED BY <1>8, <1>9, <1>11, <1>12, <1>13 DEF IInv

-----------------------------------------------------------------------------
(* The whole. *)

LEMMA InitFits == Init => IInv
<1> SUFFICES ASSUME Init PROVE IInv
  OBVIOUS
<1>1. /\ NoText \in Said /\ NoText \in Int /\ "none" \in Somewhere /\ 0 \in Nat /\ "none" \in Steps
  BY Numbers DEF NoText, Somewhere, Steps
<1>2. NoFlow \in FlowRec /\ NoFlow.step = "none" /\ NoFlow.stopped = "no"
  BY <1>1 DEF NoFlow, FlowRec
<1>3. NoSession \in Sessions /\ NoReplacement \in [host : Somewhere, text : Said, new : Said]
  BY <1>1 DEF NoSession, NoReplacement, Sessions
<1>4. flow = [f \in Flows |-> NoFlow] /\ Busy = {}
  BY <1>2 DEF Init, Busy, Resting
<1>5. Shape
  BY <1>1, <1>2, <1>3, <1>4 DEF Shape, Init, Clip
<1>6. AllTexted /\ Alone /\ PasteFits
  BY <1>4 DEF AllTexted, Alone, PasteFits
<1>7. KeysFit /\ ClipFits
  BY <1>4 DEF KeysFit, ClipFits, Init
<1>8. StoppedFits
  BY <1>2, <1>4 DEF StoppedFits, Stopped
<1>9. GensFit
  BY <1>4 DEF GensFit, Init
<1> QED BY <1>5, <1>6, <1>7, <1>8, <1>9 DEF IInv

LEMMA NextKeeps ==
  ASSUME IInv, [Next]_vars
  PROVE  IInv'
<1>1. CASE UNCHANGED vars
  <2>1. Shape
    BY DEF IInv
  <2> QED BY <1>1, <2>1, ToolStays, Rests DEF vars
<1>2. ASSUME NEW f \in Flows, Fix(f) \/ Instruct(f) \/ Restore(f) \/ Submit(f) PROVE IInv'
  BY <1>2, FixKeeps, InstructKeeps, RestoreKeeps, SubmitKeeps
<1>3. ASSUME NEW f \in Flows, GoesOn(f) PROVE IInv'
  BY <1>3, EditBeginsKeeps, CopyBeginsKeeps, CopyEndsKeeps, AnswersKeeps, AnsweredKeeps, HeardKeeps,
     ActivatesKeeps, GivesUpKeeps, PostsKeeps, PutsBackKeeps DEF GoesOn
<1>4. ASSUME NEW f \in Flows, NEW kind \in {"fix", "bold", "panel"}, Click(f, kind) PROVE IInv'
  BY <1>4, ClickKeeps
<1>5. ASSUME NEW h \in Hosts, NEW t \in Selectable, Select(h, t) PROVE IInv'
  BY <1>5, SelectKeeps
<1>6. ASSUME NEW k \in keys, Handles(k) PROVE IInv'
  BY <1>6, HandlesKeeps
<1>9. ASSUME NEW h \in undos, Undoes(h) PROVE IInv'
  BY <1>9, UndoesKeeps
<1>7. CASE CancelPanel \/ Evaluate \/ Dismiss
  BY <1>7, BarsKeep
<1>8. CASE Escape \/ Copy \/ Quit
  BY <1>8, EscapeKeeps, CopyKeeps, QuitKeeps
<1> QED BY <1>1, <1>2, <1>3, <1>4, <1>5, <1>6, <1>7, <1>8, <1>9 DEF Next

(* The invariant holds, whatever is pressed, selected, copied or answered  *)
(* when: what Replacer.swift, ClipboardCapture.swift and InFlight.swift    *)
(* rely on from one turn of the main thread to the next.                   *)
THEOREM Invariance == Spec => []IInv
<1>1. IInv /\ [Next]_vars => IInv'
  BY NextKeeps
<1> QED BY InitFits, <1>1, PTL DEF Spec

(* While a paste is not slipped under, a key that an application handles   *)
(* puts the replacement over the text that was read, in the application it *)
(* was read in (Replacer.swift, verify and paste).                         *)
LEMMA PasteLandsRight ==
  ASSUME IInv, Clean({"moved", "replaced", "copied", "slow", "overlap", "quit"}), NEW k \in keys, k.key = "v"
  PROVE  LandsWhereItWasRead(k)
<1>1. KeyFits(k)
  BY DEF IInv, KeysFit, Clean
<1>2. k.flow \in Busy /\ flow[k.flow].step = "posted"
  BY <1>1 DEF KeyFits
<1>3. PasteOf(k.flow, flow[k.flow])
  BY <1>2 DEF IInv, PasteFits
<1> QED BY <1>2, <1>3 DEF PasteOf, Over, LandsWhereItWasRead

THEOREM PasteIsOver == Spec => PastesOver
<1> DEFINE A == \A k \in keys : k.key = "v" /\ k \notin keys' =>
                  \/ LandsWhereItWasRead(k)
                  \/ slips \cap {"moved", "replaced", "copied", "slow", "overlap", "quit"} # {}
<1>1. IInv => A
  BY PasteLandsRight DEF Clean
<1>2. IInv /\ [Next]_vars => [A]_vars
  BY <1>1
<1> QED BY <1>2, Invariance, PTL DEF PastesOver, Spec

(* When nothing is under way the clipboard is the user's again, unless two *)
(* flows overlapped, the host was slow, the user copied during a read or   *)
(* the tool was quit: what was put away and put back around every read and *)
(* paste (Pasteboard.swift, restoreIfOurs), and what the user copied in    *)
(* between.                                                                *)
THEOREM ClipboardStays == Spec => []ClipboardIsTheUsers
<1>1. IInv => ClipboardIsTheUsers
  BY DEF IInv, ClipFits, Clean, ClipboardIsTheUsers
<1> QED BY <1>1, Invariance, PTL

(* Escape is taken while the newest call runs and not when nothing does,   *)
(* and what it ended pastes nothing, but for a child that starts after it  *)
(* and does not hear of it (InFlight.swift, AIClient.swift).               *)
THEOREM EscapeEnds == Spec => []EscapeWorks
<1>1. IInv => StoppedStays
  <2> SUFFICES ASSUME IInv, NEW f \in Pasting, flow[f].stopped = "call" PROVE "unheard" \in slips
    BY DEF StoppedStays
  <2>1. f \in Flows /\ flow[f].step \in {"front", "armed", "posted"}
    BY DEF Pasting, Busy
  <2>2. Stopped(flow[f])
    BY <2>1 DEF IInv, StoppedFits
  <2> QED BY <2>1, <2>2 DEF Stopped
<1>2. IInv => EscapeFits
  BY DEF IInv, GensFit, GenOf, EscapeFits, Newest
<1>3. IInv => EscapeWorks
  BY <1>1, <1>2 DEF EscapeWorks
<1> QED BY <1>3, Invariance, PTL
=============================================================================
