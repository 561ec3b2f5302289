--------------------------- MODULE Workers_proofs ---------------------------
(***************************************************************************)
(* The workers beside the mail, for any constants: what the run workers    *)
(* checks of them and is not liveness.  A step of one leaves the others    *)
(* alone, so each has an invariant of its own.                             *)
(***************************************************************************)
EXTENDS MCWorkers, FiniteSetTheorems, SequenceTheorems, WellFoundedInduction, TLAPS

(* A step is one of each worker or leaves it alone. *)
LEMMA OneOfEach ==
  ASSUME [AllNext]_<<part, classifier, calendar, cache, receipts, quota, mirror, scores>>
  PROVE  /\ [Filing!Next]_classifier /\ [Files!Next]_cache
         /\ [Quota!Next]_quota /\ [Scores!Next]_scores
BY DEF AllNext

-----------------------------------------------------------------------------
(* What is kept of a sequence of rows. *)

UpTo(rs, is, f) ==
  f = [n \in 0 .. Len(rs) |->
         IF n = 0 THEN <<>> ELSE IF n \in is THEN Append(f[n - 1], rs[n]) ELSE f[n - 1]]

(* A set of numbers has a least element. *)
LEMMA Least ==
  ASSUME NEW is \in SUBSET Nat, is # {}
  PROVE  \E i \in is : \A j \in is : i <= j
<1>. DEFINE R == {ss \in Nat \X Nat : ss[1] < ss[2]}
<1>0. IsWellFoundedOn(R, Nat)
  BY NatLessThanWellFounded DEF OpToRel
<1>1. PICK i \in is : \A j \in is : ~(<<j, i>> \in R)
  <2>. HIDE DEF R
  <2>. QED
    BY <1>0, WFMin
<1>2. \A j \in is : ~(j < i)
  BY <1>1
<1>. QED
  BY <1>2

LEMMA MinIsLeast ==
  ASSUME NEW is \in SUBSET Nat, is # {}
  PROVE  Min(is) \in is /\ \A j \in is : Min(is) <= j
BY Least DEF Min

LEMMA MaxIsIn ==
  ASSUME NEW n \in Nat, NEW is \in SUBSET (0 .. n), is # {}
  PROVE  Max(is) \in is /\ \A j \in is : j <= Max(is)
<1>. DEFINE T == {n - i : i \in is}
<1>1. T \in SUBSET Nat /\ T # {}
  <2>1. \A i \in is : i \in 0 .. n /\ n - i \in Nat
    OBVIOUS
  <2>2. PICK i \in is : TRUE
    OBVIOUS
  <2>3. n - i \in T
    OBVIOUS
  <2>. QED
    BY <2>1, <2>3
<1>2. PICK x \in T : \A y \in T : x <= y
  <2>. HIDE DEF T
  <2>. QED
    BY <1>1, Least
<1>3. PICK k \in is : x = n - k
  BY <1>2
<1>4. ASSUME NEW j \in is PROVE k >= j
  <2>1. n - j \in T /\ j \in Nat /\ k \in Nat
    OBVIOUS
  <2>. HIDE DEF T
  <2>. QED
    BY <1>2, <1>3, <2>1
<1>5. Max(is) \in is /\ \A j \in is : Max(is) >= j
  BY <1>4 DEF Max
<1>. QED
  BY <1>5

LEMMA UpToExists ==
  ASSUME NEW rs, NEW is, Len(rs) \in Nat
  PROVE  \E f : UpTo(rs, is, f)
<1>. DEFINE To(n, f) ==
       f = [k \in 0 .. n |->
              IF k = 0 THEN <<>> ELSE IF k \in is THEN Append(f[k - 1], rs[k]) ELSE f[k - 1]]
            Bad == {n \in Nat : ~\E f : To(n, f)}
<1>1. Bad = {}
  <2>. SUFFICES ASSUME Bad # {} PROVE FALSE
    OBVIOUS
  <2>1. PICK n \in Bad : \A m \in Bad : n <= m
    <3>. Bad \in SUBSET Nat
      OBVIOUS
    <3>. HIDE DEF Bad
    <3>. QED
      BY Least
  <2>2. n # 0
    <3>1. To(0, [k \in 0 .. 0 |-> <<>>])
      OBVIOUS
    <3>. QED
      BY <3>1
  <2>3. n - 1 \in Nat /\ n - 1 \notin Bad
    <3>. HIDE DEF Bad
    <3>1. n \in Nat
      BY DEF Bad
    <3>. QED
      BY <2>1, <2>2, <3>1
  <2>4. PICK f : To(n - 1, f)
    BY <2>3
  <2>. DEFINE g == [k \in 0 .. n |->
                 IF k < n THEN f[k] ELSE IF k \in is THEN Append(f[k - 1], rs[k]) ELSE f[k - 1]]
  <2>5. To(n, g)
    <3>1. \A k \in 0 .. n - 1 : g[k] = f[k]
      BY <2>2
    <3>2. \A k \in 0 .. n - 1 : f[k] = IF k = 0 THEN <<>> ELSE IF k \in is THEN Append(f[k - 1], rs[k]) ELSE f[k - 1]
      BY <2>4
    <3>3. ASSUME NEW k \in 0 .. n
          PROVE g[k] = IF k = 0 THEN <<>> ELSE IF k \in is THEN Append(g[k - 1], rs[k]) ELSE g[k - 1]
      <4>1. CASE k < n
        <5>1. k \in 0 .. n - 1 /\ (k # 0 => k - 1 \in 0 .. n - 1)
          BY <4>1
        <5>. QED
          BY <3>1, <3>2, <5>1
      <4>2. CASE k = n
        <5>1. k - 1 \in 0 .. n - 1 /\ k # 0 /\ ~(k < n)
          BY <2>2, <4>2
        <5>2. g[k] = IF k \in is THEN Append(f[k - 1], rs[k]) ELSE f[k - 1]
          BY <5>1
        <5>. HIDE DEF g
        <5>. QED
          BY <3>1, <5>1, <5>2
      <4>. QED
        BY <4>1, <4>2
    <3>. QED
      <4>1. g = [k \in 0 .. n |-> g[k]]
        OBVIOUS
      <4>. HIDE DEF g
      <4>. QED
        BY <3>3, <4>1
  <2>. QED
    <3>. HIDE DEF To, g
    <3>. QED
      BY <2>5
<1>2. \E f : To(Len(rs), f)
  BY <1>1
<1>. QED
  BY <1>2 DEF UpTo

(* How the kept rows lie in the old ones. *)
Lies(q, rs, is, h) ==
  /\ h \in [DOMAIN q -> is]
  /\ \A k \in DOMAIN q : q[k] = rs[h[k]]
  /\ \A i \in is : \E k \in DOMAIN q : h[k] = i
  /\ \A k, l \in DOMAIN q : k < l => h[k] < h[l]

LEMMA OneMore ==
  ASSUME NEW R, NEW rs \in Seq(R), NEW n \in 1 .. Len(rs),
         NEW is \in SUBSET (1 .. n - 1), NEW q \in Seq(R), NEW h, Lies(q, rs, is, h)
  PROVE  Append(q, rs[n]) \in Seq(R) /\ \E g : Lies(Append(q, rs[n]), rs, is \cup {n}, g)
<1>. DEFINE p == Append(q, rs[n])
            g == [k \in 1 .. Len(q) + 1 |-> IF k = Len(q) + 1 THEN n ELSE h[k]]
<1>0. /\ Len(q) \in Nat /\ DOMAIN q = 1 .. Len(q) /\ rs[n] \in R
      /\ n \in Nat /\ is \subseteq Nat
  BY LenProperties, ElementOfSeq
<1>1. /\ p \in Seq(R) /\ DOMAIN p = 1 .. Len(q) + 1
      /\ \A k \in 1 .. Len(q) : p[k] = q[k]
      /\ p[Len(q) + 1] = rs[n]
  BY <1>0, AppendProperties, LenProperties
<1>. HIDE DEF p
<1>2. g \in [DOMAIN p -> is \cup {n}]
  BY <1>0, <1>1 DEF Lies
<1>3. \A k \in DOMAIN p : p[k] = rs[g[k]]
  BY <1>0, <1>1 DEF Lies
<1>4. ASSUME NEW i \in is \cup {n} PROVE \E k \in DOMAIN p : g[k] = i
  <2>1. CASE i = n
    BY <1>0, <1>1, <2>1
  <2>2. CASE i \in is
    <3>1. PICK k \in DOMAIN q : h[k] = i
      BY <2>2 DEF Lies
    <3>. QED
      BY <1>0, <1>1, <3>1
  <2>. QED
    BY <2>1, <2>2
<1>5. ASSUME NEW k \in DOMAIN p, NEW l \in DOMAIN p, k < l PROVE g[k] < g[l]
  <2>0. k \in 1 .. Len(q) /\ l \in 1 .. Len(q) + 1
    BY <1>0, <1>1, <1>5
  <2>1. k \in DOMAIN q /\ g[k] = h[k] /\ h[k] \in is /\ h[k] < n
    <3>1. k \in DOMAIN q /\ g[k] = h[k]
      BY <1>0, <2>0
    <3>2. h[k] \in is
      BY <3>1 DEF Lies
    <3>3. h[k] \in 1 .. n - 1
      BY <3>2
    <3>. HIDE DEF g
    <3>. QED
      BY <1>0, <3>1, <3>2, <3>3
  <2>2. CASE l = Len(q) + 1
    BY <1>0, <2>1, <2>2
  <2>3. CASE l # Len(q) + 1
    BY <1>0, <1>5, <2>0, <2>1, <2>3 DEF Lies
  <2>. QED
    BY <2>2, <2>3
<1>6. Lies(p, rs, is \cup {n}, g)
  <2>. HIDE DEF g
  <2>. QED
    BY <1>2, <1>3, <1>4, <1>5 DEF Lies
<1>. QED
  BY <1>1, <1>6 DEF p

(* RowsAt keeps what it should, in order. *)
LEMMA RowsKept ==
  ASSUME NEW R, NEW rs \in Seq(R), NEW is \in SUBSET DOMAIN rs
  PROVE  RowsAt(rs, is) \in Seq(R) /\ \E h : Lies(RowsAt(rs, is), rs, is, h)
<1>0. Len(rs) \in Nat /\ DOMAIN rs = 1 .. Len(rs)
  BY LenProperties
<1>1. PICK f : UpTo(rs, is, f) /\ RowsAt(rs, is) = f[Len(rs)]
  <2>1. \E f : UpTo(rs, is, f)
    BY <1>0, UpToExists
  <2>. QED
    BY <2>1 DEF UpTo, RowsAt
<1>. DEFINE Good(n) == f[n] \in Seq(R) /\ \E h : Lies(f[n], rs, is \cap (1 .. n), h)
            Bad == {n \in 0 .. Len(rs) : ~Good(n)}
<1>2. \A n \in 0 .. Len(rs) : f[n] = IF n = 0 THEN <<>> ELSE IF n \in is THEN Append(f[n - 1], rs[n]) ELSE f[n - 1]
  BY <1>1 DEF UpTo
<1>3. Good(0)
  <2>1. f[0] = <<>> /\ is \cap (1 .. 0) = {}
    BY <1>0, <1>2
  <2>2. Lies(<<>>, rs, {}, <<>>)
    BY DEF Lies
  <2>. QED
    BY <2>1, <2>2, EmptySeq
<1>4. ASSUME NEW n \in 1 .. Len(rs), Good(n - 1) PROVE Good(n)
  <2>1. PICK h : Lies(f[n - 1], rs, is \cap (1 .. n - 1), h)
    BY <1>4
  <2>2. f[n] = IF n \in is THEN Append(f[n - 1], rs[n]) ELSE f[n - 1]
    BY <1>0, <1>2
  <2>3. CASE n \in is
    <3>1. is \cap (1 .. n) = (is \cap (1 .. n - 1)) \cup {n}
      BY <1>0, <2>3
    <3>2. Append(f[n - 1], rs[n]) \in Seq(R) /\ \E g : Lies(Append(f[n - 1], rs[n]), rs, (is \cap (1 .. n - 1)) \cup {n}, g)
      BY <1>4, <2>1, OneMore
    <3>. QED
      BY <2>2, <2>3, <3>1, <3>2
  <2>4. CASE n \notin is
    <3>1. is \cap (1 .. n) = is \cap (1 .. n - 1)
      BY <1>0, <2>4
    <3>. QED
      BY <1>4, <2>1, <2>2, <2>4, <3>1
  <2>. QED
    BY <2>3, <2>4
<1>5. Bad = {}
  <2>. SUFFICES ASSUME Bad # {} PROVE FALSE
    OBVIOUS
  <2>0. Bad \subseteq 0 .. Len(rs)
    OBVIOUS
  <2>1. \A n \in Bad : ~Good(n)
    OBVIOUS
  <2>1a. \A n \in 0 .. Len(rs) : n \notin Bad => Good(n)
    OBVIOUS
  <2>1b. Bad \in SUBSET Nat
    <3>. HIDE DEF Bad
    <3>. QED
      BY <1>0, <2>0
  <2>. HIDE DEF Bad, Good
  <2>2. PICK n \in Bad : \A m \in Bad : n <= m
    BY <2>1b, Least
  <2>3. n \in 1 .. Len(rs) /\ n - 1 \in 0 .. Len(rs)
    BY <1>0, <1>3, <2>0, <2>1, <2>2
  <2>4. n - 1 \notin Bad
    BY <1>0, <2>2, <2>3
  <2>. QED
    BY <1>4, <2>1, <2>1a, <2>2, <2>3, <2>4
<1>6. Good(Len(rs))
  <2>. HIDE DEF Good
  <2>. QED
    BY <1>0, <1>5
<1>7. is \cap (1 .. Len(rs)) = is
  BY <1>0
<1>. QED
  BY <1>1, <1>6, <1>7

-----------------------------------------------------------------------------
(* The types, and what the call under way has to do with the rest. *)

Row == [op : {"upsert", "delete"}, draft : Nat, text : Nat, gid : Nat, due : BOOLEAN, inflight : BOOLEAN]
Draft == [text : Nat, gid : Nat, rev : Nat, state : States, recent : BOOLEAN]
Copy == [text : Nat, rev : Nat]
Send == [status : SendStates, text : Nat, gid : Nat]
Listed == [gid : Nat, rev : Nat, recent : BOOLEAN]

Counted == /\ lastDraft \in Nat /\ lastGmail \in Nat /\ lastText \in Nat
           /\ lists \in Nat /\ remote \in Nat /\ faults \in Seq(Faults)

DraftsKnown ==
  /\ armed \subseteq Nat
  /\ \A d \in DOMAIN drafts :
       /\ d \in 1 .. lastDraft /\ drafts[d] \in Draft
       /\ drafts[d].gid <= lastGmail /\ drafts[d].text <= lastText

(* Only the first row is ever in flight. *)
RowsOf(rs, d, t, n) ==
  /\ rs \in Seq(Row)
  /\ \A i \in DOMAIN rs : rs[i].op = "upsert" => rs[i].draft \in 1 .. d /\ rs[i].text <= t
  /\ \A i \in DOMAIN rs : rs[i].op = "delete" => rs[i].draft = None
  /\ \A i \in DOMAIN rs : rs[i].gid <= n
  /\ \A i \in DOMAIN rs : rs[i].inflight => i = 1
RowsKnown == RowsOf(rows, lastDraft, lastText, lastGmail)

InFlight(rs) == 1 \in DOMAIN rs /\ rs[1].inflight

GmailKnown == \A g \in DOMAIN gmail :
  g \in 1 .. lastGmail /\ gmail[g] \in Copy /\ gmail[g].text <= lastText

SendsKnown ==
  /\ sends \in Seq(Send)
  /\ \A s \in DOMAIN sends : sends[s].gid <= lastGmail /\ sends[s].text <= lastText

Calling == run \in {"call", "applied"}
Visiting == run \in {"visit", "fetch", "stage"}

SeenKnown ==
  /\ DOMAIN seen = {"gmail", "drafts", "at", "fetched"}
  /\ seen = [gmail |-> seen.gmail, drafts |-> seen.drafts, at |-> seen.at, fetched |-> seen.fetched]
  /\ \A d \in DOMAIN seen.drafts : /\ d \in 1 .. lastDraft /\ seen.drafts[d] \in Listed
                                   /\ seen.drafts[d].gid # None
  /\ todo \subseteq 1 .. lastGmail
  /\ run \in {"fetch", "stage"} => seen.at \in 1 .. lastGmail /\ seen.at \notin todo
  /\ run = "stage" => seen.fetched \in Copy /\ seen.fetched.text <= lastText
  /\ Visiting => lists > 0

(* The row in flight is the first, and the call is about it; a draft that  *)
(* is still here is tied to what the call is about.                        *)
CallKnown ==
  /\ run \in {"idle", "drain", "visit", "fetch", "stage"} \/ Calling
  /\ Calling <=> InFlight(rows)
  /\ Calling => /\ job = [op |-> rows[1].op, draft |-> rows[1].draft, text |-> rows[1].text, gid |-> job.gid]
                /\ job.gid \in 0 .. lastGmail
                /\ job.op = "delete" => job.gid = rows[1].gid
                /\ job.op = "upsert" /\ Here(job.draft) => drafts[job.draft].gid = job.gid
  /\ run # "applied" => answer = NoAnswer

(* What Gmail answered. *)
AnswerKnown ==
  run = "applied" =>
    /\ job.op = "delete" => answer = NoAnswer /\ job.gid \notin DOMAIN gmail
    /\ job.op = "upsert" =>
         /\ answer = [gid |-> answer.gid, rev |-> answer.rev, gone |-> answer.gone]
         /\ answer.gid \in 1 .. lastGmail /\ answer.rev \in Nat /\ answer.gone \in BOOLEAN
         /\ answer.gone => answer.gid = job.gid /\ job.gid \notin DOMAIN gmail
         /\ job.gid # None => answer.gid = job.gid
         /\ job.gid = None =>
              /\ \A d \in DOMAIN drafts : drafts[d].gid # answer.gid
              /\ \A s \in DOMAIN sends : sends[s].gid # answer.gid
         /\ ~answer.gone /\ answer.gid \in DOMAIN gmail =>
              \/ gmail[answer.gid] = [text |-> job.text, rev |-> answer.rev]
              \/ gmail[answer.gid].text \in theirs

Known == /\ Counted /\ DraftsKnown /\ RowsKnown /\ GmailKnown /\ SendsKnown
         /\ SeenKnown /\ CallKnown /\ AnswerKnown
         /\ remote = 0 => theirs = {}

(* Nothing the app made in Gmail is forgotten; what is not known here yet  *)
(* is the answer to a create.                                              *)
Held(g) ==
  \/ \E d \in DOMAIN drafts : drafts[d].gid = g
  \/ \E s \in DOMAIN sends : sends[s].gid = g /\ sends[s].status \in {"composing", "queued"}
  \/ \E i \in DOMAIN rows : rows[i].op = "delete" /\ rows[i].gid = g
  \/ run = "applied" /\ job.op = "upsert" /\ job.gid = None /\ answer.gid = g

NoneForgotten == \A g \in DOMAIN gmail \ stray : Held(g)

(* A Gmail draft is tied to one draft or one message that is not out yet. *)
Leaves(s) == sends[s].status \in {"composing", "queued"}

TiedOnce ==
  ~SentAndListed =>
    /\ \A d, e \in Tied(drafts) : drafts[d].gid = drafts[e].gid => d = e
    /\ \A d \in Tied(drafts), s \in DOMAIN sends : Leaves(s) => sends[s].gid # drafts[d].gid
    /\ \A s, r \in DOMAIN sends :
         Leaves(s) /\ Leaves(r) /\ sends[s].gid # None /\ sends[s].gid = sends[r].gid => s = r

(* The draft the list knew is still tied as it was, and is the first one   *)
(* tied there.                                                             *)
SeenIsTied == Visiting =>
  \A d \in DOMAIN seen.drafts : Here(d) => drafts[d].gid = seen.drafts[d].gid

Overlapped == lists > 1 /\ sends # <<>>

SeenIsFirst == Visiting /\ ~Overlapped =>
  \A d \in DOMAIN seen.drafts, e \in DOMAIN drafts : drafts[e].gid = seen.drafts[d].gid /\ Here(d) => d <= e

(* While no call is repeated, the process lives, and no message is sent    *)
(* beside a reconcile.                                                     *)
Calm == ~Happened("error") /\ ~Happened("crash") /\ ~SentAndListed

Waits(i) == rows[i].op = "upsert" /\ ~rows[i].inflight
WaitsOnce == Calm =>
  \A i, j \in DOMAIN rows : Waits(i) /\ Waits(j) /\ rows[i].draft = rows[j].draft => i = j

(* A row that is tied knows the last write of the app there. *)
RevKnown(d) ==
  LET g == drafts[d].gid
  IN  g \in DOMAIN gmail =>
        \/ gmail[g].rev = drafts[d].rev \/ gmail[g].text \in theirs
        \/ run = "applied" /\ job.op = "upsert" /\ job.draft = d
RevsKnown == Calm /\ sends = <<>> => \A d \in DOMAIN drafts : RevKnown(d)

(* Nobody else has what the call writes to, or it does not read IN GMAIL. *)
CallIsAlone == Calm /\ Calling /\ job.op = "upsert" /\ job.gid # None =>
  \A d \in DOMAIN drafts :
    drafts[d].gid = job.gid => d = job.draft \/ (drafts[d].state # "synced" /\ sends # <<>>)

(* What the reconcile is to fetch of a tied draft was written in Gmail. *)
FetchIsNews == Calm /\ Visiting =>
  /\ \A d \in DOMAIN drafts :
       drafts[d].gid \in todo \/ (drafts[d].gid = seen.at /\ run # "visit") =>
         d \in DOMAIN seen.drafts /\ seen.drafts[d].gid = drafts[d].gid
  /\ \A d \in DOMAIN seen.drafts :
       LET g == seen.drafts[d].gid
       IN  g \in todo => \/ seen.gmail[g] = seen.drafts[d].rev
                         \/ g \in DOMAIN gmail => gmail[g].text \in theirs
  /\ \A d \in DOMAIN drafts :
       drafts[d].gid = seen.at =>
         /\ run = "fetch" /\ seen.at \in DOMAIN gmail => gmail[seen.at].text \in theirs
         /\ run = "stage" => seen.fetched.text \in theirs
  /\ run = "stage" /\ seen.at \in DOMAIN gmail =>
       gmail[seen.at] = seen.fetched \/ gmail[seen.at].text \in theirs

(* What waits, or is on its way, is what the draft reads. *)
Undisturbed == Calm /\ remote = 0

RowsCurrent == Undisturbed =>
  \A d \in DOMAIN drafts \ armed :
    /\ \A i \in DOMAIN rows : Waits(i) /\ rows[i].draft = d => rows[i].text = drafts[d].text
    /\ Calling /\ job.op = "upsert" /\ job.draft = d =>
         job.text = drafts[d].text \/ \E i \in DOMAIN rows : Waits(i) /\ rows[i].draft = d

Inv == /\ Known /\ NoneForgotten /\ TiedOnce
       /\ SeenIsTied /\ SeenIsFirst /\ SavingIsBacked
       /\ WaitsOnce /\ RevsKnown /\ CallIsAlone /\ FetchIsNews /\ RowsCurrent /\ SyncedIsMirrored

-----------------------------------------------------------------------------
(* What the operations on rows do to them. *)

IsQueued(rs, d, t, q) ==
  /\ q \in Seq(Row) /\ DOMAIN rs \subseteq DOMAIN q
  /\ \A i \in DOMAIN rs :
       q[i] = rs[i] \/ (IsUpsert(rs[i], d) /\ ~rs[i].inflight /\ q[i] = [rs[i] EXCEPT !.text = t])
  /\ \A i \in DOMAIN q :
       i \in DOMAIN rs \/ (i = Len(rs) + 1 /\ q[i] = UpsertRow(d, t) /\ Waiting(rs, d) = {})
  /\ \E i \in DOMAIN q : IsUpsert(q[i], d) /\ ~q[i].inflight /\ q[i].text = t

LEMMA Queued ==
  ASSUME NEW rs \in Seq(Row), NEW d \in Nat, NEW t \in Nat, NEW q, q = EnqueueUpsert(rs, d, t)
  PROVE  IsQueued(rs, d, t, q)
<1>. USE DEF IsQueued
<1>0. Len(rs) \in Nat /\ DOMAIN rs = 1 .. Len(rs) /\ \A i \in DOMAIN rs : rs[i] \in Row
  BY LenProperties, ElementOfSeq
<1>1. CASE Waiting(rs, d) = {}
  <2>1. q = Append(rs, UpsertRow(d, t)) /\ UpsertRow(d, t) \in Row
    BY <1>1 DEF EnqueueUpsert, UpsertRow, Row, None
  <2>2. /\ q \in Seq(Row) /\ DOMAIN q = 1 .. Len(rs) + 1
        /\ \A i \in 1 .. Len(rs) : q[i] = rs[i]
        /\ q[Len(rs) + 1] = UpsertRow(d, t)
    BY <1>0, <2>1, AppendProperties, LenProperties
  <2>3. IsUpsert(UpsertRow(d, t), d) /\ ~UpsertRow(d, t).inflight /\ UpsertRow(d, t).text = t
    BY DEF IsUpsert, UpsertRow
  <2>4. Len(rs) + 1 \in DOMAIN q
    BY <1>0, <2>2
  <2>. QED
    BY <1>0, <1>1, <2>2, <2>3, <2>4
<1>2. CASE Waiting(rs, d) # {}
  <2>. DEFINE m == Min(Waiting(rs, d))
  <2>1. m \in Waiting(rs, d)
    BY <1>0, <1>2, MinIsLeast DEF Waiting
  <2>2. q = [rs EXCEPT ![m] = [rs[m] EXCEPT !.text = t]]
    BY <1>2 DEF EnqueueUpsert
  <2>. HIDE DEF m
  <2>3. m \in DOMAIN rs /\ IsUpsert(rs[m], d) /\ ~rs[m].inflight /\ [rs[m] EXCEPT !.text = t] \in Row
    BY <1>0, <2>1 DEF Waiting, Row
  <2>4. q \in Seq(Row) /\ DOMAIN q = DOMAIN rs
    BY <1>0, <2>2, <2>3, ExceptSeq
  <2>5. IsUpsert(q[m], d) /\ ~q[m].inflight /\ q[m].text = t
    BY <1>0, <2>2, <2>3 DEF IsUpsert, Row
  <2>. QED
    BY <1>0, <2>2, <2>3, <2>4, <2>5
<1>. QED
  BY <1>1, <1>2

IsDropped(rs, ds, q) ==
  /\ q \in Seq(Row)
  /\ \A k \in DOMAIN q : \E i \in DOMAIN rs :
       q[k] = rs[i] /\ (rs[i].inflight \/ ~\E d \in ds : IsUpsert(rs[i], d))
  /\ \A i \in DOMAIN rs :
       rs[i].inflight \/ (~\E d \in ds : IsUpsert(rs[i], d)) => \E k \in DOMAIN q : q[k] = rs[i]
  /\ \A k, l \in DOMAIN q : k # l => \E i, j \in DOMAIN rs : i # j /\ q[k] = rs[i] /\ q[l] = rs[j]
  /\ \A k \in DOMAIN q : q[k].inflight => k = 1
  /\ 1 \in DOMAIN rs /\ rs[1].inflight => 1 \in DOMAIN q /\ q[1] = rs[1]

LEMMA Dropping ==
  ASSUME NEW rs \in Seq(Row), NEW ds, NEW q, q = DropAll(rs, ds),
         \A i \in DOMAIN rs : rs[i].inflight => i = 1
  PROVE  IsDropped(rs, ds, q)
<1>. USE DEF IsDropped
<1>. DEFINE is == {i \in DOMAIN rs : rs[i].inflight \/ ~\E d \in ds : IsUpsert(rs[i], d)}
<1>1. PICK h : q \in Seq(Row) /\ Lies(q, rs, is, h)
  BY RowsKept DEF DropAll
<1>2. /\ \A k \in DOMAIN q : h[k] \in is /\ q[k] = rs[h[k]]
      /\ \A i \in is : \E k \in DOMAIN q : h[k] = i
      /\ \A k, l \in DOMAIN q : k < l => h[k] < h[l]
      /\ DOMAIN q = 1 .. Len(q) /\ Len(q) \in Nat
      /\ DOMAIN rs = 1 .. Len(rs) /\ Len(rs) \in Nat
  BY <1>1, LenProperties DEF Lies
<1>3. \A k, l \in DOMAIN q : k # l => h[k] # h[l]
  <2>. SUFFICES ASSUME NEW k \in DOMAIN q, NEW l \in DOMAIN q, k # l PROVE h[k] # h[l]
    OBVIOUS
  <2>1. k \in Nat /\ l \in Nat /\ (k < l \/ l < k) /\ h[k] \in Nat /\ h[l] \in Nat
    BY <1>2
  <2>. HIDE DEF is
  <2>. QED
    BY <1>2, <2>1
<1>4. ASSUME NEW k \in DOMAIN q, h[k] = 1 PROVE k = 1
  <2>. SUFFICES ASSUME k # 1 PROVE FALSE
    OBVIOUS
  <2>1. 1 \in DOMAIN q /\ 1 < k
    BY <1>2
  <2>2. h[1] < h[k] /\ h[1] \in DOMAIN rs
    BY <1>2, <2>1
  <2>. QED
    BY <1>2, <1>4, <2>2
<1>5. \A k \in DOMAIN q : q[k].inflight => k = 1
  BY <1>2, <1>4
<1>6. ASSUME 1 \in DOMAIN rs, rs[1].inflight PROVE 1 \in DOMAIN q /\ q[1] = rs[1]
  <2>1. PICK k \in DOMAIN q : h[k] = 1
    BY <1>2, <1>6
  <2>. QED
    BY <1>2, <1>4, <2>1
<1>7. \A k, l \in DOMAIN q : k # l => \E i, j \in DOMAIN rs : i # j /\ q[k] = rs[i] /\ q[l] = rs[j]
  <2>. SUFFICES ASSUME NEW k \in DOMAIN q, NEW l \in DOMAIN q, k # l
                PROVE  \E i, j \in DOMAIN rs : i # j /\ q[k] = rs[i] /\ q[l] = rs[j]
    OBVIOUS
  <2>1. h[k] \in DOMAIN rs /\ h[l] \in DOMAIN rs /\ h[k] # h[l] /\ q[k] = rs[h[k]] /\ q[l] = rs[h[l]]
    BY <1>2, <1>3
  <2>. QED
    BY <2>1
<1>8. \A k \in DOMAIN q : \E i \in DOMAIN rs :
         q[k] = rs[i] /\ (rs[i].inflight \/ ~\E d \in ds : IsUpsert(rs[i], d))
  BY <1>2
<1>9. \A i \in DOMAIN rs :
         rs[i].inflight \/ (~\E d \in ds : IsUpsert(rs[i], d)) => \E k \in DOMAIN q : q[k] = rs[i]
  <2>. SUFFICES ASSUME NEW i \in DOMAIN rs, rs[i].inflight \/ (~\E d \in ds : IsUpsert(rs[i], d))
                PROVE  \E k \in DOMAIN q : q[k] = rs[i]
    OBVIOUS
  <2>1. i \in is
    OBVIOUS
  <2>2. PICK k \in DOMAIN q : h[k] = i
    BY <1>2, <2>1
  <2>. QED
    BY <1>2, <2>2
<1>. HIDE DEF is
<1>. QED
  BY <1>1, <1>5, <1>6, <1>7, <1>8, <1>9

IsDeleting(rs, g, q) ==
  /\ q \in Seq(Row) /\ DOMAIN rs \subseteq DOMAIN q
  /\ \A i \in DOMAIN rs : q[i] = rs[i]
  /\ \A i \in DOMAIN q : i \in DOMAIN rs \/ (i = Len(rs) + 1 /\ q[i] = DeleteRow(g))
  /\ g # None => \E i \in DOMAIN q : q[i] = DeleteRow(g)

LEMMA Deleting ==
  ASSUME NEW rs \in Seq(Row), NEW g \in Nat, NEW q, q = EnqueueDelete(rs, g)
  PROVE  IsDeleting(rs, g, q)
<1>. USE DEF IsDeleting
<1>0. Len(rs) \in Nat /\ DOMAIN rs = 1 .. Len(rs)
  BY LenProperties
<1>1. CASE g = None
  BY <1>1 DEF EnqueueDelete
<1>2. CASE g # None
  <2>1. q = Append(rs, DeleteRow(g)) /\ DeleteRow(g) \in Row
    BY <1>2 DEF EnqueueDelete, DeleteRow, Row, None
  <2>2. /\ q \in Seq(Row) /\ DOMAIN q = 1 .. Len(rs) + 1
        /\ \A i \in 1 .. Len(rs) : q[i] = rs[i]
        /\ q[Len(rs) + 1] = DeleteRow(g)
    BY <1>0, <2>1, AppendProperties, LenProperties
  <2>3. Len(rs) + 1 \in DOMAIN q
    BY <1>0, <2>2
  <2>. QED
    BY <1>0, <2>2, <2>3
<1>. QED
  BY <1>1, <1>2

IsTail(rs, q) ==
  /\ q \in Seq(Row)
  /\ \A k \in DOMAIN q : k + 1 \in DOMAIN rs /\ k + 1 # 1 /\ q[k] = rs[k + 1]
  /\ \A i \in DOMAIN rs : i = 1 \/ (i - 1 \in DOMAIN q /\ q[i - 1] = rs[i])

LEMMA FirstLeft ==
  ASSUME NEW rs \in Seq(Row), 1 \in DOMAIN rs, NEW q, q = Tail(rs)
  PROVE  IsTail(rs, q)
<1>. USE DEF IsTail
<1>1. /\ rs # <<>> /\ Len(rs) \in Nat /\ DOMAIN rs = 1 .. Len(rs)
  BY LenProperties, EmptySeq
<1>2. /\ q \in Seq(Row) /\ DOMAIN q = 1 .. Len(rs) - 1
      /\ \A i \in 1 .. Len(rs) - 1 : q[i] = rs[i + 1]
  BY <1>1, HeadTailProperties, LenProperties
<1>. QED
  BY <1>1, <1>2

(* Only whether a row is due or in flight changes. *)
Alike(r, e) == r.op = e.op /\ r.draft = e.draft /\ r.text = e.text /\ r.gid = e.gid

IsMarked(rs, i, e, q) ==
  /\ q \in Seq(Row) /\ DOMAIN q = DOMAIN rs
  /\ \A j \in DOMAIN rs : j # i => q[j] = rs[j]
  /\ q[i] = e /\ Alike(rs[i], e)
  /\ \A j \in DOMAIN rs : Alike(rs[j], q[j])

LEMMA Marked ==
  ASSUME NEW rs \in Seq(Row), NEW i \in DOMAIN rs, NEW e \in Row, Alike(rs[i], e),
         NEW q, q = [rs EXCEPT ![i] = e]
  PROVE  IsMarked(rs, i, e, q)
<1>1. q \in Seq(Row) /\ DOMAIN q = DOMAIN rs
  BY ExceptSeq, LenProperties
<1>2. q[i] = e /\ \A j \in DOMAIN rs : j # i => q[j] = rs[j]
  OBVIOUS
<1>3. \A j \in DOMAIN rs : Alike(rs[j], q[j])
  BY <1>2 DEF Alike
<1>. QED
  BY <1>1, <1>2, <1>3 DEF IsMarked

(* The ways the code marks a row are such. *)
LEMMA Marking ==
  ASSUME NEW rs \in Seq(Row), NEW i \in DOMAIN rs, NEW b \in BOOLEAN,
         NEW e, e \in {[rs[i] EXCEPT !.due = TRUE], [rs[i] EXCEPT !.inflight = TRUE],
                       [rs[i] EXCEPT !.inflight = FALSE, !.due = FALSE]}
  PROVE  e \in Row /\ Alike(rs[i], e)
<1>1. rs[i] \in Row
  BY ElementOfSeq, LenProperties
<1>. QED
  BY <1>1 DEF Row, Alike

IsReset(rs, q) ==
  /\ q \in Seq(Row) /\ DOMAIN q = DOMAIN rs
  /\ \A j \in DOMAIN rs : /\ q[j].op = rs[j].op /\ q[j].draft = rs[j].draft
                          /\ q[j].text = rs[j].text /\ q[j].gid = rs[j].gid /\ ~q[j].inflight

LEMMA NoneInFlight ==
  ASSUME NEW rs \in Seq(Row), NEW q, q = [i \in DOMAIN rs |-> [rs[i] EXCEPT !.inflight = FALSE]]
  PROVE  IsReset(rs, q)
<1>. USE DEF IsReset
<1>1. /\ DOMAIN rs = 1 .. Len(rs) /\ Len(rs) \in Nat
      /\ \A i \in DOMAIN rs : rs[i] \in Row
  BY ElementOfSeq, LenProperties
<1>2. \A i \in DOMAIN rs : [rs[i] EXCEPT !.inflight = FALSE] \in Row
  BY <1>1 DEF Row
<1>3. q \in Seq(Row)
  <2>1. \A i \in 1 .. Len(rs) : q[i] \in Row
    BY <1>1, <1>2
  <2>2. q = [i \in 1 .. Len(rs) |-> q[i]]
    BY <1>1
  <2>. QED
    BY <1>1, <2>1, <2>2, IsASeq
<1>. QED
  BY <1>1, <1>3 DEF Row, IsReset

-----------------------------------------------------------------------------
(* The types are kept. *)

Grows ==
  /\ Counted'
  /\ lastDraft <= lastDraft' /\ lastGmail <= lastGmail' /\ lastText <= lastText'
  /\ lists <= lists' /\ remote <= remote'

(* The row an import goes to. *)
LEMMA RowForIs ==
  ASSUME DraftsKnown, Counted, NEW g
  PROVE  \/ RowFor(g) = lastDraft + 1 /\ \A e \in DOMAIN drafts : drafts[e].gid # g
         \/ /\ RowFor(g) \in DOMAIN drafts /\ drafts[RowFor(g)].gid = g
            /\ \A e \in DOMAIN drafts : drafts[e].gid = g => RowFor(g) <= e
<1>. DEFINE ds == {e \in DOMAIN drafts : drafts[e].gid = g}
<1>1. CASE ds = {}
  BY <1>1 DEF RowFor
<1>2. CASE ds # {}
  <2>1. \A e \in ds : e \in Nat
    BY DEF DraftsKnown, Counted
  <2>2. Min(ds) \in ds /\ \A e \in ds : Min(ds) <= e
    <3>. HIDE DEF ds
    <3>1. ds \in SUBSET Nat
      BY <2>1
    <3>. QED
      BY <1>2, <3>1, MinIsLeast
  <2>. QED
    BY <1>2, <2>2 DEF RowFor
<1>. QED
  BY <1>1, <1>2

LEMMA Counting ==
  ASSUME Counted, DraftsKnown, [Next]_vars
  PROVE  Grows
<1>0. /\ lastDraft \in Nat /\ lastGmail \in Nat /\ lastText \in Nat
      /\ lists \in Nat /\ remote \in Nat /\ faults \in Seq(Faults)
  BY DEF Counted
<1>. DEFINE Same(x, y) == y = x
            More(x, y) == y = x + 1
            Quiet == /\ lists' = lists \/ lists' = lists + 1
                     /\ remote' = remote \/ remote' = remote + 1
                     /\ lastDraft' = lastDraft \/ lastDraft' = lastDraft + 1
                     /\ lastGmail' = lastGmail \/ lastGmail' = lastGmail + 1
                     /\ lastText' = lastText \/ lastText' = lastText + 1
                     /\ faults' = faults \/ \E k \in Faults : faults' = Append(faults, k)
<1>1. Quiet => Grows
  <2>. SUFFICES ASSUME Quiet PROVE Grows
    OBVIOUS
  <2>1. \A k \in Faults : Append(faults, k) \in Seq(Faults)
    BY <1>0, AppendProperties
  <2>2. faults' \in Seq(Faults)
    BY <1>0, <2>1
  <2>3. /\ lists' \in Nat /\ lists <= lists' /\ remote' \in Nat /\ remote <= remote'
        /\ lastDraft' \in Nat /\ lastDraft <= lastDraft'
    BY <1>0
  <2>4. /\ lastGmail' \in Nat /\ lastGmail <= lastGmail'
        /\ lastText' \in Nat /\ lastText <= lastText'
    BY <1>0
  <2>. HIDE DEF Quiet
  <2>. QED
    BY <2>2, <2>3, <2>4 DEF Grows, Counted
<1>. USE DEF Fault, NewText, RemoteChange, counters, table, box, reconcile, history
<1>2. CASE NewDraft
  BY <1>1, <1>2 DEF NewDraft
<1>3. ASSUME NEW d \in DOMAIN drafts, EditDraft(d) \/ Discard(d) \/ Detach(d) \/ Age(d) PROVE Quiet
  BY <1>3 DEF EditDraft, Discard, Detach, Age
<1>4. ASSUME NEW s \in DOMAIN sends,
             ReturnDraft(s) \/ GraceEnds(s) \/ QueueSend(s) \/ RefuseSend(s) \/ Release(s)
      PROVE  Quiet
  BY <1>4 DEF ReturnDraft, GraceEnds, QueueSend, RefuseSend, Release
<1>5. CASE Remote
  BY <1>1, <1>5 DEF Remote, GmailNew, GmailEdit, GmailDelete
<1>6. ASSUME BecomeDue \/ Mirror PROVE Quiet
  BY <1>6 DEF BecomeDue, Mirror, Fire
<1>7. ASSUME \/ StartDrain \/ SkipMoot \/ TakeNext \/ EndDrain
             \/ GmailCreates \/ GmailUpdates \/ GmailDeletes PROVE Quiet
  BY <1>7 DEF StartDrain, SkipMoot, TakeNext, EndDrain, GmailCreates, GmailUpdates, GmailDeletes
<1>8. ASSUME Ack \/ FailRetry \/ FailTerminal \/ FailAuth PROVE Quiet
  BY <1>8 DEF Ack, FailRetry, FailTerminal, FailAuth
<1>9. ASSUME List \/ ReconcileFails \/ Crash PROVE Quiet
  BY <1>9 DEF List, ReconcileFails, Crash
<1>10. ASSUME NEW g \in todo, VisitUnchanged(g) \/ VisitPush(g) \/ VisitFetch(g) PROVE Quiet
  BY <1>10 DEF VisitUnchanged, VisitPush, VisitFetch
<1>11. ASSUME Fetched \/ EndReconcile \/ ReconcileMisses PROVE Quiet
  BY <1>11 DEF Fetched, EndReconcile, ReconcileMisses
<1>12. CASE UNCHANGED vars
  BY <1>1, <1>12 DEF vars
<1>. HIDE DEF Quiet
<1>13. CASE Import
  <2>1. UNCHANGED <<lastGmail, lastText, lists, remote, faults>>
    BY <1>13 DEF Import
  <2>2. lastDraft' = lastDraft \/ (lastDraft' = RowFor(seen.at) /\ ~Here(RowFor(seen.at)))
    BY <1>13 DEF Import
  <2>3. RowFor(seen.at) = lastDraft + 1 \/ Here(RowFor(seen.at))
    BY RowForIs DEF Here
  <2>. QED
    BY <1>1, <2>1, <2>2, <2>3 DEF Quiet
<1>. QED
  BY <1>1, <1>2, <1>3, <1>4, <1>5, <1>6, <1>7, <1>8, <1>9, <1>10, <1>11, <1>12, <1>13
  DEF Next, User, Remote, Clock, Mirror, Sending, Drain, Reconcile

(* One draft changes. *)
LEMMA OneDraft ==
  ASSUME DraftsKnown, Counted, Grows, NEW d \in 1 .. lastDraft', NEW r \in Draft,
         r.gid <= lastGmail', r.text <= lastText',
         armed' \subseteq armed \cup {d},
         \A e \in DOMAIN drafts' : e = d \/ (e \in DOMAIN drafts /\ drafts'[e] = drafts[e]),
         d \in DOMAIN drafts' => drafts'[d] = r
  PROVE  DraftsKnown'
<1>1. \A e \in DOMAIN drafts : e \in 1 .. lastDraft'
  BY DEF DraftsKnown, Grows, Counted
<1>2. armed' \subseteq Nat
  <2>1. d \in Nat /\ armed \subseteq Nat
    BY DEF DraftsKnown, Grows, Counted
  <2>. QED
    BY <2>1
<1>3. ASSUME NEW e \in DOMAIN drafts'
      PROVE  /\ e \in 1 .. lastDraft' /\ drafts'[e] \in Draft
             /\ drafts'[e].gid <= lastGmail' /\ drafts'[e].text <= lastText'
  <2>1. CASE e = d
    BY <2>1, <1>3
  <2>2. CASE e # d
    <3>1. /\ e \in DOMAIN drafts /\ drafts'[e] = drafts[e] /\ drafts[e] \in Draft
          /\ drafts[e].gid <= lastGmail /\ drafts[e].text <= lastText
      BY <2>2, <1>3 DEF DraftsKnown
    <3>2. /\ drafts[e].gid \in Nat /\ drafts[e].text \in Nat /\ lastGmail \in Nat
          /\ lastText \in Nat /\ lastGmail' \in Nat /\ lastText' \in Nat
      BY <3>1 DEF Grows, Counted, Draft
    <3>. QED
      BY <1>1, <3>1, <3>2 DEF Grows
  <2>. QED
    BY <2>1, <2>2
<1>. QED
  BY <1>2, <1>3 DEF DraftsKnown

LEMMA NoDraft ==
  ASSUME DraftsKnown, Grows, Counted, armed' \subseteq Nat,
         \A e \in DOMAIN drafts' : e \in DOMAIN drafts /\ drafts'[e] = drafts[e]
  PROVE  DraftsKnown'
<1>1. ASSUME NEW e \in DOMAIN drafts'
      PROVE  /\ e \in 1 .. lastDraft' /\ drafts'[e] \in Draft
             /\ drafts'[e].gid <= lastGmail' /\ drafts'[e].text <= lastText'
  <2>1. /\ e \in DOMAIN drafts /\ drafts'[e] = drafts[e] /\ drafts[e] \in Draft
        /\ drafts[e].gid <= lastGmail /\ drafts[e].text <= lastText /\ e \in 1 .. lastDraft
    BY <1>1 DEF DraftsKnown
  <2>. QED
    BY <2>1 DEF Grows, Counted, Draft
<1>. QED
  BY <1>1 DEF DraftsKnown

LEMMA DraftsStep ==
  ASSUME Known, Next, Grows
  PROVE  DraftsKnown'
<1>0. DraftsKnown /\ Counted /\ RowsKnown /\ SendsKnown
  BY DEF Known
<1>00. \A d \in DOMAIN drafts : /\ d \in 1 .. lastDraft /\ d \in 1 .. lastDraft'
                                /\ drafts[d] \in Draft /\ drafts[d].gid <= lastGmail
                                /\ drafts[d].text <= lastText
                                /\ drafts[d].gid <= lastGmail' /\ drafts[d].text <= lastText'
  BY <1>0 DEF DraftsKnown, Grows, Counted, Draft
<1>1. CASE NewDraft
  <2>1. /\ lastDraft' \in 1 .. lastDraft' /\ Typed(lastText', None, None) \in Draft
        /\ armed' = armed \cup {lastDraft'}
        /\ drafts' = With(drafts, lastDraft', Typed(lastText', None, None))
        /\ lastText' \in Nat /\ lastGmail' \in Nat
    BY <1>0, <1>1 DEF NewDraft, NewText, Typed, Draft, States, None, Counted, Grows
  <2>2. Typed(lastText', None, None).gid <= lastGmail' /\ Typed(lastText', None, None).text <= lastText'
    BY <2>1 DEF Typed, None
  <2>. QED
    BY <1>0, <2>1, <2>2, OneDraft DEF With
<1>2. ASSUME NEW d \in DOMAIN drafts, EditDraft(d) PROVE DraftsKnown'
  <2>. DEFINE r == Typed(lastText', drafts[d].gid, drafts[d].rev)
  <2>1. /\ r \in Draft /\ armed' = armed \cup {d} /\ drafts' = [drafts EXCEPT ![d] = r]
        /\ r.gid <= lastGmail' /\ r.text <= lastText'
    BY <1>00, <1>2 DEF EditDraft, Typed, Draft, States, Grows, Counted
  <2>. HIDE DEF r
  <2>. QED
    BY <1>0, <1>00, <2>1, OneDraft
<1>3. ASSUME NEW d \in DOMAIN drafts, NEW s \in States, NEW b \in BOOLEAN, armed' \subseteq armed,
             drafts' = [drafts EXCEPT ![d] = [drafts[d] EXCEPT !.state = s, !.recent = b]]
      PROVE  DraftsKnown'
  <2>. DEFINE r == [drafts[d] EXCEPT !.state = s, !.recent = b]
  <2>1. /\ r \in Draft /\ drafts' = [drafts EXCEPT ![d] = r]
        /\ r.gid <= lastGmail' /\ r.text <= lastText'
    BY <1>00, <1>3 DEF Draft, States
  <2>. HIDE DEF r
  <2>. QED
    BY <1>0, <1>00, <1>3, <2>1, OneDraft
<1>3a. ASSUME NEW d, NEW s \in States, armed' \subseteq armed, MirrorState(d, s)
       PROVE  DraftsKnown'
  <2>1. CASE Here(d)
    <3>1. drafts' = [drafts EXCEPT ![d] = [drafts[d] EXCEPT !.state = s, !.recent = drafts[d].recent]]
      BY <2>1, <1>3a, <1>00 DEF MirrorState, Here, Draft
    <3>. QED
      BY <2>1, <1>3, <1>3a, <3>1, <1>00 DEF Here, Draft
  <2>2. CASE ~Here(d)
    BY <2>2, <1>0, <1>3a, NoDraft DEF MirrorState, DraftsKnown
  <2>. QED
    BY <2>1, <2>2
<1>4. ASSUME NEW d \in DOMAIN drafts, Age(d) PROVE DraftsKnown'
  <2>1. drafts' = [drafts EXCEPT ![d] = [drafts[d] EXCEPT !.state = drafts[d].state, !.recent = FALSE]]
    BY <1>4, <1>00 DEF Age, Draft
  <2>. QED
    BY <1>3, <1>4, <2>1, <1>00 DEF Age, Draft
<1>5. ASSUME NEW d \in armed, Fire(d) PROVE DraftsKnown'
  <2>1. MirrorState(d, "pending") /\ armed' \subseteq armed
    BY <1>5 DEF Fire, MirrorState
  <2>. QED
    BY <2>1, <1>3a DEF States
<1>6. ASSUME NEW d \in DOMAIN drafts, Discard(d) \/ Detach(d) PROVE DraftsKnown'
  BY <1>0, <1>6, NoDraft DEF Discard, Detach, Without, Restrict, DraftsKnown
<1>7. ASSUME NEW s \in DOMAIN sends, ReturnDraft(s) PROVE DraftsKnown'
  <2>. DEFINE r == Typed(sends[s].text, sends[s].gid, None)
  <2>1. sends[s] \in Send /\ sends[s].gid <= lastGmail' /\ sends[s].text <= lastText'
    BY <1>0, <1>7, ElementOfSeq, LenProperties DEF SendsKnown, ReturnDraft, Grows, Counted
  <2>2. /\ lastDraft' \in 1 .. lastDraft' /\ r \in Draft /\ r.gid <= lastGmail' /\ r.text <= lastText'
        /\ armed' = armed /\ drafts' = With(drafts, lastDraft', r)
    BY <1>0, <1>7, <2>1 DEF ReturnDraft, Typed, Draft, States, None, Counted, Send
  <2>. HIDE DEF r
  <2>. QED
    BY <1>0, <2>2, OneDraft DEF With
<1>8. CASE Ack
  <2>1. CASE UNCHANGED drafts \/ drafts' = Without(drafts, job.draft)
    BY <1>0, <1>8, <2>1, NoDraft DEF Ack, Without, Restrict, DraftsKnown
  <2>2. CASE Here(job.draft) /\ job.op = "upsert" /\ ~answer.gone
    <3>. DEFINE d == job.draft
                r == [drafts[d] EXCEPT !.gid = answer.gid, !.rev = answer.rev,
                                       !.state = StateAfter(Tail(rows), d)]
    <3>1. answer.gid \in 1 .. lastGmail /\ answer.rev \in Nat
      BY <1>8, <2>2 DEF Known, AnswerKnown, Ack
    <3>2. r \in Draft /\ r.gid <= lastGmail' /\ r.text <= lastText'
      <4>1. drafts[d] \in Draft /\ drafts[d].text <= lastText'
        BY <1>00, <2>2 DEF Here
      <4>2. StateAfter(Tail(rows), d) \in States
        BY DEF StateAfter, States
      <4>3. answer.gid \in Nat /\ answer.gid <= lastGmail'
        BY <1>0, <3>1 DEF Grows, Counted
      <4>. QED
        BY <3>1, <4>1, <4>2, <4>3 DEF Draft
    <3>3. drafts' = [drafts EXCEPT ![d].gid = answer.gid, ![d].rev = answer.rev,
                                   ![d].state = StateAfter(Tail(rows), d)] /\ armed' = armed
      BY <1>8, <2>2 DEF Ack, Recorded
    <3>4. /\ DOMAIN drafts' = DOMAIN drafts /\ \A e \in DOMAIN drafts : e # d => drafts'[e] = drafts[e]
          /\ drafts'[d] = r
      BY <2>2, <3>3, <1>00 DEF Here, Draft
    <3>. HIDE DEF r
    <3>. QED
      BY <1>0, <1>00, <2>2, <3>2, <3>3, <3>4, OneDraft DEF Here
  <2>. QED
    BY <1>8, <2>1, <2>2 DEF Ack
<1>9. CASE FailRetry \/ FailTerminal \/ FailAuth
  <2>1. armed' \subseteq armed /\ \E s \in States : MirrorState(job.draft, s)
    BY <1>9 DEF FailRetry, FailTerminal, FailAuth, States
  <2>. QED
    BY <1>3a, <2>1
<1>10. CASE List
  BY <1>0, <1>10, NoDraft DEF List, Restrict, DraftsKnown
<1>11. ASSUME NEW g \in todo, VisitPush(g) PROVE DraftsKnown'
  <2>1. MirrorState(LocalOf(g), "pending") /\ armed' \subseteq armed
    BY <1>11 DEF VisitPush, MirrorState
  <2>. QED
    BY <2>1, <1>3a DEF States
<1>12. CASE Import
  <2>. DEFINE g == seen.at
              d == RowFor(g)
              r == [text |-> seen.fetched.text, gid |-> g, rev |-> seen.fetched.rev, state |-> "synced",
                    recent |-> IF Here(d) THEN drafts[d].recent ELSE FALSE]
  <2>1. g \in 1 .. lastGmail /\ seen.fetched \in Copy /\ seen.fetched.text <= lastText
    BY <1>12 DEF Known, SeenKnown, Import
  <2>2. d = lastDraft + 1 \/ d \in DOMAIN drafts
    BY <1>0, RowForIs
  <2>3. /\ drafts' = With(drafts, d, r) /\ armed' = armed /\ UNCHANGED <<lastGmail, lastText>>
        /\ lastDraft' = IF Here(d) THEN lastDraft ELSE d
    BY <1>12 DEF Import
  <2>4. r \in Draft /\ r.gid <= lastGmail' /\ r.text <= lastText'
    <3>1. PICK b \in BOOLEAN : b = IF Here(d) THEN drafts[d].recent ELSE FALSE
      BY <1>00 DEF Here, Draft
    <3>1a. r = [text |-> seen.fetched.text, gid |-> g, rev |-> seen.fetched.rev, state |-> "synced", recent |-> b]
      BY <3>1
    <3>2. seen.fetched.text \in Nat /\ seen.fetched.rev \in Nat /\ g \in Nat
      BY <1>0, <2>1 DEF Copy, Counted
    <3>. HIDE DEF d, r, g
    <3>. QED
      BY <2>1, <2>3, <3>1a, <3>2, <1>0 DEF Draft, States, Counted
  <2>. HIDE DEF r, d
  <2>5. d \in 1 .. lastDraft'
    BY <1>0, <1>00, <2>2, <2>3 DEF Here, Counted
  <2>. QED
    BY <1>0, <2>3, <2>4, <2>5, OneDraft DEF With
<1>13. ASSUME UNCHANGED drafts, armed' = armed PROVE DraftsKnown'
  BY <1>0, <1>13, NoDraft DEF DraftsKnown
<1>14. CASE Crash
  BY <1>0, <1>00, <1>14, NoDraft DEF DraftsKnown, Crash, Recovered
<1>15. CASE Remote
  BY <1>13, <1>15 DEF Remote, GmailNew, GmailEdit, GmailDelete, table
<1>16. CASE BecomeDue \/ \E s \in DOMAIN sends : GraceEnds(s) \/ QueueSend(s) \/ RefuseSend(s) \/ Release(s)
  BY <1>13, <1>16 DEF BecomeDue, GraceEnds, QueueSend, RefuseSend, Release, table
<1>17. CASE StartDrain \/ SkipMoot \/ TakeNext \/ EndDrain \/ GmailCreates \/ GmailUpdates \/ GmailDeletes
  BY <1>13, <1>17 DEF StartDrain, SkipMoot, TakeNext, EndDrain, GmailCreates, GmailUpdates, GmailDeletes, table
<1>18. CASE \/ \E g \in todo : VisitUnchanged(g) \/ VisitFetch(g)
            \/ Fetched \/ EndReconcile \/ ReconcileMisses \/ ReconcileFails
  BY <1>13, <1>18 DEF VisitUnchanged, VisitFetch, Fetched, EndReconcile, ReconcileMisses, ReconcileFails, table
<1>. QED
  BY <1>1, <1>2, <1>4, <1>5, <1>6, <1>7, <1>8, <1>9, <1>10, <1>11, <1>12, <1>14, <1>15, <1>16, <1>17, <1>18
  DEF Next, User, Clock, Mirror, Sending, Drain, Reconcile

-----------------------------------------------------------------------------
(* The rows keep their types, and the row in flight stays the first. *)

SameInFlight(rs, q) ==
  /\ InFlight(rs) <=> InFlight(q)
  /\ InFlight(rs) => Alike(rs[1], q[1])

LEMMA RowsGrow ==
  ASSUME NEW d \in Nat, NEW t \in Nat, NEW e \in Nat, NEW u \in Nat, d <= e, t <= u,
         NEW n \in Nat, NEW m \in Nat, n <= m, NEW rs, RowsOf(rs, d, t, n)
  PROVE  RowsOf(rs, e, u, m)
<1>1. \A i \in DOMAIN rs : rs[i] \in Row
  BY ElementOfSeq, LenProperties DEF RowsOf
<1>2. \A i \in DOMAIN rs : rs[i].draft \in Nat /\ rs[i].text \in Nat /\ rs[i].gid \in Nat
  BY <1>1 DEF Row
<1>3. ASSUME NEW i \in DOMAIN rs, rs[i].op = "upsert" PROVE rs[i].draft \in 1..e /\ rs[i].text <= u
  <2>1. rs[i].draft \in 1..d /\ rs[i].text <= t
    BY <1>3 DEF RowsOf
  <2>. QED
    BY <2>1, <1>2
<1>4. \A i \in DOMAIN rs : rs[i].gid <= m
  BY <1>2 DEF RowsOf
<1>. QED
  BY <1>3, <1>4 DEF RowsOf

LEMMA RowsQueued ==
  ASSUME NEW d \in Nat, NEW t \in Nat, NEW n \in Nat, NEW rs, RowsOf(rs, d, t, n),
         NEW e \in 1 .. d, NEW u \in 0 .. t, NEW q, q = EnqueueUpsert(rs, e, u)
  PROVE  RowsOf(q, d, t, n) /\ SameInFlight(rs, q)
<1>0. rs \in Seq(Row) /\ e \in Nat /\ u \in Nat
  BY DEF RowsOf
<1>00. \A i \in DOMAIN rs : rs[i] \in Row
  BY <1>0, ElementOfSeq, LenProperties
<1>1a. IsQueued(rs, e, u, q)
  BY <1>0, Queued
<1>1. /\ q \in Seq(Row) /\ DOMAIN rs \subseteq DOMAIN q
      /\ \A i \in DOMAIN rs :
           q[i] = rs[i] \/ (IsUpsert(rs[i], e) /\ ~rs[i].inflight /\ q[i] = [rs[i] EXCEPT !.text = u])
      /\ \A i \in DOMAIN q :
           i \in DOMAIN rs \/ (i = Len(rs) + 1 /\ q[i] = UpsertRow(e, u))
  BY <1>1a DEF IsQueued
<1>2. ASSUME NEW i \in DOMAIN q
      PROVE  /\ q[i].gid <= n /\ (q[i].op = "delete" => q[i].draft = None)
             /\ q[i].op = "upsert" => q[i].draft \in 1 .. d /\ q[i].text <= t
             /\ q[i].inflight => i \in DOMAIN rs /\ rs[i].inflight /\ q[i] = rs[i]
  <2>1. CASE i \in DOMAIN rs /\ q[i] = rs[i]
    BY <2>1 DEF RowsOf
  <2>2. CASE i \in DOMAIN rs /\ IsUpsert(rs[i], e) /\ ~rs[i].inflight /\ q[i] = [rs[i] EXCEPT !.text = u]
    BY <2>2, <1>00 DEF RowsOf, Row
  <2>3. CASE q[i] = UpsertRow(e, u)
    BY <2>3 DEF UpsertRow, None
  <2>. QED
    BY <1>1, <1>2, <2>1, <2>2, <2>3
<1>3. RowsOf(q, d, t, n)
  BY <1>1, <1>2 DEF RowsOf
<1>4. SameInFlight(rs, q)
  BY <1>1, <1>2 DEF SameInFlight, InFlight, Alike
<1>. QED
  BY <1>3, <1>4

LEMMA RowsDropped ==
  ASSUME NEW d \in Nat, NEW t \in Nat, NEW n \in Nat, NEW rs, RowsOf(rs, d, t, n), NEW ds, NEW q, q = DropAll(rs, ds)
  PROVE  RowsOf(q, d, t, n) /\ SameInFlight(rs, q)
<1>0. rs \in Seq(Row) /\ \A i \in DOMAIN rs : rs[i].inflight => i = 1
  BY DEF RowsOf
<1>1. /\ q \in Seq(Row)
      /\ \A k \in DOMAIN q : \E i \in DOMAIN rs : q[k] = rs[i]
      /\ \A k \in DOMAIN q : q[k].inflight => k = 1
      /\ 1 \in DOMAIN rs /\ rs[1].inflight => 1 \in DOMAIN q /\ q[1] = rs[1]
  <2>1. IsDropped(rs, ds, q)
    BY <1>0, Dropping
  <2>. QED
    BY <2>1 DEF IsDropped
<1>2. RowsOf(q, d, t, n)
  BY <1>1 DEF RowsOf
<1>3. SameInFlight(rs, q)
  BY <1>0, <1>1 DEF SameInFlight, InFlight, Alike
<1>. QED
  BY <1>2, <1>3

LEMMA RowsDeleting ==
  ASSUME NEW d \in Nat, NEW t \in Nat, NEW n \in Nat, NEW rs, RowsOf(rs, d, t, n), NEW g \in 0 .. n,
         NEW q, q = EnqueueDelete(rs, g)
  PROVE  RowsOf(q, d, t, n) /\ SameInFlight(rs, q)
<1>0. rs \in Seq(Row) /\ g \in Nat
  BY DEF RowsOf
<1>1. /\ q \in Seq(Row) /\ DOMAIN rs \subseteq DOMAIN q
      /\ \A i \in DOMAIN rs : q[i] = rs[i]
      /\ \A i \in DOMAIN q : i \in DOMAIN rs \/ (i = Len(rs) + 1 /\ q[i] = DeleteRow(g))
  <2>1. IsDeleting(rs, g, q)
    BY <1>0, Deleting
  <2>. QED
    BY <2>1 DEF IsDeleting
<1>2. DeleteRow(g).op = "delete" /\ DeleteRow(g).inflight = FALSE /\ DeleteRow(g).gid <= n /\ DeleteRow(g).draft = None
  BY DEF DeleteRow
<1>3. RowsOf(q, d, t, n)
  BY <1>1, <1>2 DEF RowsOf
<1>4. SameInFlight(rs, q)
  BY <1>1, <1>2 DEF SameInFlight, InFlight, Alike
<1>. QED
  BY <1>3, <1>4

LEMMA RowsTail ==
  ASSUME NEW d \in Nat, NEW t \in Nat, NEW n \in Nat, NEW rs, RowsOf(rs, d, t, n), 1 \in DOMAIN rs, NEW q, q = Tail(rs)
  PROVE  RowsOf(q, d, t, n) /\ ~InFlight(q) /\ \A i \in DOMAIN q : ~q[i].inflight
<1>0. rs \in Seq(Row)
  BY DEF RowsOf
<1>1. /\ q \in Seq(Row)
      /\ \A k \in DOMAIN q : k + 1 \in DOMAIN rs /\ k + 1 # 1 /\ q[k] = rs[k + 1]
  <2>1. IsTail(rs, q)
    BY <1>0, FirstLeft
  <2>. QED
    BY <2>1 DEF IsTail
<1>2. \A k \in DOMAIN q : ~q[k].inflight
  BY <1>1 DEF RowsOf
<1>3. RowsOf(q, d, t, n)
  BY <1>1, <1>2 DEF RowsOf
<1>. QED
  BY <1>2, <1>3 DEF InFlight

LEMMA RowsMarked ==
  ASSUME NEW d \in Nat, NEW t \in Nat, NEW n \in Nat, NEW rs, RowsOf(rs, d, t, n), NEW i \in DOMAIN rs,
         NEW e, NEW q, IsMarked(rs, i, e, q), e.inflight => i = 1
  PROVE  RowsOf(q, d, t, n)
BY DEF RowsOf, IsMarked, Alike

LEMMA SameTwice ==
  ASSUME NEW rs, NEW q, NEW p, SameInFlight(rs, q), SameInFlight(q, p)
  PROVE  SameInFlight(rs, p)
BY DEF SameInFlight, Alike

(* What a step does to the rows, all but the drain's and a crash. *)
Beside ==
  \/ User \/ Remote \/ Clock \/ Mirror \/ Sending \/ List \/ Reconcile \/ ReconcileFails

LEMMA RowsBeside ==
  ASSUME Known, Beside, Grows
  PROVE  RowsKnown' /\ SameInFlight(rows, rows')
<1>0. /\ Counted /\ DraftsKnown /\ SendsKnown /\ SeenKnown
      /\ RowsOf(rows, lastDraft, lastText, lastGmail) /\ rows \in Seq(Row)
  BY DEF Known, RowsKnown, RowsOf
<1>00. /\ RowsOf(rows, lastDraft', lastText', lastGmail')
       /\ lastDraft' \in Nat /\ lastText' \in Nat /\ lastGmail' \in Nat
  <2>1. /\ lastDraft \in Nat /\ lastDraft' \in Nat /\ lastDraft <= lastDraft'
        /\ lastText \in Nat /\ lastText' \in Nat /\ lastText <= lastText'
        /\ lastGmail \in Nat /\ lastGmail' \in Nat /\ lastGmail <= lastGmail'
    BY <1>0 DEF Counted, Grows
  <2>. QED
    BY <1>0, <2>1, RowsGrow
<1>. DEFINE G(rs) == RowsOf(rs, lastDraft', lastText', lastGmail')
<1>1. ASSUME G(rows'), SameInFlight(rows, rows') PROVE RowsKnown' /\ SameInFlight(rows, rows')
  BY <1>1 DEF RowsKnown
<1>2. ASSUME rows' = rows PROVE RowsKnown' /\ SameInFlight(rows, rows')
  BY <1>00, <1>1, <1>2 DEF SameInFlight, Alike
<1>3. \A d \in DOMAIN drafts : /\ d \in 1 .. lastDraft' /\ drafts[d].text \in 0 .. lastText'
                               /\ drafts[d].gid \in 0 .. lastGmail'
  BY <1>0 DEF DraftsKnown, Counted, Grows, Draft
<1>4. \A s \in DOMAIN sends : sends[s].text \in 0 .. lastText' /\ sends[s].gid \in 0 .. lastGmail'
  <2>1. \A s \in DOMAIN sends : sends[s] \in Send /\ sends[s].text <= lastText /\ sends[s].gid <= lastGmail
    BY <1>0, ElementOfSeq, LenProperties DEF SendsKnown
  <2>. QED
    BY <1>0, <2>1 DEF Counted, Grows, Send
<1>5. ASSUME NEW d \in DOMAIN drafts, rows' = EnqueueUpsert(rows, d, drafts[d].text)
      PROVE  RowsKnown' /\ SameInFlight(rows, rows')
  <2>. DEFINE t == drafts[d].text
  <2>1. d \in 1 .. lastDraft' /\ t \in 0 .. lastText' /\ rows' = EnqueueUpsert(rows, d, t)
    BY <1>3, <1>5
  <2>. HIDE DEF t
  <2>2. RowsOf(rows', lastDraft', lastText', lastGmail') /\ SameInFlight(rows, rows')
    BY <1>00, <2>1, RowsQueued
  <2>. QED
    BY <1>1, <2>2
<1>6. ASSUME NEW ds, rows' = DropAll(rows, ds) PROVE RowsKnown' /\ SameInFlight(rows, rows')
  <2>1. RowsOf(rows', lastDraft', lastText', lastGmail') /\ SameInFlight(rows, rows')
    BY <1>00, <1>6, RowsDropped
  <2>. QED
    BY <1>1, <2>1
<1>7. ASSUME NEW d \in DOMAIN drafts, Discard(d) PROVE RowsKnown' /\ SameInFlight(rows, rows')
  <2>. DEFINE q == DropAll(rows, {d})
              g == drafts[d].gid
  <2>1. rows' = EnqueueDelete(q, g) /\ g \in 0 .. lastGmail'
    BY <1>3, <1>7 DEF Discard, DropUpserts
  <2>2. RowsOf(q, lastDraft', lastText', lastGmail') /\ SameInFlight(rows, q)
    BY <1>00, RowsDropped
  <2>. HIDE DEF q, g
  <2>3. RowsOf(rows', lastDraft', lastText', lastGmail') /\ SameInFlight(q, rows')
    BY <1>00, <2>1, <2>2, RowsDeleting
  <2>. QED
    BY <1>1, <2>2, <2>3, SameTwice
<1>8. ASSUME NEW s \in DOMAIN sends, ReturnDraft(s) PROVE RowsKnown' /\ SameInFlight(rows, rows')
  <2>. DEFINE t == sends[s].text
  <2>1. rows' = EnqueueUpsert(rows, lastDraft', t) /\ lastDraft' \in 1 .. lastDraft' /\ t \in 0 .. lastText'
    BY <1>0, <1>4, <1>8 DEF ReturnDraft, Counted
  <2>. HIDE DEF t
  <2>2. RowsOf(rows', lastDraft', lastText', lastGmail') /\ SameInFlight(rows, rows')
    BY <1>00, <2>1, RowsQueued
  <2>. QED
    BY <1>1, <2>2
<1>9. ASSUME NEW s \in DOMAIN sends, Release(s) PROVE RowsKnown' /\ SameInFlight(rows, rows')
  <2>. DEFINE g == sends[s].gid
  <2>1. rows' = EnqueueDelete(rows, g) /\ g \in 0 .. lastGmail'
    BY <1>4, <1>9 DEF Release
  <2>. HIDE DEF g
  <2>2. RowsOf(rows', lastDraft', lastText', lastGmail') /\ SameInFlight(rows, rows')
    BY <1>00, <2>1, RowsDeleting
  <2>. QED
    BY <1>1, <2>2
<1>10. CASE BecomeDue
  <2>1. PICK i \in DOMAIN rows : rows' = [rows EXCEPT ![i].due = TRUE]
    BY <1>10 DEF BecomeDue
  <2>. DEFINE e == [rows[i] EXCEPT !.due = TRUE]
  <2>2. rows' = [rows EXCEPT ![i] = e]
    BY <2>1
  <2>3. e \in Row /\ Alike(rows[i], e)
    BY <1>0, Marking
  <2>4. e.inflight = rows[i].inflight /\ (rows[i].inflight => i = 1)
    BY <1>0, ElementOfSeq, LenProperties DEF Row, RowsOf
  <2>. HIDE DEF e
  <2>5. IsMarked(rows, i, e, rows')
    BY <1>0, <2>2, <2>3, Marked
  <2>6. RowsOf(rows', lastDraft', lastText', lastGmail')
    BY <1>00, <2>4, <2>5, RowsMarked
  <2>7. SameInFlight(rows, rows')
    BY <2>4, <2>5 DEF SameInFlight, InFlight, IsMarked
  <2>. QED
    BY <1>1, <2>6, <2>7
<1>11. CASE Fetched
  BY <1>6, <1>11 DEF Fetched, DropUpserts
<1>12. CASE List
  BY <1>6, <1>12 DEF List
<1>13. ASSUME NEW d \in DOMAIN drafts, Detach(d) PROVE RowsKnown' /\ SameInFlight(rows, rows')
  BY <1>6, <1>13 DEF Detach, DropUpserts
<1>14. ASSUME NEW d \in armed, Fire(d) PROVE RowsKnown' /\ SameInFlight(rows, rows')
  BY <1>2, <1>5, <1>14 DEF Fire, Here
<1>15. ASSUME NEW g \in todo, VisitPush(g) PROVE RowsKnown' /\ SameInFlight(rows, rows')
  BY <1>2, <1>5, <1>15 DEF VisitPush, Here
<1>. USE DEF box
<1>16. CASE NewDraft \/ \E d \in DOMAIN drafts : EditDraft(d) \/ Age(d)
  BY <1>2, <1>16 DEF NewDraft, EditDraft, Age
<1>17. CASE Remote
  BY <1>2, <1>17 DEF Remote, GmailNew, GmailEdit, GmailDelete
<1>18. CASE \E s \in DOMAIN sends : GraceEnds(s) \/ QueueSend(s) \/ RefuseSend(s)
  BY <1>2, <1>18 DEF GraceEnds, QueueSend, RefuseSend
<1>19. CASE \E g \in todo : VisitUnchanged(g) \/ VisitFetch(g)
  BY <1>2, <1>19 DEF VisitUnchanged, VisitFetch
<1>20. CASE Import \/ EndReconcile \/ ReconcileMisses \/ ReconcileFails
  BY <1>2, <1>20 DEF Import, EndReconcile, ReconcileMisses, ReconcileFails
<1>. QED
  BY <1>7, <1>8, <1>9, <1>10, <1>11, <1>12, <1>13, <1>14, <1>15, <1>16, <1>17, <1>18, <1>19, <1>20
  DEF Beside, User, Clock, Mirror, Sending, Reconcile

(* The drain's steps and a crash. *)
LEMMA RowsDrained ==
  ASSUME Known, Drain \/ Crash, Grows
  PROVE  /\ RowsKnown'
         /\ TakeNext => InFlight(rows')
         /\ TakeNext => Alike(rows[1], rows'[1])
         /\ SkipMoot \/ Ack \/ FailRetry \/ FailTerminal \/ FailAuth \/ Crash => ~InFlight(rows')
<1>0. /\ Counted /\ DraftsKnown /\ CallKnown /\ AnswerKnown
      /\ RowsOf(rows, lastDraft, lastText, lastGmail) /\ rows \in Seq(Row)
  BY DEF Known, RowsKnown, RowsOf
<1>00. /\ RowsOf(rows, lastDraft', lastText', lastGmail')
       /\ lastDraft' \in Nat /\ lastText' \in Nat /\ lastGmail' \in Nat
  <2>1. /\ lastDraft \in Nat /\ lastDraft' \in Nat /\ lastDraft <= lastDraft'
        /\ lastText \in Nat /\ lastText' \in Nat /\ lastText <= lastText'
        /\ lastGmail \in Nat /\ lastGmail' \in Nat /\ lastGmail <= lastGmail'
    BY <1>0 DEF Counted, Grows
  <2>. QED
    BY <1>0, <2>1, RowsGrow
<1>000. /\ DOMAIN rows = 1 .. Len(rows) /\ Len(rows) \in Nat /\ \A i \in DOMAIN rows : rows[i] \in Row
        /\ rows # <<>> => 1 \in DOMAIN rows
  BY <1>0, LenProperties, ElementOfSeq, EmptySeq
<1>. DEFINE q == Tail(rows)
<1>1. ASSUME 1 \in DOMAIN rows
      PROVE  /\ RowsOf(q, lastDraft', lastText', lastGmail') /\ ~InFlight(q)
             /\ \A ds : RowsOf(DropAll(q, ds), lastDraft', lastText', lastGmail') /\ ~InFlight(DropAll(q, ds))
             /\ \A g \in 0 .. lastGmail' : RowsOf(EnqueueDelete(q, g), lastDraft', lastText', lastGmail') /\ ~InFlight(EnqueueDelete(q, g))
  <2>1. RowsOf(q, lastDraft', lastText', lastGmail') /\ ~InFlight(q)
    BY <1>00, <1>1, RowsTail
  <2>. HIDE DEF q
  <2>2. ASSUME NEW ds PROVE RowsOf(DropAll(q, ds), lastDraft', lastText', lastGmail') /\ SameInFlight(q, DropAll(q, ds))
    BY <1>00, <2>1, RowsDropped
  <2>3. ASSUME NEW g \in 0 .. lastGmail'
        PROVE  RowsOf(EnqueueDelete(q, g), lastDraft', lastText', lastGmail') /\ SameInFlight(q, EnqueueDelete(q, g))
    BY <1>00, <2>1, RowsDeleting
  <2>. QED
    BY <2>1, <2>2, <2>3 DEF SameInFlight
<1>. DEFINE Done == RowsKnown' /\ ~InFlight(rows')
<1>2. ASSUME 1 \in DOMAIN rows, rows' = q PROVE Done
  BY <1>1, <1>2 DEF RowsKnown
<1>3. ASSUME Calling PROVE 1 \in DOMAIN rows
  BY <1>0, <1>3 DEF CallKnown, InFlight
<1>. HIDE DEF q
<1>4. ASSUME Ack PROVE Done
  <2>1. 1 \in DOMAIN rows /\ q = Tail(rows)
    BY <1>3, <1>4 DEF Ack, Calling, q
  <2>2. CASE \E ds : rows' = DropAll(q, ds)
    BY <1>1, <2>1, <2>2 DEF RowsKnown
  <2>3. CASE rows' = Orphan(q) /\ job.op = "upsert" /\ ~answer.gone
    <3>1. answer.gid \in 0 .. lastGmail'
      BY <1>0, <1>4, <2>3 DEF AnswerKnown, Counted, Ack, Grows
    <3>. QED
      BY <1>1, <2>1, <2>3, <3>1 DEF RowsKnown, Orphan
  <2>. QED
    BY <1>2, <1>4, <2>1, <2>2, <2>3 DEF Ack, DropUpserts
<1>5. ASSUME FailTerminal \/ FailAuth PROVE Done
  BY <1>2, <1>3, <1>5 DEF FailTerminal, FailAuth, Calling, q
<1>6. ASSUME SkipMoot PROVE Done
  BY <1>2, <1>000, <1>6 DEF SkipMoot, HeadIsDue, q
<1>7. ASSUME FailRetry PROVE Done
  <2>1. 1 \in DOMAIN rows /\ rows' = [rows EXCEPT ![1].inflight = FALSE, ![1].due = FALSE]
    BY <1>3, <1>7 DEF FailRetry, Calling
  <2>. DEFINE e == [rows[1] EXCEPT !.inflight = FALSE, !.due = FALSE]
  <2>2. rows' = [rows EXCEPT ![1] = e]
    <3>1. rows' = [[rows EXCEPT ![1].inflight = FALSE] EXCEPT ![1].due = FALSE]
      BY <2>1
    <3>. QED
      BY <2>1, <3>1
  <2>3. e \in Row /\ Alike(rows[1], e)
    BY <1>0, <2>1, Marking
  <2>4. ~e.inflight
    BY <1>000, <2>1 DEF Row
  <2>. HIDE DEF e
  <2>5. IsMarked(rows, 1, e, rows')
    BY <1>0, <2>1, <2>2, <2>3, Marked
  <2>6. RowsOf(rows', lastDraft', lastText', lastGmail')
    BY <1>00, <2>1, <2>4, <2>5, RowsMarked
  <2>. QED
    BY <2>4, <2>5, <2>6 DEF InFlight, IsMarked, RowsKnown
<1>8. ASSUME Crash PROVE Done
  <2>1. rows' = [i \in DOMAIN rows |-> [rows[i] EXCEPT !.inflight = FALSE]]
    BY <1>8 DEF Crash
  <2>2. IsReset(rows, rows')
    BY <1>0, <2>1, NoneInFlight
  <2>. QED
    BY <1>00, <2>2 DEF IsReset, RowsKnown, RowsOf, InFlight
<1>9. ASSUME TakeNext PROVE RowsKnown' /\ InFlight(rows') /\ Alike(rows[1], rows'[1])
  <2>1. 1 \in DOMAIN rows /\ rows' = [rows EXCEPT ![1].inflight = TRUE]
    BY <1>000, <1>9 DEF TakeNext, HeadIsDue
  <2>. DEFINE e == [rows[1] EXCEPT !.inflight = TRUE]
  <2>2. rows' = [rows EXCEPT ![1] = e]
    BY <2>1
  <2>3. e \in Row /\ Alike(rows[1], e)
    BY <1>0, <2>1, Marking
  <2>4. e.inflight
    BY <1>000, <2>1 DEF Row
  <2>. HIDE DEF e
  <2>5. IsMarked(rows, 1, e, rows')
    BY <1>0, <2>1, <2>2, <2>3, Marked
  <2>6. RowsOf(rows', lastDraft', lastText', lastGmail')
    BY <1>00, <2>1, <2>5, RowsMarked
  <2>. QED
    BY <2>1, <2>3, <2>4, <2>5, <2>6 DEF InFlight, IsMarked, RowsKnown
<1>10. ASSUME StartDrain \/ EndDrain \/ GmailCreates \/ GmailUpdates \/ GmailDeletes PROVE RowsKnown'
  BY <1>00, <1>10 DEF StartDrain, EndDrain, GmailCreates, GmailUpdates, GmailDeletes, box, RowsKnown
<1>. QED
  BY <1>4, <1>5, <1>6, <1>7, <1>8, <1>9, <1>10
  DEF Drain, StartDrain, EndDrain, GmailCreates, GmailUpdates, GmailDeletes, TakeNext, SkipMoot, Ack, FailRetry, FailTerminal, FailAuth

LEMMA Numbers ==
  ASSUME Counted, Grows
  PROVE  /\ lastDraft \in Nat /\ lastGmail \in Nat /\ lastText \in Nat
         /\ lastDraft' \in Nat /\ lastGmail' \in Nat /\ lastText' \in Nat
         /\ lastDraft <= lastDraft' /\ lastGmail <= lastGmail' /\ lastText <= lastText'
BY DEF Counted, Grows

-----------------------------------------------------------------------------
(* The copies in Gmail. *)

LEMMA GmailStep ==
  ASSUME Known, Next, Grows
  PROVE  GmailKnown'
<1>0. GmailKnown /\ Counted /\ CallKnown /\ RowsOf(rows, lastDraft, lastText, lastGmail)
  BY DEF Known, RowsKnown
<1>00. /\ lastDraft \in Nat /\ lastGmail \in Nat /\ lastText \in Nat
       /\ lastDraft' \in Nat /\ lastGmail' \in Nat /\ lastText' \in Nat
       /\ lastDraft <= lastDraft' /\ lastGmail <= lastGmail' /\ lastText <= lastText'
  BY <1>0, Numbers
<1>000. \A g \in DOMAIN gmail : /\ g \in 1 .. lastGmail' /\ gmail[g] \in Copy /\ gmail[g].text <= lastText'
                                /\ gmail[g].rev + 1 \in Nat
  BY <1>0, <1>00 DEF GmailKnown, Copy
<1>1. ASSUME NEW g \in 1 .. lastGmail', NEW t \in Nat, t <= lastText', NEW r \in Nat, Writes(g, t, r)
      PROVE  GmailKnown'
  <2>. DEFINE c == [text |-> t, rev |-> r]
  <2>1. c \in Copy /\ c.text <= lastText' /\ gmail' = With(gmail, g, c)
    BY <1>1 DEF Copy, Writes
  <2>. HIDE DEF c
  <2>2. ASSUME NEW h \in DOMAIN gmail'
        PROVE  h \in 1 .. lastGmail' /\ gmail'[h] \in Copy /\ gmail'[h].text <= lastText'
    <3>1. CASE h = g
      BY <2>1, <2>2, <3>1 DEF With
    <3>2. CASE h # g
      BY <1>000, <2>1, <2>2, <3>2 DEF With
    <3>. QED
      BY <3>1, <3>2
  <2>. QED
    BY <2>2 DEF GmailKnown
<1>2. ASSUME \A h \in DOMAIN gmail' : h \in DOMAIN gmail /\ gmail'[h] = gmail[h] PROVE GmailKnown'
  BY <1>000, <1>2 DEF GmailKnown
<1>3. ASSUME Calling, job.op = "upsert" PROVE job.text \in Nat /\ job.text <= lastText'
  <2>1. job.text = rows[1].text /\ rows[1].op = "upsert" /\ 1 \in DOMAIN rows
    BY <1>0, <1>3 DEF CallKnown, InFlight
  <2>2. rows[1] \in Row /\ rows[1].text <= lastText
    BY <1>0, <2>1, ElementOfSeq, LenProperties DEF RowsOf
  <2>. QED
    BY <1>00, <2>1, <2>2 DEF Row
<1>4. CASE GmailCreates
  BY <1>00, <1>1, <1>3, <1>4 DEF GmailCreates, Calling
<1>5. CASE GmailUpdates
  <2>1. CASE job.gid \in DOMAIN gmail
    BY <1>000, <1>1, <1>3, <1>5, <2>1 DEF GmailUpdates, Calling
  <2>2. CASE job.gid \notin DOMAIN gmail
    BY <1>2, <1>5, <2>2 DEF GmailUpdates
  <2>. QED
    BY <2>1, <2>2
<1>6. CASE GmailDeletes
  BY <1>2, <1>6 DEF GmailDeletes, Without, Restrict
<1>7. CASE GmailNew
  BY <1>00, <1>1, <1>7 DEF GmailNew, NewText
<1>8. ASSUME NEW g \in DOMAIN gmail, GmailEdit(g) PROVE GmailKnown'
  BY <1>00, <1>000, <1>1, <1>8 DEF GmailEdit, NewText
<1>9. ASSUME NEW g \in DOMAIN gmail, GmailDelete(g) PROVE GmailKnown'
  BY <1>2, <1>9 DEF GmailDelete, Without, Restrict
<1>10. ASSUME gmail' = gmail PROVE GmailKnown'
  BY <1>2, <1>10
<1>11. CASE User \/ Clock \/ Mirror \/ Sending
  BY <1>10, <1>11 DEF User, Clock, Mirror, Sending, NewDraft, EditDraft, Discard, Detach, ReturnDraft,
                      Age, GraceEnds, BecomeDue, Fire, QueueSend, RefuseSend, Release
<1>12. CASE List \/ Reconcile \/ ReconcileFails \/ Crash
  BY <1>10, <1>12 DEF List, Reconcile, ReconcileFails, Crash, VisitUnchanged, VisitPush, VisitFetch,
                      Fetched, Import, EndReconcile, ReconcileMisses
<1>13. CASE StartDrain \/ SkipMoot \/ TakeNext \/ EndDrain \/ Ack \/ FailRetry \/ FailTerminal \/ FailAuth
  BY <1>10, <1>13 DEF StartDrain, SkipMoot, TakeNext, EndDrain, Ack, FailRetry, FailTerminal, FailAuth
<1>. QED
  BY <1>4, <1>5, <1>6, <1>7, <1>8, <1>9, <1>11, <1>12, <1>13 DEF Next, Remote, Drain

-----------------------------------------------------------------------------
(* The send queue: a message keeps its text and its tie, and a new one     *)
(* takes over those of the draft that is sent.                             *)

IsSent(s) ==
  s = Len(sends) + 1 /\ \E d \in DOMAIN drafts :
    Detach(d) /\ sends'[s] = [status |-> "composing", text |-> drafts[d].text, gid |-> drafts[d].gid]

SendEnds(s) ==
  RefuseSend(s) \/ ReturnDraft(s) \/ Release(s) \/ (Crash /\ sends[s].status = "composing")

SendsFollow ==
  /\ sends' \in Seq(Send)
  /\ DOMAIN sends \subseteq DOMAIN sends'
  /\ \A s \in DOMAIN sends : /\ sends'[s].text = sends[s].text /\ sends'[s].gid = sends[s].gid
                             /\ Leaves(s)' => Leaves(s)
                             /\ Leaves(s) => Leaves(s)' \/ SendEnds(s)
  /\ \A s \in DOMAIN sends' : s \in DOMAIN sends \/ IsSent(s)

LEMMA SendsMove ==
  ASSUME Known, Next
  PROVE  SendsFollow
<1>0. /\ sends \in Seq(Send) /\ DOMAIN sends = 1 .. Len(sends) /\ Len(sends) \in Nat
      /\ \A s \in DOMAIN sends : sends[s] \in Send
  BY LenProperties, ElementOfSeq DEF Known, SendsKnown
<1>1. ASSUME NEW s \in DOMAIN sends, NEW x \in SendStates, x \in {"composing", "queued"} => Leaves(s),
             Leaves(s) => x \in {"composing", "queued"} \/ SendEnds(s),
             sends' = [sends EXCEPT ![s].status = x]
      PROVE  SendsFollow
  <2>. DEFINE e == [sends[s] EXCEPT !.status = x]
  <2>1. e \in Send /\ e.text = sends[s].text /\ e.gid = sends[s].gid /\ e.status = x /\ sends' = [sends EXCEPT ![s] = e]
    BY <1>0, <1>1 DEF Send
  <2>. HIDE DEF e
  <2>2. sends' \in Seq(Send) /\ DOMAIN sends' = DOMAIN sends
    BY <1>0, <2>1, ExceptSeq
  <2>3. sends'[s] = e /\ \A r \in DOMAIN sends : r # s => sends'[r] = sends[r]
    BY <2>1
  <2>. QED
    BY <1>1, <2>1, <2>2, <2>3 DEF SendsFollow, Leaves
<1>2. ASSUME sends' = sends PROVE SendsFollow
  BY <1>0, <1>2 DEF SendsFollow, Leaves
<1>3. ASSUME NEW d \in DOMAIN drafts, Detach(d) PROVE SendsFollow
  <2>. DEFINE e == [status |-> "composing", text |-> drafts[d].text, gid |-> drafts[d].gid]
  <2>1. drafts[d] \in Draft
    BY DEF Known, DraftsKnown
  <2>2. e \in Send /\ sends' = Append(sends, e)
    BY <1>3, <2>1 DEF Detach, Draft, Send, SendStates
  <2>2a. e = [status |-> "composing", text |-> drafts[d].text, gid |-> drafts[d].gid]
    OBVIOUS
  <2>. HIDE DEF e
  <2>3. /\ sends' \in Seq(Send) /\ DOMAIN sends' = 1 .. Len(sends) + 1
        /\ \A s \in 1 .. Len(sends) : sends'[s] = sends[s]
        /\ sends'[Len(sends) + 1] = e
    BY <1>0, <2>2, AppendProperties, LenProperties
  <2>4. IsSent(Len(sends) + 1)
    BY <1>3, <2>2a, <2>3 DEF IsSent
  <2>. QED
    BY <1>0, <2>3, <2>4 DEF SendsFollow, Leaves
<1>4. ASSUME NEW s \in DOMAIN sends, QueueSend(s) \/ RefuseSend(s) \/ ReturnDraft(s) \/ Release(s) \/ GraceEnds(s)
      PROVE  SendsFollow
  <2>1. CASE QueueSend(s)
    BY <1>1, <2>1 DEF QueueSend, SendStates, Leaves
  <2>2. CASE RefuseSend(s)
    BY <1>1, <2>2 DEF RefuseSend, SendStates, SendEnds
  <2>3. CASE ReturnDraft(s)
    BY <1>1, <2>3 DEF ReturnDraft, SendStates, SendEnds
  <2>4. CASE Release(s)
    BY <1>1, <2>4 DEF Release, SendStates, SendEnds
  <2>5. CASE GraceEnds(s)
    BY <1>1, <2>5 DEF GraceEnds, SendStates, Leaves
  <2>. QED
    BY <1>4, <2>1, <2>2, <2>3, <2>4, <2>5
<1>5. CASE Crash
  <2>1. sends' = [s \in DOMAIN sends |->
                    IF sends[s].status = "composing" THEN [sends[s] EXCEPT !.status = "refused"] ELSE sends[s]]
    BY <1>5 DEF Crash
  <2>2. \A s \in DOMAIN sends : /\ sends'[s] \in Send /\ sends'[s].text = sends[s].text
                                /\ sends'[s].gid = sends[s].gid
                                /\ \/ sends'[s] = sends[s]
                                   \/ sends[s].status = "composing" /\ sends'[s].status = "refused"
    BY <1>0, <2>1 DEF Send, SendStates
  <2>3. sends' \in Seq(Send) /\ DOMAIN sends' = DOMAIN sends
    <3>1. DOMAIN sends' = 1 .. Len(sends) /\ sends' = [s \in 1 .. Len(sends) |-> sends'[s]]
      BY <1>0, <2>1
    <3>2. \A s \in 1 .. Len(sends) : sends'[s] \in Send
      BY <1>0, <2>2
    <3>. QED
      BY <1>0, <3>1, <3>2, IsASeq
  <2>. QED
    BY <1>5, <2>2, <2>3 DEF SendsFollow, Leaves, SendEnds
<1>6. CASE NewDraft \/ Remote \/ Mirror \/ BecomeDue \/ (\E d \in DOMAIN drafts : EditDraft(d) \/ Discard(d) \/ Age(d))
  BY <1>2, <1>6 DEF NewDraft, Remote, GmailNew, GmailEdit, GmailDelete, Mirror, Fire, BecomeDue, EditDraft, Discard, Age
<1>7. CASE List \/ Reconcile \/ ReconcileFails
  BY <1>2, <1>7 DEF List, Reconcile, ReconcileFails, VisitUnchanged, VisitPush, VisitFetch,
                      Fetched, Import, EndReconcile, ReconcileMisses
<1>8. CASE Drain
  BY <1>2, <1>8 DEF Drain, StartDrain, SkipMoot, TakeNext, EndDrain, GmailCreates, GmailUpdates, GmailDeletes,
                    Ack, FailRetry, FailTerminal, FailAuth
<1>. QED
  BY <1>3, <1>4, <1>5, <1>6, <1>7, <1>8 DEF Next, User, Clock, Sending

LEMMA SendsStep ==
  ASSUME Known, Next, Grows
  PROVE  SendsKnown'
<1>0. SendsFollow /\ Counted /\ SendsKnown /\ DraftsKnown
  BY SendsMove DEF Known
<1>00. /\ lastGmail \in Nat /\ lastText \in Nat
       /\ lastGmail' \in Nat /\ lastText' \in Nat /\ lastGmail <= lastGmail' /\ lastText <= lastText'
  BY <1>0, Numbers
<1>1. ASSUME NEW s \in DOMAIN sends' PROVE sends'[s].gid <= lastGmail' /\ sends'[s].text <= lastText'
  <2>1. CASE s \in DOMAIN sends
    <3>1. sends'[s].gid = sends[s].gid /\ sends[s].gid <= lastGmail /\ sends'[s].text = sends[s].text /\ sends[s].text <= lastText
      BY <1>0, <2>1 DEF SendsFollow, SendsKnown
    <3>2. sends[s].gid \in Nat /\ sends[s].text \in Nat
      <4>1. sends[s] \in Send
        BY <1>0, <2>1, ElementOfSeq, LenProperties DEF SendsKnown
      <4>. QED
        BY <4>1 DEF Send
    <3>. QED
      BY <1>00, <3>1, <3>2
  <2>2. CASE IsSent(s)
    <3>1. PICK d \in DOMAIN drafts : sends'[s].gid = drafts[d].gid /\ sends'[s].text = drafts[d].text
      BY <2>2 DEF IsSent
    <3>2. drafts[d] \in Draft /\ drafts[d].gid <= lastGmail /\ drafts[d].text <= lastText
      BY <1>0 DEF DraftsKnown
    <3>. QED
      BY <1>00, <3>1, <3>2 DEF Draft
  <2>. QED
    BY <1>0, <2>1, <2>2 DEF SendsFollow
<1>. QED
  BY <1>0, <1>1 DEF SendsKnown, SendsFollow

-----------------------------------------------------------------------------
(* What becomes of a draft in a step: it stays as it is but for its state, *)
(* or is edited, acknowledged, imported, made, or goes.                    *)

Unmoved(d) ==
  /\ d \in DOMAIN drafts
  /\ drafts'[d].gid = drafts[d].gid /\ drafts'[d].rev = drafts[d].rev /\ drafts'[d].text = drafts[d].text
  /\ \/ drafts'[d].state = drafts[d].state
     \/ drafts'[d].state = "pending" /\ Fire(d)
     \/ drafts'[d].state = "pending" /\ \E g \in todo : VisitPush(g) /\ d = LocalOf(g)
     \/ drafts'[d].state = "pending" /\ (FailRetry \/ FailAuth) /\ d = job.draft
     \/ drafts'[d].state = "failed" /\ FailTerminal /\ d = job.draft

Edited(d) ==
  /\ d \in DOMAIN drafts /\ EditDraft(d)
  /\ drafts'[d].gid = drafts[d].gid /\ drafts'[d].rev = drafts[d].rev
  /\ drafts'[d].text = lastText' /\ drafts'[d].state = "pending"

Acked(d) ==
  /\ d \in DOMAIN drafts /\ Ack /\ d = job.draft /\ job.op = "upsert" /\ ~answer.gone /\ rows' = Tail(rows)
  /\ drafts'[d].gid = answer.gid /\ drafts'[d].rev = answer.rev /\ drafts'[d].text = drafts[d].text
  /\ drafts'[d].state = StateAfter(Tail(rows), d)

Imported(d) ==
  /\ Import
  /\ drafts'[d].gid = seen.at /\ drafts'[d].rev = seen.fetched.rev /\ drafts'[d].text = seen.fetched.text
  /\ drafts'[d].state = "synced"
  /\ \/ /\ d \in DOMAIN drafts /\ drafts[d].gid = seen.at
        /\ \A e \in DOMAIN drafts : drafts[e].gid = seen.at => d <= e
     \/ /\ d = lastDraft + 1 /\ d \notin DOMAIN drafts
        /\ \A e \in DOMAIN drafts : drafts[e].gid # seen.at

Born(d) ==
  /\ d = lastDraft + 1 /\ d \notin DOMAIN drafts /\ drafts'[d].state = "pending" /\ drafts'[d].rev = None
  /\ \/ NewDraft /\ drafts'[d].gid = None /\ drafts'[d].text = lastText'
     \/ \E s \in DOMAIN sends :
          ReturnDraft(s) /\ drafts'[d].gid = sends[s].gid /\ drafts'[d].text = sends[s].text

Gone(d) ==
  \/ Discard(d) \/ Detach(d)
  \/ Ack /\ job.op = "upsert" /\ answer.gone /\ d = job.draft
  \/ List /\ drafts[d].gid # None /\ drafts[d].gid \notin DOMAIN gmail

DraftsFollow ==
  /\ \A d \in DOMAIN drafts' : Unmoved(d) \/ Edited(d) \/ Acked(d) \/ Imported(d) \/ Born(d)
  /\ \A d \in DOMAIN drafts : d \in DOMAIN drafts' \/ Gone(d)

LEMMA DraftsMove ==
  ASSUME Known, Next
  PROVE  DraftsFollow
<1>0. DraftsKnown /\ Counted
  BY DEF Known
<1>00. /\ \A d \in DOMAIN drafts : d \in 1 .. lastDraft /\ drafts[d] \in Draft
       /\ lastDraft \in Nat /\ lastDraft + 1 \notin DOMAIN drafts
  BY <1>0 DEF DraftsKnown, Counted
<1>1. ASSUME drafts' = drafts PROVE DraftsFollow
  BY <1>1 DEF DraftsFollow, Unmoved
<1>2. CASE NewDraft
  <2>. DEFINE n == lastDraft + 1
  <2>1. drafts' = With(drafts, n, Typed(lastText', None, None))
    BY <1>2 DEF NewDraft
  <2>2. Born(n)
    BY <1>00, <1>2, <2>1 DEF Born, With, Typed
  <2>. HIDE DEF n
  <2>3. \A d \in DOMAIN drafts' : d = n \/ Unmoved(d)
    BY <2>1 DEF With, Unmoved
  <2>4. \A d \in DOMAIN drafts : d \in DOMAIN drafts'
    BY <2>1 DEF With
  <2>. QED
    BY <2>2, <2>3, <2>4 DEF DraftsFollow
<1>3. ASSUME NEW s \in DOMAIN sends, ReturnDraft(s) PROVE DraftsFollow
  <2>. DEFINE n == lastDraft + 1
  <2>1. drafts' = With(drafts, n, Typed(sends[s].text, sends[s].gid, None))
    BY <1>3 DEF ReturnDraft
  <2>2. Born(n)
    BY <1>00, <1>3, <2>1 DEF Born, With, Typed
  <2>. HIDE DEF n
  <2>3. \A d \in DOMAIN drafts' : d = n \/ Unmoved(d)
    BY <2>1 DEF With, Unmoved
  <2>4. \A d \in DOMAIN drafts : d \in DOMAIN drafts'
    BY <2>1 DEF With
  <2>. QED
    BY <2>2, <2>3, <2>4 DEF DraftsFollow
<1>4. ASSUME NEW d \in DOMAIN drafts, EditDraft(d) PROVE DraftsFollow
  <2>1. drafts' = [drafts EXCEPT ![d] = Typed(lastText', drafts[d].gid, drafts[d].rev)]
    BY <1>4 DEF EditDraft
  <2>2. Edited(d)
    BY <1>4, <2>1 DEF Edited, Typed
  <2>3. \A e \in DOMAIN drafts' : e = d \/ Unmoved(e)
    BY <2>1 DEF Unmoved
  <2>. QED
    BY <2>1, <2>2, <2>3 DEF DraftsFollow
<1>5. ASSUME NEW d \in DOMAIN drafts, Age(d) PROVE DraftsFollow
  <2>1. drafts' = [drafts EXCEPT ![d] = [drafts[d] EXCEPT !.recent = FALSE]]
    BY <1>5 DEF Age
  <2>2. drafts'[d].gid = drafts[d].gid /\ drafts'[d].rev = drafts[d].rev
        /\ drafts'[d].text = drafts[d].text /\ drafts'[d].state = drafts[d].state
    BY <1>00, <2>1 DEF Draft
  <2>3. \A e \in DOMAIN drafts' : Unmoved(e)
    BY <2>1, <2>2 DEF Unmoved
  <2>. QED
    BY <2>1, <2>3 DEF DraftsFollow
<1>6. ASSUME NEW d, NEW x, MirrorState(d, x)
      PROVE  /\ DOMAIN drafts' = DOMAIN drafts
             /\ \A e \in DOMAIN drafts : e # d => drafts'[e] = drafts[e]
             /\ d \in DOMAIN drafts => /\ drafts'[d].gid = drafts[d].gid /\ drafts'[d].rev = drafts[d].rev
                                       /\ drafts'[d].text = drafts[d].text /\ drafts'[d].state = x
  <2>1. CASE Here(d)
    <3>1. drafts' = [drafts EXCEPT ![d] = [drafts[d] EXCEPT !.state = x]]
      BY <1>6, <2>1 DEF MirrorState
    <3>. QED
      BY <1>00, <2>1, <3>1 DEF Here, Draft
  <2>2. CASE ~Here(d)
    BY <1>6, <2>2 DEF MirrorState, Here
  <2>. QED
    BY <2>1, <2>2
<1>7. ASSUME NEW d \in armed, Fire(d) PROVE DraftsFollow
  <2>1. MirrorState(d, "pending")
    BY <1>7 DEF Fire, MirrorState
  <2>2. \A e \in DOMAIN drafts' : Unmoved(e)
    BY <1>6, <1>7, <2>1 DEF Unmoved
  <2>. QED
    BY <1>6, <2>1, <2>2 DEF DraftsFollow
<1>8. ASSUME NEW g \in todo, VisitPush(g) PROVE DraftsFollow
  <2>1. CASE drafts' = drafts
    BY <1>1, <2>1
  <2>2. CASE MirrorState(LocalOf(g), "pending")
    <3>1. \A e \in DOMAIN drafts' : Unmoved(e)
      BY <1>6, <1>8, <2>2 DEF Unmoved
    <3>. QED
      BY <1>6, <2>2, <3>1 DEF DraftsFollow
  <2>. QED
    BY <1>8, <2>1, <2>2 DEF VisitPush
<1>9. CASE FailRetry \/ FailAuth
  <2>1. MirrorState(job.draft, "pending")
    BY <1>9 DEF FailRetry, FailAuth
  <2>2. \A e \in DOMAIN drafts' : Unmoved(e)
    BY <1>6, <1>9, <2>1 DEF Unmoved
  <2>. QED
    BY <1>6, <2>1, <2>2 DEF DraftsFollow
<1>10. CASE FailTerminal
  <2>1. MirrorState(job.draft, "failed")
    BY <1>10 DEF FailTerminal
  <2>2. \A e \in DOMAIN drafts' : Unmoved(e)
    BY <1>6, <1>10, <2>1 DEF Unmoved
  <2>. QED
    BY <1>6, <2>1, <2>2 DEF DraftsFollow
<1>11. ASSUME NEW d \in DOMAIN drafts, Discard(d) \/ Detach(d) PROVE DraftsFollow
  <2>1. drafts' = Without(drafts, d)
    BY <1>11 DEF Discard, Detach
  <2>2. \A e \in DOMAIN drafts' : Unmoved(e)
    BY <2>1 DEF Unmoved, Without, Restrict
  <2>3. \A e \in DOMAIN drafts : e = d \/ e \in DOMAIN drafts'
    BY <2>1 DEF Without, Restrict
  <2>. QED
    BY <1>11, <2>2, <2>3 DEF DraftsFollow, Gone
<1>12. CASE Ack
  <2>1. CASE UNCHANGED drafts
    BY <1>1, <2>1
  <2>2. CASE job.op = "upsert" /\ answer.gone /\ drafts' = Without(drafts, job.draft)
    <3>1. \A e \in DOMAIN drafts' : Unmoved(e)
      BY <2>2 DEF Unmoved, Without, Restrict
    <3>2. \A e \in DOMAIN drafts : e = job.draft \/ e \in DOMAIN drafts'
      BY <2>2 DEF Without, Restrict
    <3>. QED
      BY <1>12, <2>2, <3>1, <3>2 DEF DraftsFollow, Gone
  <2>3. CASE Here(job.draft) /\ job.op = "upsert" /\ ~answer.gone
    <3>. DEFINE d == job.draft
                r == [drafts[d] EXCEPT !.gid = answer.gid, !.rev = answer.rev, !.state = StateAfter(Tail(rows), d)]
    <3>1. drafts' = [drafts EXCEPT ![d].gid = answer.gid, ![d].rev = answer.rev,
                                   ![d].state = StateAfter(Tail(rows), d)] /\ rows' = Tail(rows)
      BY <1>12, <2>3 DEF Ack, Recorded
    <3>2. /\ DOMAIN drafts' = DOMAIN drafts /\ \A e \in DOMAIN drafts : e # d => drafts'[e] = drafts[e]
          /\ drafts'[d] = r
      BY <2>3, <3>1, <1>00 DEF Here, Draft
    <3>3. /\ r.gid = answer.gid /\ r.rev = answer.rev /\ r.text = drafts[d].text
          /\ r.state = StateAfter(Tail(rows), d)
      BY <1>00, <2>3 DEF Here, Draft
    <3>. HIDE DEF r
    <3>4. Acked(d)
      BY <1>12, <2>3, <3>1, <3>2, <3>3 DEF Acked, Here
    <3>5. \A e \in DOMAIN drafts' : e = d \/ Unmoved(e)
      BY <3>2 DEF Unmoved
    <3>. QED
      BY <3>2, <3>4, <3>5 DEF DraftsFollow
  <2>. QED
    BY <1>12, <2>1, <2>2, <2>3 DEF Ack
<1>13. CASE List
  <2>. DEFINE gone == {d \in Tied(drafts) : drafts[d].gid \notin DOMAIN gmail}
  <2>1. drafts' = Restrict(drafts, DOMAIN drafts \ gone)
    BY <1>13 DEF List
  <2>2. \A d \in gone : d \in DOMAIN drafts /\ Gone(d)
    BY <1>13 DEF Gone, Tied
  <2>. HIDE DEF gone
  <2>3. \A e \in DOMAIN drafts' : Unmoved(e)
    BY <2>1 DEF Unmoved, Restrict
  <2>4. \A e \in DOMAIN drafts : e \in gone \/ e \in DOMAIN drafts'
    BY <2>1 DEF Restrict
  <2>. QED
    BY <2>2, <2>3, <2>4 DEF DraftsFollow
<1>14. CASE Import
  <2>. DEFINE d == RowFor(seen.at)
              r == [text |-> seen.fetched.text, gid |-> seen.at, rev |-> seen.fetched.rev, state |-> "synced",
                    recent |-> IF Here(d) THEN drafts[d].recent ELSE FALSE]
  <2>1. drafts' = With(drafts, d, r)
    BY <1>14 DEF Import
  <2>2. /\ r.text = seen.fetched.text /\ r.gid = seen.at /\ r.rev = seen.fetched.rev /\ r.state = "synced"
    OBVIOUS
  <2>. HIDE DEF r
  <2>3. \/ d = lastDraft + 1 /\ \A e \in DOMAIN drafts : drafts[e].gid # seen.at
        \/ /\ d \in DOMAIN drafts /\ drafts[d].gid = seen.at
           /\ \A e \in DOMAIN drafts : drafts[e].gid = seen.at => d <= e
    BY <1>0, RowForIs
  <2>. HIDE DEF d
  <2>4. Imported(d)
    BY <1>00, <1>14, <2>1, <2>2, <2>3 DEF Imported, With
  <2>5. \A e \in DOMAIN drafts' : e = d \/ Unmoved(e)
    BY <2>1 DEF With, Unmoved
  <2>6. \A e \in DOMAIN drafts : e \in DOMAIN drafts'
    BY <2>1 DEF With
  <2>. QED
    BY <2>4, <2>5, <2>6 DEF DraftsFollow
<1>15. CASE Remote \/ BecomeDue \/ Sending \/ (\E s \in DOMAIN sends : GraceEnds(s)) \/ Crash
  BY <1>1, <1>15 DEF Remote, GmailNew, GmailEdit, GmailDelete, BecomeDue, Sending, GraceEnds,
                     QueueSend, RefuseSend, Release, Crash, table
<1>16. CASE \/ StartDrain \/ SkipMoot \/ TakeNext \/ EndDrain \/ GmailCreates \/ GmailUpdates \/ GmailDeletes
  BY <1>1, <1>16 DEF StartDrain, SkipMoot, TakeNext, EndDrain, GmailCreates, GmailUpdates, GmailDeletes, table
<1>17. CASE \/ \E g \in todo : VisitUnchanged(g) \/ VisitFetch(g)
            \/ Fetched \/ EndReconcile \/ ReconcileMisses \/ ReconcileFails
  BY <1>1, <1>17 DEF VisitUnchanged, VisitFetch, Fetched, EndReconcile, ReconcileMisses, ReconcileFails, table
<1>. QED
  BY <1>2, <1>3, <1>4, <1>5, <1>7, <1>8, <1>9, <1>10, <1>11, <1>12, <1>13, <1>14, <1>15, <1>16, <1>17
  DEF Next, User, Clock, Mirror, Drain, Reconcile

-----------------------------------------------------------------------------
(* The reconcile and the call under way. *)

(* A step that is not the reconcile's leaves it where it is. *)
LEMMA SeenSame ==
  ASSUME SeenKnown, Counted, Grows, seen' = seen, todo' \subseteq todo,
         run' \in {"visit", "fetch", "stage"} => run' = run
  PROVE  SeenKnown'
<1>1. \A d \in 1 .. lastDraft : d \in 1 .. lastDraft'
  BY Numbers
<1>2. \A g \in 1 .. lastGmail : g \in 1 .. lastGmail'
  BY Numbers
<1>3. run = "stage" /\ seen.fetched \in Copy /\ seen.fetched.text <= lastText => seen.fetched.text <= lastText'
  BY Numbers DEF Copy
<1>4. lists \in Nat /\ lists' \in Nat /\ lists <= lists'
  BY DEF Counted, Grows
<1>. QED
  BY <1>1, <1>2, <1>3, <1>4 DEF SeenKnown, Visiting

LEMMA SeenOver ==
  ASSUME ReconcileOver
  PROVE  SeenKnown'
BY DEF ReconcileOver, SeenKnown, NoSeen, Visiting

LEMMA SeenStep ==
  ASSUME Known, Next, Grows
  PROVE  SeenKnown'
<1>0. SeenKnown /\ Counted /\ DraftsKnown /\ GmailKnown
  BY DEF Known
<1>1. ASSUME UNCHANGED <<seen, todo>>, run' \in {"visit", "fetch", "stage"} => run' = run PROVE SeenKnown'
  BY <1>0, <1>1, SeenSame
<1>2. CASE User \/ Remote \/ Clock \/ Mirror \/ Sending
  BY <1>1, <1>2 DEF User, Clock, Mirror, Sending, NewDraft, EditDraft, Discard, Detach, ReturnDraft, Remote,
                    Age, GraceEnds, BecomeDue, Fire, QueueSend, RefuseSend, Release, reconcile,
                    GmailNew, GmailEdit, GmailDelete
<1>3. CASE StartDrain \/ SkipMoot \/ TakeNext \/ EndDrain \/ GmailCreates \/ GmailUpdates \/ GmailDeletes
  BY <1>1, <1>3 DEF StartDrain, SkipMoot, TakeNext, EndDrain, GmailCreates, GmailUpdates, GmailDeletes, reconcile
<1>4. CASE Ack \/ FailRetry \/ FailTerminal \/ FailAuth
  BY <1>1, <1>4 DEF Ack, FailRetry, FailTerminal, FailAuth, reconcile
<1>5. CASE Crash \/ EndReconcile \/ ReconcileMisses \/ ReconcileFails
  BY <1>5, SeenOver DEF Crash, EndReconcile, ReconcileMisses, ReconcileFails
<1>6. CASE List
  <2>. DEFINE ds == [d \in Tied(drafts) |-> AsListed(drafts[d])]
              gs == [g \in DOMAIN gmail |-> gmail[g].rev]
  <2>1. /\ seen' = [gmail |-> gs, drafts |-> ds, at |-> None, fetched |-> <<>>]
        /\ todo' \subseteq DOMAIN gmail /\ run' = "visit" /\ lists' > 0
    <3>1. seen' = [NoSeen EXCEPT !.gmail = gs, !.drafts = ds]
      BY <1>6 DEF List
    <3>. HIDE DEF gs, ds
    <3>2. seen' = [gmail |-> gs, drafts |-> ds, at |-> None, fetched |-> <<>>]
      BY <3>1 DEF NoSeen
    <3>3. todo' \subseteq DOMAIN gmail /\ run' = "visit" /\ lists' = lists + 1
      BY <1>6 DEF List
    <3>. QED
      BY <1>0, <3>2, <3>3 DEF Counted
  <2>2. \A d \in DOMAIN ds : d \in 1 .. lastDraft' /\ ds[d] \in Listed /\ ds[d].gid # None
    <3>. SUFFICES ASSUME NEW d \in Tied(drafts)
                  PROVE  d \in 1 .. lastDraft' /\ AsListed(drafts[d]) \in Listed /\ AsListed(drafts[d]).gid # None
      OBVIOUS
    <3>1. drafts[d] \in Draft /\ d \in 1 .. lastDraft /\ drafts[d].gid # None
      BY <1>0 DEF DraftsKnown, Tied
    <3>. QED
      BY <1>0, <3>1, Numbers DEF AsListed, Draft, Listed
  <2>. HIDE DEF ds, gs
  <2>3. todo' \subseteq 1 .. lastGmail'
    <3>1. \A g \in DOMAIN gmail : g \in 1 .. lastGmail'
      BY <1>0, Numbers DEF GmailKnown
    <3>. QED
      BY <2>1, <3>1
  <2>. QED
    BY <2>1, <2>2, <2>3 DEF SeenKnown, Visiting
<1>7. ASSUME NEW g \in todo, VisitUnchanged(g) \/ VisitPush(g) PROVE SeenKnown'
  BY <1>0, <1>7, SeenSame DEF VisitUnchanged, VisitPush, table, box
<1>8. ASSUME NEW g \in todo, VisitFetch(g) PROVE SeenKnown'
  <2>1. /\ DOMAIN seen = {"gmail", "drafts", "at", "fetched"}
        /\ seen' = [seen EXCEPT !.at = g] /\ run' = "fetch" /\ todo' = todo \ {g} /\ g \in 1 .. lastGmail
        /\ UNCHANGED <<lists, counters>> /\ lists > 0
    BY <1>0, <1>8 DEF VisitFetch, SeenKnown, Visiting
  <2>2. seen' = [gmail |-> seen.gmail, drafts |-> seen.drafts, at |-> g, fetched |-> seen.fetched]
    BY <1>0, <2>1 DEF SeenKnown
  <2>. QED
    BY <1>0, <2>1, <2>2 DEF SeenKnown, Visiting, counters
<1>9. CASE Fetched
  <2>1. /\ seen' = [seen EXCEPT !.fetched = gmail[seen.at]] /\ run = "fetch" /\ run' = "stage" /\ todo' = todo
        /\ gmail[seen.at] \in Copy /\ gmail[seen.at].text <= lastText
        /\ UNCHANGED <<lists, counters>> /\ lists > 0
    BY <1>0, <1>9 DEF Fetched, SeenKnown, Visiting, GmailKnown
  <2>2. seen' = [gmail |-> seen.gmail, drafts |-> seen.drafts, at |-> seen.at, fetched |-> gmail[seen.at]]
    BY <1>0, <2>1 DEF SeenKnown
  <2>. QED
    BY <1>0, <2>1, <2>2 DEF SeenKnown, Visiting, counters
<1>10. CASE Import
  <2>1. /\ seen' = [seen EXCEPT !.at = None, !.fetched = <<>>] /\ run' = "visit" /\ todo' = todo
        /\ UNCHANGED <<lists, lastGmail>> /\ lists > 0
    BY <1>0, <1>10 DEF Import, SeenKnown, Visiting
  <2>2. seen' = [gmail |-> seen.gmail, drafts |-> seen.drafts, at |-> None, fetched |-> <<>>]
    BY <1>0, <2>1 DEF SeenKnown
  <2>3. \A d \in 1 .. lastDraft : d \in 1 .. lastDraft'
    BY <1>0, Numbers
  <2>. QED
    BY <1>0, <2>1, <2>2, <2>3 DEF SeenKnown, Visiting
<1>. QED
  BY <1>2, <1>3, <1>4, <1>5, <1>6, <1>7, <1>8, <1>9, <1>10 DEF Next, Drain, Reconcile

(* A step of another actor leaves the call as it is. *)
LEMMA CallBeside ==
  ASSUME Known, Beside, Next, Grows
  PROVE  CallKnown' /\ UNCHANGED <<job, answer>> /\ (Calling' <=> Calling)
<1>0. CallKnown /\ SameInFlight(rows, rows') /\ DraftsFollow /\ Counted /\ RowsKnown
  BY RowsBeside, DraftsMove DEF Known
<1>1. UNCHANGED <<job, answer>>
  <2>1. CASE User \/ Remote \/ Clock \/ Mirror \/ Sending
    BY <2>1 DEF User, Clock, Mirror, Sending, NewDraft, EditDraft, Discard, Detach, ReturnDraft, Remote,
                Age, GraceEnds, BecomeDue, Fire, QueueSend, RefuseSend, Release, box, GmailNew, GmailEdit, GmailDelete
  <2>2. CASE List \/ Reconcile \/ ReconcileFails
    BY <2>2 DEF List, Reconcile, VisitUnchanged, VisitPush, VisitFetch, Fetched, Import, EndReconcile,
                ReconcileMisses, ReconcileFails, box
  <2>. QED
    BY <2>1, <2>2 DEF Beside
<1>2. \/ run' = run
      \/ run \in {"idle", "visit", "fetch", "stage"} /\ run' \in {"idle", "visit", "fetch", "stage"}
  <2>1. CASE User \/ Remote \/ Clock \/ Mirror \/ Sending
    BY <2>1 DEF User, Clock, Mirror, Sending, NewDraft, EditDraft, Discard, Detach, ReturnDraft, Remote,
                Age, GraceEnds, BecomeDue, Fire, QueueSend, RefuseSend, Release, GmailNew, GmailEdit, GmailDelete
  <2>2. CASE List \/ Reconcile \/ ReconcileFails
    BY <2>2 DEF List, Reconcile, VisitUnchanged, VisitPush, VisitFetch, Fetched, Import, EndReconcile,
                ReconcileMisses, ReconcileFails, ReconcileOver
  <2>. QED
    BY <2>1, <2>2 DEF Beside
<1>3. Calling' <=> Calling
  BY <1>2 DEF Calling
<1>4. ASSUME Calling, job.op = "upsert", job.draft \in DOMAIN drafts' PROVE drafts'[job.draft].gid = job.gid
  <2>1. job.draft \in 1 .. lastDraft
    <3>1. 1 \in DOMAIN rows /\ rows[1].op = "upsert" /\ job.draft = rows[1].draft
      BY <1>0, <1>4 DEF CallKnown, InFlight
    <3>. QED
      BY <1>0, <3>1 DEF RowsKnown, RowsOf
  <2>2. job.draft # lastDraft + 1
    BY <1>0, <2>1 DEF Counted
  <2>3. ~Ack
    BY DEF Beside, User, Clock, Mirror, Sending, NewDraft, EditDraft, Discard, Detach, ReturnDraft, Remote,
           Age, GraceEnds, BecomeDue, Fire, QueueSend, RefuseSend, Release, box, GmailNew, GmailEdit, GmailDelete,
           List, Reconcile, VisitUnchanged, VisitPush, VisitFetch, Fetched, Import, EndReconcile,
           ReconcileMisses, ReconcileFails, ReconcileOver, Ack
  <2>. QED
    BY <1>0, <1>4, <2>1, <2>2, <2>3 DEF DraftsFollow, Unmoved, Edited, Acked, Imported, Born, CallKnown, Here
<1>5. job.gid \in 0 .. lastGmail => job.gid \in 0 .. lastGmail'
  BY <1>0, Numbers
<1>6. InFlight(rows) => Alike(rows[1], rows'[1])
  BY <1>0 DEF SameInFlight
<1>7. CallKnown'
  <2>1. run' \in {"idle", "drain", "visit", "fetch", "stage"} \/ Calling'
    BY <1>0, <1>2 DEF CallKnown, Calling
  <2>2. Calling' <=> InFlight(rows')
    BY <1>0, <1>3 DEF CallKnown, SameInFlight
  <2>3. Calling' => /\ job' = [op |-> rows'[1].op, draft |-> rows'[1].draft, text |-> rows'[1].text, gid |-> job'.gid]
                    /\ job'.gid \in 0 .. lastGmail'
                    /\ job'.op = "delete" => job'.gid = rows'[1].gid
    BY <1>0, <1>1, <1>3, <1>5, <1>6 DEF CallKnown, Alike
  <2>4. Calling' => (job'.op = "upsert" /\ job'.draft \in DOMAIN drafts' => drafts'[job'.draft].gid = job'.gid)
    BY <1>1, <1>3, <1>4
  <2>5. run' # "applied" => answer' = NoAnswer
    BY <1>0, <1>1, <1>2 DEF CallKnown
  <2>. QED
    BY <2>1, <2>2, <2>3, <2>4, <2>5 DEF CallKnown, Here
<1>. QED
  BY <1>1, <1>3, <1>7

LEMMA CallDrained ==
  ASSUME Known, Drain \/ Crash, Grows
  PROVE  CallKnown'
<1>0. CallKnown /\ Counted /\ RowsKnown /\ DraftsKnown /\ rows \in Seq(Row)
  BY DEF Known, RowsKnown, RowsOf
<1>1. /\ TakeNext => InFlight(rows') /\ Alike(rows[1], rows'[1])
      /\ SkipMoot \/ Ack \/ FailRetry \/ FailTerminal \/ FailAuth \/ Crash => ~InFlight(rows')
  BY RowsDrained
<1>2. ASSUME run' \in {"idle", "drain"}, ~InFlight(rows'), answer' = NoAnswer PROVE CallKnown'
  BY <1>2 DEF CallKnown, Calling
<1>3. run # "applied" => answer = NoAnswer
  BY <1>0 DEF CallKnown
<1>4. CASE Ack \/ FailRetry \/ FailTerminal \/ FailAuth
  BY <1>1, <1>2, <1>4 DEF Ack, FailRetry, FailTerminal, FailAuth, CallOver
<1>5. CASE Crash
  BY <1>1, <1>2, <1>5 DEF Crash, CallOver, ReconcileOver
<1>6. CASE SkipMoot
  BY <1>1, <1>2, <1>3, <1>6 DEF SkipMoot
<1>7. CASE StartDrain \/ EndDrain
  <2>1. ~Calling
    BY <1>7 DEF StartDrain, EndDrain, Calling
  <2>2. ~InFlight(rows) /\ rows' = rows /\ answer' = answer /\ run' \in {"idle", "drain"} /\ run # "applied"
    BY <1>0, <1>7, <2>1 DEF CallKnown, StartDrain, EndDrain, box
  <2>. QED
    BY <1>2, <1>3, <2>2
<1>8. CASE TakeNext
  <2>1. rows # <<>> /\ 1 \in DOMAIN rows
    BY <1>0, <1>8, EmptySeq, LenProperties DEF TakeNext, HeadIsDue
  <2>2. rows[1] \in Row /\ rows[1].gid <= lastGmail
    BY <1>0, <2>1, ElementOfSeq, LenProperties DEF RowsKnown, RowsOf
  <2>3. rows[1].op = "upsert" => /\ rows[1].draft \in DOMAIN drafts
                                 /\ drafts[rows[1].draft] \in Draft /\ drafts[rows[1].draft].gid <= lastGmail
    BY <1>0, <1>8 DEF TakeNext, HeadIsMoot, Here, DraftsKnown
  <2>. DEFINE g == IF rows[1].op = "upsert" THEN drafts[rows[1].draft].gid ELSE rows[1].gid
  <2>4. /\ job' = [op |-> rows[1].op, draft |-> rows[1].draft, text |-> rows[1].text, gid |-> g]
        /\ run' = "call" /\ UNCHANGED <<drafts, lastGmail, answer>> /\ run = "drain"
    BY <1>8 DEF TakeNext, table, counters
  <2>5. g \in 0 .. lastGmail
    BY <1>0, <2>2, <2>3 DEF Row, Draft, Counted
  <2>6. /\ rows[1].op = "upsert" => g = drafts[rows[1].draft].gid
        /\ rows[1].op = "delete" => g = rows[1].gid
    OBVIOUS
  <2>. HIDE DEF g
  <2>. QED
    BY <1>1, <1>3, <1>8, <2>4, <2>5, <2>6 DEF CallKnown, Calling, Alike, Here
<1>9. CASE GmailCreates \/ GmailUpdates \/ GmailDeletes
  <2>1. run = "call" /\ run' = "applied" /\ UNCHANGED <<drafts, rows, job>>
    BY <1>9 DEF GmailCreates, GmailUpdates, GmailDeletes, table
  <2>2. job.gid \in 0 .. lastGmail => job.gid \in 0 .. lastGmail'
    BY <1>0, Numbers
  <2>. QED
    BY <1>0, <2>1, <2>2 DEF CallKnown, Calling, Here
<1>. QED
  BY <1>4, <1>5, <1>6, <1>7, <1>8, <1>9 DEF Drain

LEMMA CallStep ==
  ASSUME Known, Next, Grows
  PROVE  CallKnown'
<1>1. Beside \/ Drain \/ Crash
  BY DEF Next, Beside
<1>. QED
  BY <1>1, CallBeside, CallDrained

(* What is written in Gmail is new, and is on record. *)
Theirs(g) ==
  /\ gmail'[g].text \in theirs'
  /\ g \in DOMAIN gmail \/ (g = lastGmail + 1 /\ g \in stray')

RemoteMove ==
  /\ remote' = remote + 1 /\ theirs \subseteq theirs' /\ Remote
  /\ \A g \in DOMAIN gmail' : (g \in DOMAIN gmail /\ gmail'[g] = gmail[g]) \/ Theirs(g)

OwnMove ==
  /\ remote' = remote /\ theirs' = theirs
  /\ GmailCreates \/ GmailUpdates \/ GmailDeletes \/ gmail' = gmail

LEMMA RemoteWrites ==
  ASSUME Next
  PROVE  RemoteMove \/ OwnMove
<1>1. ASSUME GmailNew PROVE RemoteMove
  BY <1>1 DEF GmailNew, Writes, With, RemoteChange, RemoteMove, Theirs, Remote
<1>2. ASSUME NEW h \in DOMAIN gmail, GmailEdit(h) PROVE RemoteMove
  BY <1>2 DEF GmailEdit, Writes, With, RemoteChange, RemoteMove, Theirs, Remote
<1>3. ASSUME NEW h \in DOMAIN gmail, GmailDelete(h) PROVE RemoteMove
  BY <1>3 DEF GmailDelete, Without, Restrict, RemoteChange, history, RemoteMove, Theirs, Remote
<1>. USE DEF history, counters, OwnMove
<1>4. CASE User \/ Clock \/ Mirror \/ Sending
  BY <1>4 DEF User, Clock, Mirror, Sending, NewDraft, EditDraft, Discard, Detach, ReturnDraft,
              Age, GraceEnds, BecomeDue, Fire, QueueSend, RefuseSend, Release
<1>5. CASE List \/ Reconcile \/ ReconcileFails \/ Crash
  BY <1>5 DEF List, Reconcile, VisitUnchanged, VisitPush, VisitFetch, Fetched, Import, EndReconcile,
              ReconcileMisses, ReconcileFails, ReconcileOver, Crash
<1>6. CASE Drain
  BY <1>6 DEF Drain, StartDrain, SkipMoot, TakeNext, EndDrain, GmailCreates, GmailUpdates, GmailDeletes,
              Ack, FailRetry, FailTerminal, FailAuth
<1>. QED
  BY <1>1, <1>2, <1>3, <1>4, <1>5, <1>6 DEF Next, Remote

LEMMA AnswerBeside ==
  ASSUME Known, Beside, Next, Grows
  PROVE  AnswerKnown'
<1>0. /\ Counted /\ DraftsKnown /\ CallKnown /\ AnswerKnown /\ GmailKnown /\ SendsKnown /\ SeenKnown
      /\ UNCHANGED <<job, answer>> /\ (Calling' <=> Calling)
      /\ DraftsFollow /\ SendsFollow
  BY CallBeside, DraftsMove, SendsMove DEF Known
<1>1. SUFFICES ASSUME run' = "applied" PROVE AnswerKnown'
  BY DEF AnswerKnown
<1>2. run = "applied" /\ ~Import /\ ~Ack
  BY <1>1 DEF Beside, User, Clock, Mirror, Sending, NewDraft, EditDraft, Discard, Detach, ReturnDraft, Remote,
           Age, GraceEnds, BecomeDue, Fire, QueueSend, RefuseSend, Release, GmailNew, GmailEdit, GmailDelete,
           List, Reconcile, VisitUnchanged, VisitPush, VisitFetch, Fetched, Import, EndReconcile,
           ReconcileMisses, ReconcileFails, ReconcileOver, Ack
<1>3. (gmail' = gmail /\ theirs' = theirs) \/ RemoteMove
  BY <1>2, RemoteWrites DEF OwnMove, GmailCreates, GmailUpdates, GmailDeletes
<1>4. /\ job.gid \in 0 .. lastGmail /\ lastGmail \in Nat /\ lastGmail + 1 # job.gid
      /\ \A g \in 1 .. lastGmail : g # lastGmail + 1 /\ g \in 1 .. lastGmail'
  BY <1>0, <1>2, Numbers DEF CallKnown, Calling
<1>5. CASE job.op = "delete"
  <2>1. job.gid \notin DOMAIN gmail /\ answer = NoAnswer
    BY <1>0, <1>2, <1>5 DEF AnswerKnown
  <2>2. job.gid \notin DOMAIN gmail'
    BY <1>3, <1>4, <2>1 DEF RemoteMove, Theirs
  <2>. QED
    BY <1>0, <1>5, <2>1, <2>2 DEF AnswerKnown
<1>6. CASE job.op = "upsert"
  <2>1. /\ answer = [gid |-> answer.gid, rev |-> answer.rev, gone |-> answer.gone]
        /\ answer.gid \in 1 .. lastGmail /\ answer.rev \in Nat /\ answer.gone \in BOOLEAN
        /\ answer.gone => answer.gid = job.gid /\ job.gid \notin DOMAIN gmail
        /\ job.gid # None => answer.gid = job.gid
        /\ job.gid = None =>
              /\ \A d \in DOMAIN drafts : drafts[d].gid # answer.gid
              /\ \A s \in DOMAIN sends : sends[s].gid # answer.gid
        /\ ~answer.gone /\ answer.gid \in DOMAIN gmail =>
              \/ gmail[answer.gid] = [text |-> job.text, rev |-> answer.rev]
              \/ gmail[answer.gid].text \in theirs
    BY <1>0, <1>2, <1>6 DEF AnswerKnown
  <2>2. answer.gone => job.gid \notin DOMAIN gmail'
    BY <1>3, <1>4, <2>1 DEF RemoteMove, Theirs
  <2>3. ASSUME job.gid = None, NEW d \in DOMAIN drafts' PROVE drafts'[d].gid # answer.gid
    <3>1. answer.gid # None
      BY <2>1 DEF None
    <3>. QED
      BY <1>0, <1>2, <2>1, <2>3, <3>1 DEF DraftsFollow, Unmoved, Edited, Acked, Imported, Born
  <2>4. ASSUME job.gid = None, NEW s \in DOMAIN sends' PROVE sends'[s].gid # answer.gid
    <3>1. CASE s \in DOMAIN sends
      BY <1>0, <2>1, <2>4, <3>1 DEF SendsFollow
    <3>2. CASE IsSent(s)
      <4>1. PICK d \in DOMAIN drafts : sends'[s].gid = drafts[d].gid
        BY <3>2 DEF IsSent
      <4>. QED
        BY <2>1, <2>4, <4>1
    <3>. QED
      BY <1>0, <2>4, <3>1, <3>2 DEF SendsFollow
  <2>5. ~answer.gone /\ answer.gid \in DOMAIN gmail' =>
              \/ gmail'[answer.gid] = [text |-> job.text, rev |-> answer.rev]
              \/ gmail'[answer.gid].text \in theirs'
    BY <1>3, <1>4, <2>1 DEF RemoteMove, Theirs
  <2>. QED
    BY <1>0, <1>4, <1>6, <2>1, <2>2, <2>3, <2>4, <2>5 DEF AnswerKnown
<1>7. job.op = "delete" \/ job.op = "upsert"
  <2>1. 1 \in DOMAIN rows /\ job.op = rows[1].op
    BY <1>0, <1>2 DEF CallKnown, Calling, InFlight
  <2>2. rows[1] \in Row
    BY <2>1, ElementOfSeq, LenProperties DEF Known, RowsKnown, RowsOf
  <2>. QED
    BY <2>1, <2>2 DEF Row
<1>. QED
  BY <1>5, <1>6, <1>7

LEMMA AnswerDrained ==
  ASSUME Known, Drain \/ Crash, Grows
  PROVE  AnswerKnown'
<1>0. /\ Counted /\ DraftsKnown /\ CallKnown /\ GmailKnown /\ SendsKnown
  BY DEF Known
<1>1. ASSUME run' # "applied" PROVE AnswerKnown'
  BY <1>1 DEF AnswerKnown
<1>2. CASE GmailCreates
  <2>. DEFINE n == lastGmail + 1
  <2>1. /\ answer' = [gid |-> n, rev |-> 1, gone |-> FALSE] /\ job.op = "upsert" /\ job.gid = None
        /\ gmail' = With(gmail, n, [text |-> job.text, rev |-> 1]) /\ lastGmail' = n
        /\ UNCHANGED <<drafts, sends, job, theirs>>
    BY <1>2 DEF GmailCreates, Writes, table, history
  <2>2. n \in 1 .. n /\ \A g \in 0 .. lastGmail : g # n
    BY <1>0 DEF Counted
  <2>3. \A d \in DOMAIN drafts : drafts[d].gid \in 0 .. lastGmail
    BY <1>0 DEF DraftsKnown, Draft, Counted
  <2>4. \A s \in DOMAIN sends : sends[s].gid \in 0 .. lastGmail
    <3>1. \A s \in DOMAIN sends : sends[s] \in Send /\ sends[s].gid <= lastGmail
      BY <1>0, ElementOfSeq, LenProperties DEF SendsKnown
    <3>. QED
      BY <1>0, <3>1 DEF Send, Counted
  <2>5. gmail'[n] = [text |-> job.text, rev |-> 1]
    BY <2>1 DEF With
  <2>. HIDE DEF n
  <2>6. \A d \in DOMAIN drafts : drafts[d].gid # n
    BY <2>2, <2>3
  <2>7. \A s \in DOMAIN sends : sends[s].gid # n
    BY <2>2, <2>4
  <2>. QED
    BY <2>1, <2>2, <2>5, <2>6, <2>7 DEF AnswerKnown
<1>3. CASE GmailUpdates
  <2>1. /\ job.op = "upsert" /\ job.gid # None /\ job.gid \in 1 .. lastGmail
        /\ UNCHANGED <<job, lastGmail, theirs>>
    BY <1>0, <1>3 DEF GmailUpdates, CallKnown, Calling, None, Counted, history, counters
  <2>2. CASE job.gid \in DOMAIN gmail
    <3>1. gmail[job.gid].rev + 1 \in Nat
      BY <1>0, <2>2 DEF GmailKnown, Copy
    <3>2. /\ gmail' = With(gmail, job.gid, [text |-> job.text, rev |-> gmail[job.gid].rev + 1])
          /\ answer' = [gid |-> job.gid, rev |-> gmail[job.gid].rev + 1, gone |-> FALSE]
      BY <1>3, <2>2 DEF GmailUpdates, Writes
    <3>3. gmail'[job.gid] = [text |-> job.text, rev |-> gmail[job.gid].rev + 1]
      BY <3>2 DEF With
    <3>. QED
      BY <2>1, <3>1, <3>2, <3>3 DEF AnswerKnown
  <2>3. CASE job.gid \notin DOMAIN gmail
    <3>1. /\ gmail' = gmail
          /\ answer' = [gid |-> job.gid, rev |-> 0, gone |-> TRUE]
      BY <1>3, <2>3 DEF GmailUpdates, None
    <3>. QED
      BY <2>1, <2>3, <3>1 DEF AnswerKnown
  <2>. QED
    BY <2>2, <2>3
<1>4. CASE GmailDeletes
  <2>1. job' = job /\ answer' = answer /\ answer = NoAnswer /\ job.gid \notin DOMAIN gmail' /\ job.op = "delete"
    BY <1>0, <1>4 DEF GmailDeletes, CallKnown, Without, Restrict
  <2>. QED
    BY <2>1 DEF AnswerKnown
<1>5. CASE StartDrain \/ SkipMoot \/ TakeNext \/ EndDrain \/ Ack \/ FailRetry \/ FailTerminal \/ FailAuth \/ Crash
  BY <1>1, <1>5 DEF StartDrain, SkipMoot, TakeNext, EndDrain, Ack, FailRetry, FailTerminal, FailAuth, Crash, ReconcileOver
<1>. QED
  BY <1>2, <1>3, <1>4, <1>5 DEF Drain

LEMMA KnownInit ==
  ASSUME Init
  PROVE  Known
<1>1. /\ drafts = <<>> /\ armed = {} /\ rows = <<>> /\ gmail = <<>> /\ sends = <<>> /\ run = "idle"
      /\ job = NoJob /\ answer = NoAnswer /\ seen = NoSeen /\ todo = {} /\ faults = <<>> /\ theirs = {}
      /\ lastDraft = 0 /\ lastGmail = 0 /\ lastText = 0 /\ lists = 0 /\ remote = 0
  BY DEF Init
<1>2. DOMAIN <<>> = {}
  OBVIOUS
<1>3. Counted
  BY <1>1, EmptySeq DEF Counted
<1>4. DraftsKnown /\ GmailKnown
  BY <1>1, <1>2 DEF DraftsKnown, GmailKnown
<1>5. RowsKnown /\ SendsKnown
  BY <1>1, <1>2, EmptySeq DEF RowsKnown, RowsOf, SendsKnown
<1>6. SeenKnown
  BY <1>1, <1>2 DEF SeenKnown, NoSeen, Visiting
<1>7. CallKnown /\ AnswerKnown
  BY <1>1, <1>2 DEF CallKnown, AnswerKnown, Calling, InFlight
<1>. QED
  BY <1>1, <1>3, <1>4, <1>5, <1>6, <1>7 DEF Known

LEMMA KnownStep ==
  ASSUME Known, [Next]_vars
  PROVE  Known'
<1>1. CASE UNCHANGED vars
  BY <1>1 DEF vars, Known, Counted, DraftsKnown, RowsKnown, GmailKnown, SendsKnown, SeenKnown, CallKnown,
              AnswerKnown, Calling, Visiting, Here
<1>2. CASE Next
  <2>1. Grows
    BY <1>2, Counting DEF Known
  <2>2. Beside \/ Drain \/ Crash
    BY <1>2 DEF Next, Beside
  <2>3. Counted' /\ DraftsKnown' /\ RowsKnown' /\ GmailKnown' /\ SendsKnown' /\ SeenKnown' /\ CallKnown' /\ AnswerKnown'
    BY <1>2, <2>1, <2>2, DraftsStep, RowsBeside, RowsDrained, GmailStep, SendsStep, SeenStep, CallStep,
       AnswerBeside, AnswerDrained DEF Grows
  <2>4. remote' = 0 => theirs' = {}
    <3>1. remote \in Nat /\ (remote = 0 => theirs = {})
      BY DEF Known, Counted
    <3>. QED
      BY <1>2, <3>1, RemoteWrites DEF RemoteMove, OwnMove
  <2>. QED
    BY <2>3, <2>4 DEF Known
<1>. QED
  BY <1>1, <1>2

-----------------------------------------------------------------------------
(* What becomes of a row: it stays, is taken from the front, or is dropped *)
(* with its draft or by the reconcile.                                     *)

SameRow(r, e) == e.op = r.op /\ e.draft = r.draft /\ e.gid = r.gid
StaysIn(q, r) == \E k \in DOMAIN q : SameRow(r, q[k]) /\ (q[k].inflight => r.inflight)

Stays(i) == StaysIn(rows', rows[i]) \/ (TakeNext /\ i = 1 /\ i \in DOMAIN rows' /\ SameRow(rows[i], rows'[i]))
Popped(i) == i = 1 /\ (Ack \/ FailTerminal \/ FailAuth \/ SkipMoot)
Dropped(i) ==
  /\ rows[i].op = "upsert" /\ ~rows[i].inflight
  /\ \/ rows[i].draft \notin DOMAIN drafts'
     \/ Fetched /\ rows[i].draft = LocalOf(seen.at)

(* A row that waits was waiting before, or takes the text a draft has now, *)
(* or is to be tried again.                                                *)
Raised(r) ==
  /\ r.draft \in DOMAIN drafts' /\ r.text = drafts'[r.draft].text
  /\ \/ Fire(r.draft)
     \/ \E g \in todo : VisitPush(g) /\ r.draft = LocalOf(g)
     \/ r.draft = lastDraft + 1 /\ \E s \in DOMAIN sends : ReturnDraft(s)

WaitsNow(r) ==
  \/ \E i \in DOMAIN rows : Waits(i) /\ Alike(rows[i], r)
  \/ Raised(r)
  \/ FailRetry \/ Crash

OnceIn(rs) ==
  \A i, j \in DOMAIN rs :
    /\ rs[i].op = "upsert" /\ ~rs[i].inflight
    /\ rs[j].op = "upsert" /\ ~rs[j].inflight
    /\ rs[i].draft = rs[j].draft
    => i = j

RowsFollow ==
  /\ \A i \in DOMAIN rows : Stays(i) \/ Popped(i) \/ Dropped(i)
  /\ \A k \in DOMAIN rows' : rows'[k].op = "upsert" /\ ~rows'[k].inflight => WaitsNow(rows'[k])
  /\ FailRetry \/ Crash \/ (OnceIn(rows) => OnceIn(rows'))

LEMMA FollowQueued ==
  ASSUME NEW rs \in Seq(Row), NEW d \in Nat, NEW t \in Nat, NEW q, IsQueued(rs, d, t, q)
  PROVE  /\ \A i \in DOMAIN rs : StaysIn(q, rs[i])
         /\ \A k \in DOMAIN q : q[k].op = "upsert" /\ ~q[k].inflight =>
              \/ k \in DOMAIN rs /\ rs[k] = q[k]
              \/ q[k].draft = d /\ q[k].text = t
         /\ OnceIn(rs) => OnceIn(q)
         /\ \E k \in DOMAIN q : IsUpsert(q[k], d) /\ ~q[k].inflight
<1>0. \A i \in DOMAIN rs : rs[i] \in Row
  BY ElementOfSeq, LenProperties
<1>1. /\ q \in Seq(Row) /\ DOMAIN rs \subseteq DOMAIN q
      /\ \A i \in DOMAIN rs :
           q[i] = rs[i] \/ (IsUpsert(rs[i], d) /\ ~rs[i].inflight /\ q[i] = [rs[i] EXCEPT !.text = t])
      /\ \A i \in DOMAIN q :
           i \in DOMAIN rs \/ (i = Len(rs) + 1 /\ q[i] = UpsertRow(d, t) /\ Waiting(rs, d) = {})
      /\ \E i \in DOMAIN q : IsUpsert(q[i], d) /\ ~q[i].inflight /\ q[i].text = t
  BY DEF IsQueued
<1>2. \A i \in DOMAIN rs : /\ q[i].op = rs[i].op /\ q[i].draft = rs[i].draft /\ q[i].gid = rs[i].gid
                           /\ q[i].inflight = rs[i].inflight
                           /\ q[i] = rs[i] \/ (rs[i].draft = d /\ q[i].text = t)
  <2>. SUFFICES ASSUME NEW i \in DOMAIN rs, q[i] # rs[i]
                PROVE  /\ q[i].op = rs[i].op /\ q[i].draft = rs[i].draft /\ q[i].gid = rs[i].gid
                       /\ q[i].inflight = rs[i].inflight /\ rs[i].draft = d /\ q[i].text = t
    OBVIOUS
  <2>1. rs[i] \in Row /\ IsUpsert(rs[i], d) /\ q[i] = [rs[i] EXCEPT !.text = t]
    BY <1>0, <1>1
  <2>. QED
    BY <2>1 DEF Row, IsUpsert
<1>3. UpsertRow(d, t).draft = d /\ UpsertRow(d, t).text = t
  BY DEF UpsertRow
<1>4. \A i \in DOMAIN rs : StaysIn(q, rs[i])
  BY <1>1, <1>2 DEF StaysIn, SameRow
<1>5. \A k \in DOMAIN q : q[k].op = "upsert" /\ ~q[k].inflight =>
         (k \in DOMAIN rs /\ rs[k] = q[k]) \/ (q[k].draft = d /\ q[k].text = t)
  BY <1>1, <1>2, <1>3
<1>6. ASSUME OnceIn(rs) PROVE OnceIn(q)
  <2>. SUFFICES ASSUME NEW i \in DOMAIN q, NEW j \in DOMAIN q,
                       q[i].op = "upsert", ~q[i].inflight, q[j].op = "upsert", ~q[j].inflight,
                       q[i].draft = q[j].draft
                PROVE  i = j
    BY DEF OnceIn
  <2>1. CASE i \in DOMAIN rs /\ j \in DOMAIN rs
    BY <1>2, <1>6, <2>1 DEF OnceIn
  <2>2. CASE i \in DOMAIN rs /\ j \notin DOMAIN rs
    BY <1>1, <1>2, <1>3, <2>2 DEF Waiting, IsUpsert
  <2>3. CASE j \in DOMAIN rs /\ i \notin DOMAIN rs
    BY <1>1, <1>2, <1>3, <2>3 DEF Waiting, IsUpsert
  <2>4. CASE i \notin DOMAIN rs /\ j \notin DOMAIN rs
    BY <1>1, <2>4
  <2>. QED
    BY <2>1, <2>2, <2>3, <2>4
<1>. QED
  BY <1>1, <1>4, <1>5, <1>6

LEMMA FollowDropped ==
  ASSUME NEW rs \in Seq(Row), NEW ds, NEW q, IsDropped(rs, ds, q)
  PROVE  /\ \A i \in DOMAIN rs :
              \/ \E k \in DOMAIN q : q[k] = rs[i]
              \/ rs[i].op = "upsert" /\ ~rs[i].inflight /\ rs[i].draft \in ds
         /\ \A k \in DOMAIN q : \E i \in DOMAIN rs : rs[i] = q[k]
         /\ OnceIn(rs) => OnceIn(q)
<1>1. /\ \A k \in DOMAIN q : \E i \in DOMAIN rs : q[k] = rs[i]
      /\ \A i \in DOMAIN rs :
           rs[i].inflight \/ (~\E d \in ds : IsUpsert(rs[i], d)) => \E k \in DOMAIN q : q[k] = rs[i]
      /\ \A k, l \in DOMAIN q : k # l => \E i, j \in DOMAIN rs : i # j /\ q[k] = rs[i] /\ q[l] = rs[j]
  BY DEF IsDropped
<1>2. \A i \in DOMAIN rs : (\E k \in DOMAIN q : q[k] = rs[i]) \/ (rs[i].op = "upsert" /\ ~rs[i].inflight /\ rs[i].draft \in ds)
  BY <1>1 DEF IsUpsert
<1>3. ASSUME OnceIn(rs) PROVE OnceIn(q)
  <2>. SUFFICES ASSUME NEW k \in DOMAIN q, NEW l \in DOMAIN q, k # l,
                       q[k].op = "upsert", ~q[k].inflight, q[l].op = "upsert", ~q[l].inflight,
                       q[k].draft = q[l].draft
                PROVE  FALSE
    BY DEF OnceIn
  <2>1. PICK i, j \in DOMAIN rs : i # j /\ q[k] = rs[i] /\ q[l] = rs[j]
    BY <1>1
  <2>. QED
    BY <1>3, <2>1 DEF OnceIn
<1>. QED
  BY <1>1, <1>2, <1>3

LEMMA FollowDeleting ==
  ASSUME NEW rs \in Seq(Row), NEW g, NEW q, IsDeleting(rs, g, q)
  PROVE  /\ \A i \in DOMAIN rs : i \in DOMAIN q /\ q[i] = rs[i]
         /\ \A k \in DOMAIN q : q[k].op = "upsert" => k \in DOMAIN rs /\ rs[k] = q[k]
         /\ g # None => \E k \in DOMAIN q : q[k].op = "delete" /\ q[k].gid = g
         /\ OnceIn(rs) => OnceIn(q)
<1>1. DeleteRow(g).op = "delete" /\ DeleteRow(g).gid = g
  BY DEF DeleteRow
<1>2. /\ DOMAIN rs \subseteq DOMAIN q
      /\ \A i \in DOMAIN rs : q[i] = rs[i]
      /\ \A i \in DOMAIN q : i \in DOMAIN rs \/ (i = Len(rs) + 1 /\ q[i] = DeleteRow(g))
      /\ g # None => \E i \in DOMAIN q : q[i] = DeleteRow(g)
  BY DEF IsDeleting
<1>3. OnceIn(rs) => OnceIn(q)
  BY <1>1, <1>2 DEF OnceIn
<1>. QED
  BY <1>1, <1>2, <1>3

LEMMA FollowTail ==
  ASSUME NEW rs \in Seq(Row), NEW q, IsTail(rs, q)
  PROVE  /\ \A i \in DOMAIN rs : i = 1 \/ \E k \in DOMAIN q : q[k] = rs[i]
         /\ \A k \in DOMAIN q : \E i \in DOMAIN rs : rs[i] = q[k]
         /\ OnceIn(rs) => OnceIn(q)
<1>1. /\ \A k \in DOMAIN q : k + 1 \in DOMAIN rs /\ q[k] = rs[k + 1]
      /\ \A i \in DOMAIN rs : i = 1 \/ (i - 1 \in DOMAIN q /\ q[i - 1] = rs[i])
      /\ q \in Seq(Row)
  BY DEF IsTail
<1>2. \A k, l \in DOMAIN q : k + 1 = l + 1 => k = l
  <2>1. \A k \in DOMAIN q : k \in Nat
    BY <1>1, LenProperties
  <2>. QED
    BY <2>1
<1>3. OnceIn(rs) => OnceIn(q)
  BY <1>1, <1>2 DEF OnceIn
<1>. QED
  BY <1>1, <1>3

LEMMA RowsMoveBeside ==
  ASSUME Known, Beside, Next, Grows
  PROVE  RowsFollow
<1>0. /\ Counted /\ DraftsKnown /\ SendsKnown /\ rows \in Seq(Row)
  BY DEF Known, RowsKnown, RowsOf
<1>00. /\ \A i \in DOMAIN rows : rows[i].inflight => i = 1
       /\ \A i \in DOMAIN rows : rows[i] \in Row
  BY <1>0, ElementOfSeq, LenProperties DEF Known, RowsKnown, RowsOf
<1>1. ASSUME rows' = rows PROVE RowsFollow
  BY <1>1 DEF RowsFollow, Stays, StaysIn, SameRow, WaitsNow, Waits, Alike
<1>2. ASSUME NEW d \in Nat, NEW t \in Nat, rows' = EnqueueUpsert(rows, d, t),
             \A r : r.draft = d /\ r.text = t => Raised(r)
      PROVE  RowsFollow
  <2>1. IsQueued(rows, d, t, rows')
    BY <1>0, <1>2, Queued
  <2>2. /\ \A i \in DOMAIN rows : StaysIn(rows', rows[i])
        /\ \A k \in DOMAIN rows' : rows'[k].op = "upsert" /\ ~rows'[k].inflight =>
             \/ k \in DOMAIN rows /\ rows[k] = rows'[k]
             \/ rows'[k].draft = d /\ rows'[k].text = t
        /\ OnceIn(rows) => OnceIn(rows')
    BY <1>0, <2>1, FollowQueued
  <2>. QED
    BY <1>2, <2>2 DEF RowsFollow, Stays, WaitsNow, Waits, Alike
<1>3. ASSUME NEW ds, rows' = DropAll(rows, ds),
             \A d \in ds : d \notin DOMAIN drafts' \/ (Fetched /\ d = LocalOf(seen.at))
      PROVE  RowsFollow
  <2>1. IsDropped(rows, ds, rows')
    BY <1>0, <1>00, <1>3, Dropping
  <2>2. /\ \A i \in DOMAIN rows :
             \/ \E k \in DOMAIN rows' : rows'[k] = rows[i]
             \/ rows[i].op = "upsert" /\ ~rows[i].inflight /\ rows[i].draft \in ds
        /\ \A k \in DOMAIN rows' : \E i \in DOMAIN rows : rows[i] = rows'[k]
        /\ OnceIn(rows) => OnceIn(rows')
    BY <1>0, <2>1, FollowDropped
  <2>3. \A i \in DOMAIN rows : Stays(i) \/ Dropped(i)
    BY <1>3, <2>2 DEF Stays, StaysIn, SameRow, Dropped
  <2>4. \A k \in DOMAIN rows' : rows'[k].op = "upsert" /\ ~rows'[k].inflight => WaitsNow(rows'[k])
    BY <2>2 DEF WaitsNow, Waits, Alike
  <2>. QED
    BY <2>2, <2>3, <2>4 DEF RowsFollow
<1>4. ASSUME NEW d \in DOMAIN drafts, Discard(d) PROVE RowsFollow
  <2>. DEFINE q == DropAll(rows, {d})
              g == drafts[d].gid
  <2>1. rows' = EnqueueDelete(q, g) /\ g \in Nat /\ d \notin DOMAIN drafts'
    BY <1>0, <1>4 DEF Discard, DropUpserts, DraftsKnown, Draft, Without, Restrict
  <2>2. IsDropped(rows, {d}, q)
    BY <1>0, <1>00, Dropping
  <2>. HIDE DEF q, g
  <2>3. q \in Seq(Row)
    BY <2>2 DEF IsDropped
  <2>4. IsDeleting(q, g, rows')
    BY <2>1, <2>3, Deleting
  <2>5. /\ \A i \in DOMAIN rows :
             \/ \E k \in DOMAIN q : q[k] = rows[i]
             \/ rows[i].op = "upsert" /\ ~rows[i].inflight /\ rows[i].draft \in {d}
        /\ \A k \in DOMAIN q : \E i \in DOMAIN rows : rows[i] = q[k]
        /\ OnceIn(rows) => OnceIn(q)
    BY <1>0, <2>2, FollowDropped
  <2>6. /\ \A k \in DOMAIN q : k \in DOMAIN rows' /\ rows'[k] = q[k]
        /\ \A k \in DOMAIN rows' : rows'[k].op = "upsert" => k \in DOMAIN q /\ q[k] = rows'[k]
        /\ OnceIn(q) => OnceIn(rows')
    BY <2>3, <2>4, FollowDeleting
  <2>7. \A i \in DOMAIN rows : Stays(i) \/ Dropped(i)
    BY <2>1, <2>5, <2>6 DEF Stays, StaysIn, SameRow, Dropped
  <2>8. \A k \in DOMAIN rows' : rows'[k].op = "upsert" /\ ~rows'[k].inflight => WaitsNow(rows'[k])
    BY <2>5, <2>6 DEF WaitsNow, Waits, Alike
  <2>. QED
    BY <2>5, <2>6, <2>7, <2>8 DEF RowsFollow
<1>5. ASSUME NEW d \in DOMAIN drafts, Detach(d) PROVE RowsFollow
  <2>1. rows' = DropAll(rows, {d}) /\ d \notin DOMAIN drafts'
    BY <1>5 DEF Detach, DropUpserts, Without, Restrict
  <2>. QED
    BY <1>3, <2>1
<1>6. CASE List
  <2>. DEFINE gone == {d \in Tied(drafts) : drafts[d].gid \notin DOMAIN gmail}
  <2>1. rows' = DropAll(rows, gone) /\ drafts' = Restrict(drafts, DOMAIN drafts \ gone)
    BY <1>6 DEF List
  <2>. HIDE DEF gone
  <2>2. \A d \in gone : d \notin DOMAIN drafts'
    BY <2>1 DEF Restrict
  <2>. QED
    BY <1>3, <2>1, <2>2
<1>7. CASE Fetched
  <2>1. rows' = DropAll(rows, {LocalOf(seen.at)})
    BY <1>7 DEF Fetched, DropUpserts
  <2>. QED
    BY <1>3, <1>7, <2>1
<1>8. ASSUME NEW s \in DOMAIN sends, ReturnDraft(s) PROVE RowsFollow
  <2>. DEFINE t == sends[s].text
              d == lastDraft + 1
  <2>1. /\ rows' = EnqueueUpsert(rows, d, t) /\ d \in Nat /\ d = lastDraft + 1
        /\ drafts' = With(drafts, d, Typed(t, sends[s].gid, None))
    BY <1>0, <1>8 DEF ReturnDraft, Counted
  <2>2. t \in Nat
    <3>1. sends[s] \in Send
      BY <1>0, ElementOfSeq, LenProperties DEF SendsKnown
    <3>. QED
      BY <3>1 DEF Send
  <2>. HIDE DEF t, d
  <2>3. d \in DOMAIN drafts' /\ drafts'[d].text = t
    BY <2>1 DEF With, Typed
  <2>4. \A r : r.draft = d /\ r.text = t => Raised(r)
    BY <1>8, <2>1, <2>3 DEF Raised
  <2>. QED
    BY <1>2, <2>1, <2>2, <2>4
<1>9. ASSUME NEW d \in DOMAIN drafts, rows' = EnqueueUpsert(rows, d, drafts[d].text),
             d \in DOMAIN drafts', drafts'[d].text = drafts[d].text,
             Fire(d) \/ \E g \in todo : VisitPush(g) /\ d = LocalOf(g)
      PROVE  RowsFollow
  <2>. DEFINE t == drafts[d].text
  <2>1. rows' = EnqueueUpsert(rows, d, t) /\ d \in Nat /\ t \in Nat /\ drafts'[d].text = t
    BY <1>0, <1>9 DEF DraftsKnown, Draft, Counted
  <2>. HIDE DEF t
  <2>2. \A r : r.draft = d /\ r.text = t => Raised(r)
    BY <1>9, <2>1 DEF Raised
  <2>. QED
    BY <1>2, <2>1, <2>2
<1>10. ASSUME NEW d \in DOMAIN drafts, MirrorState(d, "pending") PROVE d \in DOMAIN drafts' /\ drafts'[d].text = drafts[d].text
  <2>1. drafts' = [drafts EXCEPT ![d] = [drafts[d] EXCEPT !.state = "pending"]] /\ drafts[d] \in Draft
    BY <1>0, <1>10 DEF MirrorState, Here, DraftsKnown
  <2>. QED
    BY <2>1 DEF Draft
<1>11. ASSUME NEW d \in armed, Fire(d) PROVE RowsFollow
  <2>1. CASE Here(d)
    <3>1. rows' = EnqueueUpsert(rows, d, drafts[d].text) /\ MirrorState(d, "pending") /\ d \in DOMAIN drafts
      BY <1>11, <2>1 DEF Fire, MirrorState, Here
    <3>. QED
      BY <1>9, <1>10, <1>11, <3>1
  <2>2. CASE ~Here(d)
    BY <1>1, <1>11, <2>2 DEF Fire
  <2>. QED
    BY <2>1, <2>2
<1>12. ASSUME NEW g \in todo, VisitPush(g) PROVE RowsFollow
  <2>. DEFINE d == LocalOf(g)
  <2>1. CASE Here(d)
    <3>1. rows' = EnqueueUpsert(rows, d, drafts[d].text) /\ MirrorState(d, "pending") /\ d \in DOMAIN drafts
      BY <1>12, <2>1 DEF VisitPush, Here
    <3>2. \E h \in todo : VisitPush(h) /\ d = LocalOf(h)
      BY <1>12
    <3>. HIDE DEF d
    <3>. QED
      BY <1>9, <1>10, <3>1, <3>2
  <2>2. CASE ~Here(d)
    BY <1>1, <1>12, <2>2 DEF VisitPush
  <2>. QED
    BY <2>1, <2>2
<1>13. ASSUME NEW s \in DOMAIN sends, Release(s) PROVE RowsFollow
  <2>. DEFINE g == sends[s].gid
  <2>1. rows' = EnqueueDelete(rows, g)
    BY <1>13 DEF Release
  <2>2. g \in Nat
    <3>1. sends[s] \in Send
      BY <1>0, ElementOfSeq, LenProperties DEF SendsKnown
    <3>. QED
      BY <3>1 DEF Send
  <2>. HIDE DEF g
  <2>3. IsDeleting(rows, g, rows')
    BY <1>0, <2>1, <2>2, Deleting
  <2>4. /\ \A i \in DOMAIN rows : i \in DOMAIN rows' /\ rows'[i] = rows[i]
        /\ \A k \in DOMAIN rows' : rows'[k].op = "upsert" => k \in DOMAIN rows /\ rows[k] = rows'[k]
        /\ OnceIn(rows) => OnceIn(rows')
    BY <1>0, <2>3, FollowDeleting
  <2>. QED
    BY <2>4 DEF RowsFollow, Stays, StaysIn, SameRow, WaitsNow, Waits, Alike
<1>14. CASE BecomeDue
  <2>1. PICK i \in DOMAIN rows : rows' = [rows EXCEPT ![i].due = TRUE]
    BY <1>14 DEF BecomeDue
  <2>. DEFINE e == [rows[i] EXCEPT !.due = TRUE]
  <2>2. rows' = [rows EXCEPT ![i] = e]
    BY <2>1
  <2>3. e \in Row /\ Alike(rows[i], e)
    BY <1>0, Marking
  <2>4. e.inflight = rows[i].inflight
    BY <1>00 DEF Row
  <2>. HIDE DEF e
  <2>5. IsMarked(rows, i, e, rows')
    BY <1>0, <2>2, <2>3, Marked
  <2>6. DOMAIN rows' = DOMAIN rows /\ \A k \in DOMAIN rows : Alike(rows[k], rows'[k]) /\ rows'[k].inflight = rows[k].inflight
    BY <2>4, <2>5 DEF IsMarked
  <2>7. \A k \in DOMAIN rows : Stays(k)
    BY <2>6 DEF Stays, StaysIn, SameRow, Alike
  <2>8. \A k \in DOMAIN rows' : rows'[k].op = "upsert" /\ ~rows'[k].inflight => WaitsNow(rows'[k])
    BY <2>6 DEF WaitsNow, Waits, Alike
  <2>9. OnceIn(rows) => OnceIn(rows')
    BY <2>6 DEF OnceIn, Alike
  <2>. QED
    BY <2>7, <2>8, <2>9 DEF RowsFollow
<1>. USE DEF box
<1>15. CASE NewDraft \/ \E d \in DOMAIN drafts : EditDraft(d) \/ Age(d)
  BY <1>1, <1>15 DEF NewDraft, EditDraft, Age
<1>16. CASE Remote
  BY <1>1, <1>16 DEF Remote, GmailNew, GmailEdit, GmailDelete
<1>17. CASE \E s \in DOMAIN sends : GraceEnds(s) \/ QueueSend(s) \/ RefuseSend(s)
  BY <1>1, <1>17 DEF GraceEnds, QueueSend, RefuseSend
<1>18. CASE \E g \in todo : VisitUnchanged(g) \/ VisitFetch(g)
  BY <1>1, <1>18 DEF VisitUnchanged, VisitFetch
<1>19. CASE Import \/ EndReconcile \/ ReconcileMisses \/ ReconcileFails
  BY <1>1, <1>19 DEF Import, EndReconcile, ReconcileMisses, ReconcileFails
<1>. QED
  BY <1>4, <1>5, <1>6, <1>7, <1>8, <1>11, <1>12, <1>13, <1>14, <1>15, <1>16, <1>17, <1>18, <1>19
  DEF Beside, User, Clock, Mirror, Sending, Reconcile

LEMMA RowsMoveDrained ==
  ASSUME Known, Drain \/ Crash
  PROVE  RowsFollow
<1>0. /\ CallKnown /\ AnswerKnown /\ DraftsKnown /\ rows \in Seq(Row)
  BY DEF Known, RowsKnown, RowsOf
<1>00. /\ \A i \in DOMAIN rows : rows[i].inflight => i = 1
       /\ \A i \in DOMAIN rows : rows[i] \in Row
       /\ rows # <<>> => 1 \in DOMAIN rows
  BY <1>0, ElementOfSeq, LenProperties, EmptySeq DEF Known, RowsKnown, RowsOf
<1>000. Calling => 1 \in DOMAIN rows
  BY <1>0 DEF CallKnown, InFlight
<1>. DEFINE q == Tail(rows)
<1>1. ASSUME 1 \in DOMAIN rows
      PROVE  /\ q \in Seq(Row)
             /\ \A i \in DOMAIN rows : i = 1 \/ \E k \in DOMAIN q : q[k] = rows[i]
             /\ \A k \in DOMAIN q : \E i \in DOMAIN rows : rows[i] = q[k]
             /\ OnceIn(rows) => OnceIn(q)
             /\ \A k \in DOMAIN q : ~q[k].inflight
  <2>1. IsTail(rows, q)
    BY <1>0, <1>1, FirstLeft
  <2>2. \A k \in DOMAIN q : ~q[k].inflight
    BY <1>00, <2>1 DEF IsTail
  <2>3. q \in Seq(Row)
    BY <2>1 DEF IsTail
  <2>. HIDE DEF q
  <2>. QED
    BY <1>0, <2>1, <2>2, <2>3, FollowTail
<1>2. ASSUME 1 \in DOMAIN rows, rows' = q, Popped(1) PROVE RowsFollow
  BY <1>1, <1>2 DEF RowsFollow, Stays, StaysIn, SameRow, WaitsNow, Waits, Alike, Popped
<1>3. CASE SkipMoot
  BY <1>2, <1>3, <1>00 DEF SkipMoot, HeadIsDue, Popped
<1>4. CASE FailTerminal \/ FailAuth
  BY <1>2, <1>4, <1>000 DEF FailTerminal, FailAuth, Popped, Calling
<1>. HIDE DEF q
<1>5. CASE Ack
  <2>1. 1 \in DOMAIN rows /\ Popped(1)
    BY <1>5, <1>000 DEF Ack, Calling, Popped
  <2>2. CASE rows' = q
    BY <1>2, <2>1, <2>2
  <2>3. CASE rows' = DropAll(q, {job.draft}) /\ drafts' = Without(drafts, job.draft)
    <3>1. IsDropped(q, {job.draft}, rows')
      BY <1>1, <2>1, <2>3, Dropping
    <3>2. /\ \A i \in DOMAIN q :
               \/ \E k \in DOMAIN rows' : rows'[k] = q[i]
               \/ q[i].op = "upsert" /\ ~q[i].inflight /\ q[i].draft \in {job.draft}
          /\ \A k \in DOMAIN rows' : \E i \in DOMAIN q : q[i] = rows'[k]
          /\ OnceIn(q) => OnceIn(rows')
      BY <1>1, <2>1, <3>1, FollowDropped
    <3>3. job.draft \notin DOMAIN drafts'
      BY <2>3 DEF Without, Restrict
    <3>4. \A i \in DOMAIN rows : Stays(i) \/ Popped(i) \/ Dropped(i)
      BY <1>1, <2>1, <3>2, <3>3 DEF Stays, StaysIn, SameRow, Dropped
    <3>5. \A k \in DOMAIN rows' : rows'[k].op = "upsert" /\ ~rows'[k].inflight => WaitsNow(rows'[k])
      BY <1>1, <2>1, <3>2 DEF WaitsNow, Waits, Alike
    <3>. QED
      BY <1>1, <2>1, <3>2, <3>4, <3>5 DEF RowsFollow
  <2>4. CASE rows' = EnqueueDelete(q, answer.gid) /\ job.op = "upsert" /\ ~answer.gone
    <3>0. answer.gid \in Nat
      BY <1>0, <1>5, <2>4 DEF AnswerKnown, Ack, Known, Counted
    <3>1. IsDeleting(q, answer.gid, rows')
      BY <1>1, <2>1, <2>4, <3>0, Deleting
    <3>2. /\ \A i \in DOMAIN q : i \in DOMAIN rows' /\ rows'[i] = q[i]
          /\ \A k \in DOMAIN rows' : rows'[k].op = "upsert" => k \in DOMAIN q /\ q[k] = rows'[k]
          /\ OnceIn(q) => OnceIn(rows')
      BY <1>1, <2>1, <3>1, FollowDeleting
    <3>3. \A i \in DOMAIN rows : Stays(i) \/ Popped(i)
      BY <1>1, <2>1, <3>2 DEF Stays, StaysIn, SameRow
    <3>4. \A k \in DOMAIN rows' : rows'[k].op = "upsert" /\ ~rows'[k].inflight => WaitsNow(rows'[k])
      BY <1>1, <2>1, <3>2 DEF WaitsNow, Waits, Alike
    <3>. QED
      BY <1>1, <2>1, <3>2, <3>3, <3>4 DEF RowsFollow
  <2>5. \/ rows' = q
        \/ rows' = DropAll(q, {job.draft}) /\ drafts' = Without(drafts, job.draft)
        \/ rows' = EnqueueDelete(q, answer.gid) /\ job.op = "upsert" /\ ~answer.gone
    BY <1>5 DEF Ack, DropUpserts, Orphan, q, Here
  <2>. QED
    BY <2>2, <2>3, <2>4, <2>5
<1>6. CASE TakeNext
  <2>1. 1 \in DOMAIN rows /\ rows' = [rows EXCEPT ![1].inflight = TRUE]
    BY <1>00, <1>6 DEF TakeNext, HeadIsDue
  <2>. DEFINE e == [rows[1] EXCEPT !.inflight = TRUE]
  <2>2. rows' = [rows EXCEPT ![1] = e]
    BY <2>1
  <2>3. e \in Row /\ Alike(rows[1], e)
    BY <1>0, <2>1, Marking
  <2>4. e.inflight
    BY <1>00, <2>1 DEF Row
  <2>. HIDE DEF e
  <2>5. IsMarked(rows, 1, e, rows')
    BY <1>0, <2>1, <2>2, <2>3, Marked
  <2>6. /\ DOMAIN rows' = DOMAIN rows
        /\ \A k \in DOMAIN rows : /\ Alike(rows[k], rows'[k]) /\ (rows'[k].inflight \/ rows'[k] = rows[k])
                                  /\ (k = 1 \/ rows'[k] = rows[k])
    BY <2>4, <2>5 DEF IsMarked
  <2>7. \A k \in DOMAIN rows : Stays(k)
    BY <1>6, <2>6 DEF Stays, StaysIn, SameRow, Alike
  <2>8. \A k \in DOMAIN rows' : rows'[k].op = "upsert" /\ ~rows'[k].inflight => WaitsNow(rows'[k])
    BY <2>6 DEF WaitsNow, Waits, Alike
  <2>9. OnceIn(rows) => OnceIn(rows')
    BY <2>6 DEF OnceIn, Alike
  <2>. QED
    BY <2>7, <2>8, <2>9 DEF RowsFollow
<1>7. CASE FailRetry
  <2>1. 1 \in DOMAIN rows /\ rows' = [rows EXCEPT ![1].inflight = FALSE, ![1].due = FALSE]
    BY <1>000, <1>7 DEF FailRetry, Calling
  <2>. DEFINE e == [rows[1] EXCEPT !.inflight = FALSE, !.due = FALSE]
  <2>2. rows' = [rows EXCEPT ![1] = e]
    <3>1. rows' = [[rows EXCEPT ![1].inflight = FALSE] EXCEPT ![1].due = FALSE]
      BY <2>1
    <3>. QED
      BY <2>1, <3>1
  <2>3. e \in Row /\ Alike(rows[1], e)
    BY <1>0, <2>1, Marking
  <2>4. ~e.inflight
    BY <1>00, <2>1 DEF Row
  <2>. HIDE DEF e
  <2>5. IsMarked(rows, 1, e, rows')
    BY <1>0, <2>1, <2>2, <2>3, Marked
  <2>6. \A k \in DOMAIN rows : Stays(k)
    BY <2>4, <2>5 DEF IsMarked, Stays, StaysIn, SameRow, Alike
  <2>. QED
    BY <1>7, <2>6 DEF RowsFollow, WaitsNow
<1>8. CASE Crash
  <2>1. rows' = [i \in DOMAIN rows |-> [rows[i] EXCEPT !.inflight = FALSE]]
    BY <1>8 DEF Crash
  <2>2. IsReset(rows, rows')
    BY <1>0, <2>1, NoneInFlight
  <2>3. \A k \in DOMAIN rows : Stays(k)
    BY <2>2 DEF IsReset, Stays, StaysIn, SameRow
  <2>. QED
    BY <1>8, <2>3 DEF RowsFollow, WaitsNow
<1>9. CASE StartDrain \/ EndDrain \/ GmailCreates \/ GmailUpdates \/ GmailDeletes
  BY <1>9 DEF StartDrain, EndDrain, GmailCreates, GmailUpdates, GmailDeletes, box, RowsFollow, Stays, StaysIn, SameRow, WaitsNow, Waits, Alike
<1>. QED
  BY <1>3, <1>4, <1>5, <1>6, <1>7, <1>8, <1>9 DEF Drain

LEMMA RowsMove ==
  ASSUME Known, Next, Grows
  PROVE  RowsFollow
<1>1. Beside \/ Drain \/ Crash
  BY DEF Next, Beside
<1>. QED
  BY <1>1, RowsMoveBeside, RowsMoveDrained

-----------------------------------------------------------------------------
(* Nothing the app made in Gmail is forgotten. *)

LEMMA StrayGrows ==
  ASSUME Next
  PROVE  stray \subseteq stray'
<1>. USE DEF history
<1>1. CASE User \/ Remote \/ Clock \/ Mirror \/ Sending
  BY <1>1 DEF User, Clock, Mirror, Sending, NewDraft, EditDraft, Discard, Detach, ReturnDraft, Remote,
              Age, GraceEnds, BecomeDue, Fire, QueueSend, RefuseSend, Release, GmailNew, GmailEdit, GmailDelete
<1>2. CASE List \/ Reconcile \/ ReconcileFails \/ Crash
  BY <1>2 DEF List, Reconcile, VisitUnchanged, VisitPush, VisitFetch, Fetched, Import, EndReconcile,
              ReconcileMisses, ReconcileFails, Crash
<1>3. CASE Drain
  BY <1>3 DEF Drain, StartDrain, SkipMoot, TakeNext, EndDrain, GmailCreates, GmailUpdates, GmailDeletes,
              Ack, FailRetry, FailTerminal, FailAuth
<1>. QED
  BY <1>1, <1>2, <1>3 DEF Next

LEMMA NoneForgottenStep ==
  ASSUME Known, NoneForgotten, Next, Grows
  PROVE  NoneForgotten'
<1>0. /\ Counted /\ DraftsKnown /\ RowsKnown /\ GmailKnown /\ SendsKnown /\ CallKnown /\ AnswerKnown
      /\ DraftsFollow /\ SendsFollow /\ RowsFollow /\ stray \subseteq stray'
  BY DraftsMove, SendsMove, RowsMove, StrayGrows DEF Known
<1>00. rows \in Seq(Row) /\ \A i \in DOMAIN rows : rows[i] \in Row
  BY <1>0, ElementOfSeq, LenProperties DEF RowsKnown, RowsOf
<1>. SUFFICES ASSUME NEW g \in DOMAIN gmail', g \notin stray' PROVE Held(g)'
  BY DEF NoneForgotten
<1>1. CASE GmailCreates
  <2>1. CASE g = lastGmail + 1
    BY <1>1, <2>1 DEF GmailCreates, Held
  <2>2. CASE g # lastGmail + 1
    <3>1. g \in DOMAIN gmail /\ Held(g) /\ UNCHANGED <<drafts, sends, rows>> /\ run = "call"
      BY <1>0, <1>1, <2>2 DEF GmailCreates, Writes, With, table, NoneForgotten
    <3>. QED
      BY <3>1 DEF Held
  <2>. QED
    BY <2>1, <2>2
<1>2. CASE ~GmailCreates
  <2>1. g \in DOMAIN gmail \ stray
    <3>1. CASE RemoteMove
      BY <1>0, <3>1 DEF RemoteMove, Theirs
    <3>2. CASE OwnMove
      BY <1>0, <1>2, <3>2 DEF OwnMove, GmailUpdates, GmailDeletes, Writes, With, Without, Restrict
    <3>. QED
      BY <3>1, <3>2, RemoteWrites
  <2>2. g # None /\ g \in 1 .. lastGmail
    BY <1>0, <2>1 DEF GmailKnown, None, Counted
  <2>3. ASSUME NEW d \in DOMAIN drafts, drafts[d].gid = g PROVE Held(g)'
    <3>1. CASE d \in DOMAIN drafts'
      <4>1. drafts'[d].gid = g
        <5>1. CASE Acked(d)
          <6>1. job.gid = g /\ answer.gid = job.gid
            BY <1>0, <2>2, <2>3, <5>1 DEF Acked, Ack, CallKnown, AnswerKnown, Calling, Here
          <6>. QED
            BY <5>1, <6>1 DEF Acked
        <5>2. CASE Imported(d)
          BY <1>0, <2>3, <5>2 DEF Imported
        <5>. QED
          BY <1>0, <2>3, <3>1, <5>1, <5>2 DEF DraftsFollow, Unmoved, Edited, Born
      <4>. QED
        BY <3>1, <4>1 DEF Held
    <3>2. CASE Discard(d)
      <4>. DEFINE q == DropAll(rows, {d})
      <4>1. rows' = EnqueueDelete(q, g)
        BY <2>3, <3>2 DEF Discard, DropUpserts
      <4>2. q \in Seq(Row)
        <5>1. IsDropped(rows, {d}, q)
          BY <1>0, <1>00, Dropping DEF RowsKnown, RowsOf
        <5>. HIDE DEF q
        <5>. QED
          BY <5>1 DEF IsDropped
      <4>. HIDE DEF q
      <4>3. IsDeleting(q, g, rows')
        BY <2>2, <4>1, <4>2, Deleting
      <4>4. \E k \in DOMAIN rows' : rows'[k].op = "delete" /\ rows'[k].gid = g
        BY <2>2, <4>2, <4>3, FollowDeleting
      <4>. QED
        BY <4>4 DEF Held
    <3>3. CASE Detach(d)
      <4>. DEFINE e == [status |-> "composing", text |-> drafts[d].text, gid |-> drafts[d].gid]
      <4>1. sends' = Append(sends, e) /\ e.gid = g /\ e.status = "composing" /\ e \in Send
        BY <1>0, <2>3, <3>3 DEF Detach, DraftsKnown, Draft, Send, SendStates
      <4>. HIDE DEF e
      <4>2. Len(sends) + 1 \in DOMAIN sends' /\ sends'[Len(sends) + 1] = e
        BY <1>0, <4>1, AppendProperties, LenProperties DEF SendsKnown
      <4>. QED
        BY <4>1, <4>2 DEF Held
    <3>4. ASSUME Ack, job.op = "upsert", answer.gone, d = job.draft PROVE FALSE
      BY <1>0, <2>1, <2>3, <3>4 DEF Ack, CallKnown, AnswerKnown, Calling, Here
    <3>. QED
      BY <1>0, <2>1, <2>3, <3>1, <3>2, <3>3, <3>4 DEF DraftsFollow, Gone
  <2>4. ASSUME NEW s \in DOMAIN sends, sends[s].gid = g, Leaves(s) PROVE Held(g)'
    <3>1. CASE Leaves(s)'
      BY <1>0, <2>4, <3>1 DEF Held, SendsFollow, Leaves
    <3>2. CASE RefuseSend(s)
      BY <2>2, <2>4, <3>2 DEF RefuseSend, Some
    <3>3. CASE Crash /\ sends[s].status = "composing"
      <4>1. g \in Some(sends[s].gid)
        BY <2>2, <2>4 DEF Some
      <4>. QED
        BY <3>3, <4>1 DEF Crash
    <3>4. CASE ReturnDraft(s)
      <4>1. drafts' = With(drafts, lastDraft + 1, Typed(sends[s].text, g, None))
        BY <2>4, <3>4 DEF ReturnDraft
      <4>2. lastDraft + 1 \in DOMAIN drafts' /\ drafts'[lastDraft + 1].gid = g
        BY <4>1 DEF With, Typed
      <4>. QED
        BY <4>2 DEF Held
    <3>5. CASE Release(s)
      <4>1. rows' = EnqueueDelete(rows, g)
        BY <2>4, <3>5 DEF Release
      <4>2. IsDeleting(rows, g, rows')
        BY <1>00, <2>2, <4>1, Deleting
      <4>3. \E k \in DOMAIN rows' : rows'[k].op = "delete" /\ rows'[k].gid = g
        BY <1>00, <2>2, <4>2, FollowDeleting
      <4>. QED
        BY <4>3 DEF Held
    <3>6. Leaves(s)' \/ SendEnds(s)
      BY <1>0, <2>4 DEF SendsFollow
    <3>. QED
      BY <3>1, <3>2, <3>3, <3>4, <3>5, <3>6 DEF SendEnds
  <2>5. ASSUME NEW i \in DOMAIN rows, rows[i].op = "delete", rows[i].gid = g PROVE Held(g)'
    <3>1. CASE Stays(i)
      BY <2>5, <3>1 DEF Stays, StaysIn, SameRow, Held
    <3>2. CASE i = 1 /\ Ack
      BY <1>0, <2>1, <2>5, <3>2 DEF Ack, CallKnown, AnswerKnown, Calling
    <3>3. CASE i = 1 /\ (FailTerminal \/ FailAuth)
      <4>1. job.op = "delete" /\ job.gid = g
        BY <1>0, <2>5, <3>3 DEF FailTerminal, FailAuth, CallKnown, Calling
      <4>. QED
        BY <3>3, <4>1 DEF FailTerminal, FailAuth, Undeleted
    <3>4. CASE i = 1 /\ SkipMoot
      BY <2>5, <3>4 DEF SkipMoot, HeadIsMoot
    <3>. QED
      BY <1>0, <2>5, <3>1, <3>2, <3>3, <3>4 DEF RowsFollow, Popped, Dropped
  <2>6. ASSUME run = "applied", job.op = "upsert", job.gid = None, answer.gid = g PROVE Held(g)'
    <3>1. CASE Beside
      <4>1. UNCHANGED <<job, answer>> /\ (Calling' <=> Calling)
        BY <3>1, CallBeside
      <4>2. run' = "applied"
        BY <2>6, <3>1 DEF Beside, User, Clock, Mirror, Sending, NewDraft, EditDraft, Discard, Detach, ReturnDraft, Remote,
           Age, GraceEnds, BecomeDue, Fire, QueueSend, RefuseSend, Release, GmailNew, GmailEdit, GmailDelete,
           List, Reconcile, VisitUnchanged, VisitPush, VisitFetch, Fetched, Import, EndReconcile,
           ReconcileMisses, ReconcileFails
      <4>. QED
        BY <2>6, <4>1, <4>2 DEF Held
    <3>2. CASE Ack
      <4>1. ~answer.gone
        BY <1>0, <2>2, <2>6 DEF AnswerKnown
      <4>2. CASE Here(job.draft)
        <5>1. /\ DOMAIN drafts' = DOMAIN drafts /\ job.draft \in DOMAIN drafts
              /\ drafts' = [drafts EXCEPT ![job.draft].gid = answer.gid, ![job.draft].rev = Recorded,
                                       ![job.draft].state = StateAfter(Tail(rows), job.draft)]
              /\ drafts[job.draft] \in Draft
          BY <1>0, <2>6, <3>2, <4>1, <4>2 DEF Ack, Here, DraftsKnown
        <5>2. drafts'[job.draft].gid = g
          BY <2>6, <5>1 DEF Draft
        <5>. QED
          BY <5>1, <5>2 DEF Held
      <4>3. CASE ~Here(job.draft)
        <5>. DEFINE q == Tail(rows)
        <5>1. rows' = EnqueueDelete(q, g)
          BY <2>6, <3>2, <4>1, <4>3 DEF Ack, Orphan
        <5>2. q \in Seq(Row)
          <6>1. 1 \in DOMAIN rows
            BY <1>0, <2>6 DEF CallKnown, Calling, InFlight
          <6>2. IsTail(rows, q)
            BY <1>00, <6>1, FirstLeft
          <6>. HIDE DEF q
          <6>. QED
            BY <6>2 DEF IsTail
        <5>. HIDE DEF q
        <5>3. IsDeleting(q, g, rows')
          BY <2>2, <5>1, <5>2, Deleting
        <5>4. \E k \in DOMAIN rows' : rows'[k].op = "delete" /\ rows'[k].gid = g
          BY <2>2, <5>2, <5>3, FollowDeleting
        <5>. QED
          BY <5>4 DEF Held
      <4>. QED
        BY <4>2, <4>3
    <3>3. CASE FailRetry \/ Crash
      BY <2>6, <3>3 DEF FailRetry, Crash, Unanswered
    <3>4. CASE Drain /\ ~Ack /\ ~FailRetry
      BY <2>6, <3>4 DEF Drain, StartDrain, SkipMoot, TakeNext, EndDrain, GmailCreates, GmailUpdates, GmailDeletes,
                        FailTerminal, FailAuth
    <3>. QED
      BY <3>1, <3>2, <3>3, <3>4 DEF Next, Beside
  <2>7. Held(g)
    BY <2>1 DEF NoneForgotten
  <2>. QED
    BY <2>3, <2>4, <2>5, <2>6, <2>7 DEF Held, Leaves
<1>. QED
  BY <1>1, <1>2

-----------------------------------------------------------------------------
(* A Gmail draft is tied once. *)

(* Where the tie of a draft comes from. *)
Old(d) == d \in DOMAIN drafts /\ drafts[d].gid = drafts'[d].gid
TiedByAnswer(d) ==
  Ack /\ d = job.draft /\ job.op = "upsert" /\ job.gid = None /\ drafts'[d].gid = answer.gid
TiedByImport(d) ==
  /\ Import /\ d = lastDraft + 1 /\ drafts'[d].gid = seen.at
  /\ \A e \in DOMAIN drafts : drafts[e].gid # seen.at
TiedByReturn(d) ==
  d = lastDraft + 1 /\ \E s \in DOMAIN sends : ReturnDraft(s) /\ drafts'[d].gid = sends[s].gid

LEMMA TieOrigin ==
  ASSUME Known, Next, NEW d \in DOMAIN drafts', drafts'[d].gid # None
  PROVE  Old(d) \/ TiedByAnswer(d) \/ TiedByImport(d) \/ TiedByReturn(d)
<1>0. DraftsFollow /\ CallKnown /\ AnswerKnown
  BY DraftsMove DEF Known
<1>1. CASE Acked(d)
  <2>1. CASE job.gid = None
    BY <1>1, <2>1 DEF Acked, TiedByAnswer
  <2>2. CASE job.gid # None
    BY <1>0, <1>1, <2>2 DEF Acked, Ack, CallKnown, AnswerKnown, Calling, Here, Old
  <2>. QED
    BY <2>1, <2>2
<1>2. CASE Imported(d)
  BY <1>2 DEF Imported, Old, TiedByImport
<1>3. CASE Born(d)
  BY <1>3 DEF Born, TiedByReturn
<1>. QED
  BY <1>0, <1>1, <1>2, <1>3 DEF DraftsFollow, Unmoved, Edited, Old

LEMMA SentAndListedStays ==
  ASSUME Known, Next, Grows, ~SentAndListed'
  PROVE  ~SentAndListed /\ (sends' = <<>> => sends = <<>>) /\ (lists' = 0 => lists = 0)
<1>0. SendsFollow /\ Counted /\ Counted' /\ lists <= lists' /\ sends \in Seq(Send) /\ sends' \in Seq(Send)
  BY SendsMove DEF Known, SendsKnown, Grows, SendsFollow
<1>1. sends' = <<>> => sends = <<>>
  <2>. SUFFICES ASSUME sends # <<>>, sends' = <<>> PROVE FALSE
    OBVIOUS
  <2>1. 1 \in DOMAIN sends
    BY <1>0, EmptySeq, LenProperties
  <2>2. 1 \in DOMAIN sends'
    BY <1>0, <2>1 DEF SendsFollow
  <2>. QED
    BY <2>2
<1>. QED
  BY <1>0, <1>1 DEF SentAndListed, Counted

LEMMA TiedOnceStep ==
  ASSUME Known, TiedOnce, Next, Grows
  PROVE  TiedOnce'
<1>0. /\ Counted /\ DraftsKnown /\ SendsKnown /\ SeenKnown /\ AnswerKnown /\ CallKnown
      /\ DraftsFollow /\ SendsFollow
  BY DraftsMove, SendsMove DEF Known
<1>. SUFFICES ASSUME ~SentAndListed' PROVE TiedOnce'
  BY DEF TiedOnce
<1>1. /\ \A d, e \in Tied(drafts) : drafts[d].gid = drafts[e].gid => d = e
      /\ \A d \in Tied(drafts), s \in DOMAIN sends : Leaves(s) => sends[s].gid # drafts[d].gid
      /\ \A s, r \in DOMAIN sends :
           Leaves(s) /\ Leaves(r) /\ sends[s].gid # None /\ sends[s].gid = sends[r].gid => s = r
  BY SentAndListedStays DEF TiedOnce
<1>2. \A d \in DOMAIN drafts : d # lastDraft + 1
  BY <1>0 DEF DraftsKnown, Counted
<1>3. \A d \in DOMAIN drafts' : drafts'[d].gid # None =>
         Old(d) \/ TiedByAnswer(d) \/ TiedByImport(d) \/ TiedByReturn(d)
  BY TieOrigin
<1>4. \A d : Old(d) /\ drafts'[d].gid # None => d \in Tied(drafts)
  BY DEF Old, Tied
<1>5. ASSUME NEW d, TiedByAnswer(d)
      PROVE  /\ \A e \in DOMAIN drafts : drafts[e].gid # drafts'[d].gid
             /\ \A s \in DOMAIN sends : sends[s].gid # drafts'[d].gid
  BY <1>0, <1>5 DEF TiedByAnswer, AnswerKnown, Ack
<1>6. ASSUME NEW s \in DOMAIN sends' PROVE ~Import
  <2>1. Import => lists > 0 /\ lists' = lists
    BY <1>0 DEF Import, SeenKnown, Visiting
  <2>2. sends' # <<>>
    BY <1>6
  <2>. QED
    BY <1>0, <2>1, <2>2 DEF SentAndListed, Counted
<1>7. /\ ~(Ack /\ Import)
      /\ \A s : ~(Ack /\ ReturnDraft(s)) /\ ~(Import /\ ReturnDraft(s))
      /\ \A s : ~(Ack /\ Detach(s)) /\ ~(Import /\ Detach(s))
  BY DEF Ack, Import, ReturnDraft, Detach
<1>8. \A s, d : ~(ReturnDraft(s) /\ Detach(d))
  <2>. SUFFICES ASSUME NEW s, NEW d, ReturnDraft(s), Detach(d) PROVE FALSE
    OBVIOUS
  <2>1. lastDraft' = lastDraft + 1 /\ lastDraft' = lastDraft
    BY DEF ReturnDraft, Detach, counters
  <2>. QED
    BY <1>0, <2>1 DEF Counted
<1>9. \A s \in DOMAIN sends' : s \in DOMAIN sends => sends'[s].gid = sends[s].gid /\ (Leaves(s)' => Leaves(s))
  BY <1>0 DEF SendsFollow
<1>10. \A s \in DOMAIN sends' : s \in DOMAIN sends \/ IsSent(s)
  BY <1>0 DEF SendsFollow
<1>11. ASSUME NEW s \in DOMAIN sends, ReturnDraft(s) PROVE Leaves(s) /\ ~Leaves(s)'
  <2>1. sends[s] \in Send
    BY <1>0, ElementOfSeq, LenProperties DEF SendsKnown
  <2>2. sends[s].status = "queued" /\ sends' = [sends EXCEPT ![s] = [sends[s] EXCEPT !.status = "returned"]]
    BY <1>11 DEF ReturnDraft
  <2>. QED
    BY <2>1, <2>2 DEF Leaves, Send
<1>12. ASSUME NEW d \in Tied(drafts'), NEW e \in Tied(drafts'), drafts'[d].gid = drafts'[e].gid PROVE d = e
  <2>0. d \in DOMAIN drafts' /\ e \in DOMAIN drafts' /\ drafts'[d].gid # None /\ drafts'[e].gid # None
    BY <1>12 DEF Tied
  <2>1. ASSUME NEW x \in Tied(drafts'), NEW y \in Tied(drafts'), drafts'[x].gid = drafts'[y].gid,
               Old(x), TiedByAnswer(y) \/ TiedByImport(y) \/ TiedByReturn(y)
        PROVE  FALSE
    <3>1. x \in Tied(drafts) /\ drafts[x].gid = drafts'[y].gid /\ x \in DOMAIN drafts
      BY <1>4, <2>1 DEF Tied, Old
    <3>2. CASE TiedByAnswer(y)
      BY <1>5, <3>1, <3>2
    <3>3. CASE TiedByImport(y)
      BY <3>1, <3>3 DEF TiedByImport
    <3>4. CASE TiedByReturn(y)
      BY <1>1, <1>11, <3>1, <3>4 DEF TiedByReturn
    <3>. QED
      BY <2>1, <3>2, <3>3, <3>4
  <2>2. CASE Old(d) /\ Old(e)
    BY <1>1, <1>4, <1>12, <2>0, <2>2 DEF Old
  <2>3. CASE ~Old(d) /\ ~Old(e)
    BY <1>3, <1>7, <2>0, <2>3 DEF TiedByAnswer, TiedByImport, TiedByReturn
  <2>. QED
    BY <1>3, <1>12, <2>0, <2>1, <2>2, <2>3
<1>13. ASSUME NEW d \in Tied(drafts'), NEW s \in DOMAIN sends', Leaves(s)' PROVE sends'[s].gid # drafts'[d].gid
  <2>0. d \in DOMAIN drafts' /\ drafts'[d].gid # None
    BY DEF Tied
  <2>1. CASE s \in DOMAIN sends
    <3>1. sends'[s].gid = sends[s].gid /\ Leaves(s)
      BY <1>9, <1>13, <2>1
    <3>2. CASE Old(d)
      BY <1>1, <1>4, <2>0, <2>1, <3>1, <3>2 DEF Old
    <3>3. CASE TiedByAnswer(d)
      BY <1>5, <2>1, <3>1, <3>3
    <3>4. CASE TiedByImport(d)
      BY <1>6, <3>4 DEF TiedByImport
    <3>5. CASE TiedByReturn(d)
      <4>1. PICK r \in DOMAIN sends : ReturnDraft(r) /\ drafts'[d].gid = sends[r].gid
        BY <3>5 DEF TiedByReturn
      <4>2. Leaves(r) /\ ~Leaves(r)'
        BY <1>11, <4>1
      <4>. QED
        BY <1>1, <1>13, <2>0, <2>1, <3>1, <4>1, <4>2
    <3>. QED
      BY <1>3, <2>0, <3>2, <3>3, <3>4, <3>5
  <2>2. CASE IsSent(s)
    <3>1. PICK e \in DOMAIN drafts : Detach(e) /\ sends'[s].gid = drafts[e].gid
      BY <2>2 DEF IsSent
    <3>2. Old(d)
      BY <1>3, <1>7, <1>8, <2>0, <3>1 DEF TiedByAnswer, TiedByImport, TiedByReturn
    <3>3. d # e
      BY <2>0, <3>1 DEF Detach, Without, Restrict
    <3>. QED
      BY <1>1, <1>4, <2>0, <3>1, <3>2, <3>3 DEF Old, Tied
  <2>. QED
    BY <1>10, <2>1, <2>2
<1>14. ASSUME NEW s \in DOMAIN sends', NEW r \in DOMAIN sends', Leaves(s)', Leaves(r)',
              sends'[s].gid # None, sends'[s].gid = sends'[r].gid
       PROVE  s = r
  <2>1. ASSUME NEW x \in DOMAIN sends', NEW y \in DOMAIN sends', Leaves(x)', x \in DOMAIN sends, IsSent(y),
               sends'[x].gid # None, sends'[x].gid = sends'[y].gid
        PROVE  FALSE
    <3>1. PICK e \in DOMAIN drafts : sends'[y].gid = drafts[e].gid
      BY <2>1 DEF IsSent
    <3>2. e \in Tied(drafts) /\ sends[x].gid = drafts[e].gid /\ Leaves(x)
      BY <1>9, <2>1, <3>1 DEF Tied
    <3>. QED
      BY <1>1, <2>1, <3>2
  <2>2. CASE s \in DOMAIN sends /\ r \in DOMAIN sends
    BY <1>1, <1>9, <1>14, <2>2
  <2>3. CASE IsSent(s) /\ IsSent(r)
    BY <2>3 DEF IsSent
  <2>. QED
    BY <1>10, <1>14, <2>1, <2>2, <2>3
<1>. QED
  BY <1>12, <1>13, <1>14 DEF TiedOnce

-----------------------------------------------------------------------------
(* What a step of each actor leaves alone. *)

Elsewhere == User \/ Remote \/ Clock \/ Mirror \/ Sending

LEMMA ElsewhereLeaves ==
  ASSUME Elsewhere
  PROVE  UNCHANGED <<run, seen, todo, lists, job, answer>>
BY DEF Elsewhere, User, Remote, Clock, Mirror, Sending, NewDraft, EditDraft, Discard, Detach, ReturnDraft,
       Age, GraceEnds, BecomeDue, Fire, QueueSend, RefuseSend, Release, GmailNew, GmailEdit, GmailDelete,
       reconcile, box

(* A reconcile goes on, fetches, imports, or is over. *)
GoesOn ==
  /\ Visiting /\ UNCHANGED <<run, seen, lists>> /\ todo' \subseteq todo
  /\ Elsewhere \/ (run = "visit" /\ \E g \in todo : VisitUnchanged(g) \/ VisitPush(g))

LEMMA SeenMoves ==
  ASSUME Next, Visiting'
  PROVE  List \/ GoesOn \/ (\E g \in todo : VisitFetch(g)) \/ Fetched \/ Import
<1>1. CASE Elsewhere
  BY <1>1, ElsewhereLeaves DEF GoesOn, Visiting
<1>2. CASE Drain \/ Crash \/ ReconcileFails \/ EndReconcile \/ ReconcileMisses
  BY <1>2 DEF Visiting, Drain, StartDrain, SkipMoot, TakeNext, EndDrain, GmailCreates, GmailUpdates, GmailDeletes,
              Ack, FailRetry, FailTerminal, FailAuth, Crash, ReconcileFails, EndReconcile, ReconcileMisses,
              ReconcileOver
<1>3. ASSUME NEW g \in todo, VisitUnchanged(g) \/ VisitPush(g) PROVE GoesOn
  <2>1. Visiting /\ UNCHANGED <<run, seen, lists>> /\ todo' \subseteq todo /\ run = "visit"
    BY <1>3 DEF Visiting, VisitUnchanged, VisitPush
  <2>. QED
    BY <1>3, <2>1 DEF GoesOn
<1>. QED
  BY <1>1, <1>2, <1>3 DEF Next, Elsewhere, Reconcile

(* A call goes on, or is answered, or is over. *)
LEMMA CallMoves ==
  ASSUME Known, Next, Calling
  PROVE  /\ \/ Calling' /\ job' = job
            \/ ~Calling' /\ (Ack \/ FailRetry \/ FailTerminal \/ FailAuth \/ Crash)
         /\ ~Import /\ ~List /\ ~Fetched /\ ~TakeNext /\ ~SkipMoot
         /\ \A g : ~VisitPush(g)
         /\ run = "applied" => (run' = "applied" /\ answer' = answer) \/ Ack \/ FailRetry \/ Crash
<1>1. CASE Elsewhere
  BY <1>1, ElsewhereLeaves DEF Calling, Ack, Import, List, Fetched, TakeNext, SkipMoot, VisitPush
<1>2. CASE Drain
  BY <1>2 DEF Calling, Drain, StartDrain, SkipMoot, TakeNext, EndDrain, GmailCreates, GmailUpdates, GmailDeletes,
              Ack, FailRetry, FailTerminal, FailAuth, Import, List, Fetched, VisitPush
<1>3. CASE List \/ Reconcile \/ ReconcileFails
  BY <1>3 DEF Calling, List, Reconcile, VisitUnchanged, VisitPush, VisitFetch, Fetched, Import, EndReconcile,
              ReconcileMisses, ReconcileFails
<1>4. CASE Crash
  BY <1>4 DEF Calling, Crash, ReconcileOver, Import, List, Fetched, TakeNext, SkipMoot, VisitPush
<1>. QED
  BY <1>1, <1>2, <1>3, <1>4 DEF Next, Elsewhere

(* Where a call under way comes from. *)
LEMMA CallFrom ==
  ASSUME Next, Calling'
  PROVE  TakeNext \/ (Calling /\ job' = job)
<1>1. CASE Elsewhere
  BY <1>1, ElsewhereLeaves DEF Calling
<1>2. CASE Drain
  BY <1>2 DEF Calling, Drain, StartDrain, SkipMoot, TakeNext, EndDrain, GmailCreates, GmailUpdates, GmailDeletes,
              Ack, FailRetry, FailTerminal, FailAuth
<1>3. CASE List \/ Reconcile \/ ReconcileFails \/ Crash
  BY <1>3 DEF Calling, List, Reconcile, VisitUnchanged, VisitPush, VisitFetch, Fetched, Import, EndReconcile,
              ReconcileMisses, ReconcileFails, ReconcileOver, Crash
<1>. QED
  BY <1>1, <1>2, <1>3 DEF Next, Elsewhere

(* A debounce runs until it fires, its draft goes, or the process dies. *)
LEMMA ArmedStays ==
  ASSUME Next, NEW d \in armed
  PROVE  d \in armed' \/ Fire(d) \/ d \notin DOMAIN drafts' \/ Crash
<1>1. ASSUME NEW e, Discard(e) \/ Detach(e) PROVE d \in armed' \/ d \notin DOMAIN drafts'
  BY <1>1 DEF Discard, Detach, Without, Restrict
<1>2. ASSUME NEW e \in armed, Fire(e) PROVE d \in armed' \/ Fire(d)
  BY <1>2 DEF Fire
<1>3. CASE NewDraft \/ \E e \in DOMAIN drafts : EditDraft(e)
  BY <1>3 DEF NewDraft, EditDraft
<1>4. CASE (\E s \in DOMAIN sends : ReturnDraft(s)) \/ Remote \/ Clock \/ Sending
  BY <1>4 DEF ReturnDraft, Remote, GmailNew, GmailEdit, GmailDelete, Clock, Age, GraceEnds, BecomeDue,
              Sending, QueueSend, RefuseSend, Release, table
<1>5. CASE List \/ Reconcile \/ ReconcileFails
  BY <1>5 DEF List, Reconcile, VisitUnchanged, VisitPush, VisitFetch, Fetched, Import, EndReconcile,
              ReconcileMisses, ReconcileFails, table
<1>6. CASE Drain
  BY <1>6 DEF Drain, StartDrain, SkipMoot, TakeNext, EndDrain, GmailCreates, GmailUpdates, GmailDeletes,
              Ack, FailRetry, FailTerminal, FailAuth, table
<1>. QED
  BY <1>1, <1>2, <1>3, <1>4, <1>5, <1>6 DEF Next, User, Mirror

(* The faults are remembered. *)
LEMMA FaultsStay ==
  ASSUME Counted, Next
  PROVE  /\ \A k : Happened(k) => Happened(k)'
         /\ FailRetry \/ ReconcileFails => Happened("error")'
         /\ Crash => Happened("crash")'
         /\ FailAuth => Happened("auth")'
<1>1. ASSUME NEW k, Fault(k) PROVE Happened(k)' /\ \A l : Happened(l) => Happened(l)'
  <2>1. faults \in Seq(Faults) /\ k \in Faults /\ faults' = Append(faults, k)
    BY <1>1 DEF Counted, Fault
  <2>2. /\ DOMAIN faults = 1 .. Len(faults) /\ Len(faults) \in Nat
        /\ DOMAIN faults' = 1 .. Len(faults) + 1
        /\ \A i \in 1 .. Len(faults) : faults'[i] = faults[i]
        /\ faults'[Len(faults) + 1] = k
    BY <2>1, AppendProperties, LenProperties
  <2>3. Len(faults) + 1 \in DOMAIN faults' /\ DOMAIN faults \subseteq DOMAIN faults'
    BY <2>2
  <2>. QED
    BY <2>2, <2>3 DEF Happened, ToSet
<1>2. ASSUME faults' = faults PROVE \A l : Happened(l) => Happened(l)'
  BY <1>2 DEF Happened
<1>3. (\E k : Fault(k)) \/ faults' = faults
  <2>1. CASE Elsewhere
    BY <2>1 DEF Elsewhere, User, Remote, Clock, Mirror, Sending, NewDraft, EditDraft, Discard, Detach, ReturnDraft,
       Age, GraceEnds, BecomeDue, Fire, QueueSend, RefuseSend, Release, GmailNew, GmailEdit, GmailDelete
  <2>2. CASE List \/ Reconcile \/ ReconcileFails \/ Crash
    BY <2>2 DEF List, Reconcile, VisitUnchanged, VisitPush, VisitFetch, Fetched, Import, EndReconcile,
                ReconcileMisses, ReconcileFails, Crash
  <2>3. CASE Drain
    BY <2>3 DEF Drain, StartDrain, SkipMoot, TakeNext, EndDrain, GmailCreates, GmailUpdates, GmailDeletes,
                Ack, FailRetry, FailTerminal, FailAuth
  <2>. QED
    BY <2>1, <2>2, <2>3 DEF Next, Elsewhere
<1>4. \A k : Happened(k) => Happened(k)'
  BY <1>1, <1>2, <1>3
<1>5. FailRetry \/ ReconcileFails => Happened("error")'
  BY <1>1 DEF FailRetry, ReconcileFails
<1>6. Crash => Happened("crash")'
  BY <1>1 DEF Crash
<1>7. FailAuth => Happened("auth")'
  BY <1>1 DEF FailAuth
<1>. QED
  BY <1>4, <1>5, <1>6, <1>7

LEMMA CalmStays ==
  ASSUME Known, Next, Grows, Calm'
  PROVE  Calm /\ ~FailRetry /\ ~Crash /\ ~ReconcileFails
<1>1. Counted
  BY DEF Known
<1>. QED
  BY <1>1, FaultsStay, SentAndListedStays DEF Calm

(* What an answer, an import and a failure do to the draft they are about. *)
LEMMA AckMoves ==
  ASSUME Known, Ack, job.op = "upsert", Here(job.draft), job.draft \in DOMAIN drafts'
  PROVE  Acked(job.draft)
<1>. DEFINE d == job.draft
            r == [drafts[d] EXCEPT !.gid = answer.gid, !.rev = answer.rev, !.state = StateAfter(Tail(rows), d)]
<1>0. d \in DOMAIN drafts /\ drafts[d] \in Draft
  BY DEF Known, DraftsKnown, Here
<1>1. ~answer.gone
  BY DEF Ack, Without, Restrict
<1>2. drafts' = [drafts EXCEPT ![d].gid = answer.gid, ![d].rev = answer.rev,
                               ![d].state = StateAfter(Tail(rows), d)] /\ rows' = Tail(rows)
  BY <1>1 DEF Ack, Recorded
<1>3. drafts'[d] = r
  BY <1>0, <1>2 DEF Draft
<1>4. r.gid = answer.gid /\ r.rev = answer.rev /\ r.text = drafts[d].text /\ r.state = StateAfter(Tail(rows), d)
  BY <1>0 DEF Draft
<1>. HIDE DEF r
<1>. QED
  BY <1>0, <1>1, <1>2, <1>3, <1>4 DEF Acked

LEMMA FailMoves ==
  ASSUME Known, FailRetry \/ FailAuth \/ FailTerminal, Here(job.draft)
  PROVE  /\ drafts'[job.draft].state \in {"pending", "failed"}
         /\ FailTerminal => drafts'[job.draft].state = "failed"
<1>0. job.draft \in DOMAIN drafts /\ drafts[job.draft] \in Draft
  BY DEF Known, DraftsKnown, Here
<1>1. ASSUME NEW x, MirrorState(job.draft, x) PROVE drafts'[job.draft].state = x
  BY <1>0, <1>1 DEF MirrorState, Draft
<1>2. CASE FailRetry
  BY <1>1, <1>2 DEF FailRetry, FailTerminal
<1>3. CASE FailAuth \/ FailTerminal
  <2>1. ~(FailAuth /\ FailTerminal)
    BY DEF FailAuth, FailTerminal
  <2>. QED
    BY <1>1, <1>3, <2>1 DEF FailAuth, FailTerminal
<1>. QED
  BY <1>2, <1>3

-----------------------------------------------------------------------------
(* The drafts the list knew. *)

LEMMA SeenIsTiedStep ==
  ASSUME Known, SeenIsTied, Next, Grows
  PROVE  SeenIsTied'
<1>0. DraftsFollow /\ SeenKnown /\ DraftsKnown /\ Counted
  BY DraftsMove DEF Known
<1>. SUFFICES ASSUME Visiting', NEW d \in DOMAIN seen'.drafts, d \in DOMAIN drafts'
              PROVE  drafts'[d].gid = seen'.drafts[d].gid
  BY DEF SeenIsTied, Here
<1>1. CASE List
  <2>1. /\ seen'.drafts = [e \in Tied(drafts) |-> AsListed(drafts[e])]
        /\ drafts'[d] = drafts[d]
    BY <1>1 DEF List, NoSeen, Restrict
  <2>. QED
    BY <2>1 DEF AsListed
<1>2. CASE ~List
  <2>1. /\ Visiting /\ seen'.drafts = seen.drafts /\ run # "applied"
    BY <1>0, <1>2, SeenMoves DEF GoesOn, VisitFetch, Fetched, Import, Visiting, SeenKnown
  <2>2. d \in 1 .. lastDraft /\ d # lastDraft + 1
    BY <1>0, <2>1 DEF SeenKnown, Counted
  <2>3. d \in DOMAIN drafts => drafts[d].gid = seen.drafts[d].gid
    BY <2>1 DEF SeenIsTied, Here
  <2>4. d \in DOMAIN drafts /\ drafts'[d].gid = drafts[d].gid
    BY <1>0, <2>1, <2>2 DEF DraftsFollow, Unmoved, Edited, Acked, Ack, Imported, Born
  <2>. QED
    BY <2>1, <2>3, <2>4
<1>. QED
  BY <1>1, <1>2

LEMMA SeenIsFirstStep ==
  ASSUME Known, TiedOnce, SeenIsFirst, Next, Grows
  PROVE  SeenIsFirst'
<1>0. /\ DraftsFollow /\ SeenKnown /\ DraftsKnown /\ Counted /\ SendsFollow /\ Counted'
      /\ sends \in Seq(Send) /\ sends' \in Seq(Send)
  BY DraftsMove, SendsMove DEF Known, SendsKnown, SendsFollow, Grows
<1>. SUFFICES ASSUME Visiting', ~Overlapped', NEW d \in DOMAIN seen'.drafts, NEW e \in DOMAIN drafts',
                     drafts'[e].gid = seen'.drafts[d].gid, d \in DOMAIN drafts'
              PROVE  d <= e
  BY DEF SeenIsFirst, Here
<1>1. CASE List
  <2>1. /\ seen'.drafts = [x \in Tied(drafts) |-> AsListed(drafts[x])]
        /\ drafts'[d] = drafts[d] /\ drafts'[e] = drafts[e] /\ e \in DOMAIN drafts
        /\ lists' = lists + 1 /\ sends' = sends
    BY <1>1 DEF List, NoSeen, Restrict
  <2>2. d \in Tied(drafts) /\ drafts[e].gid = drafts[d].gid /\ e \in Tied(drafts)
    BY <2>1 DEF AsListed, Tied
  <2>3. ~SentAndListed
    BY <1>0, <2>1 DEF Overlapped, SentAndListed, Counted
  <2>4. d = e /\ d \in Nat
    BY <1>0, <2>2, <2>3 DEF TiedOnce, Tied, DraftsKnown, Counted
  <2>. QED
    BY <2>4
<1>2. CASE ~List
  <2>1. /\ Visiting /\ seen'.drafts = seen.drafts /\ run # "applied" /\ lists' = lists
    BY <1>0, <1>2, SeenMoves DEF GoesOn, VisitFetch, Fetched, Import, Visiting, SeenKnown
  <2>2. d \in 1 .. lastDraft /\ d # lastDraft + 1 /\ d <= lastDraft + 1 /\ seen.drafts[d].gid # None
    BY <1>0, <2>1 DEF SeenKnown, Counted
  <2>3. d \in DOMAIN drafts
    BY <1>0, <2>1, <2>2 DEF DraftsFollow, Unmoved, Edited, Acked, Imported, Born
  <2>4. sends' = <<>> => sends = <<>>
    <3>. SUFFICES ASSUME sends # <<>>, sends' = <<>> PROVE FALSE
      OBVIOUS
    <3>1. 1 \in DOMAIN sends
      BY <1>0, EmptySeq, LenProperties
    <3>2. 1 \in DOMAIN sends'
      BY <1>0, <3>1 DEF SendsFollow
    <3>. QED
      BY <3>2
  <2>5. ~Overlapped
    BY <2>1, <2>4 DEF Overlapped
  <2>6. Old(e) \/ e = lastDraft + 1
    BY <2>1, <2>2, TieOrigin DEF TiedByAnswer, TiedByImport, TiedByReturn, Ack
  <2>. QED
    BY <2>1, <2>2, <2>3, <2>5, <2>6 DEF Old, SeenIsFirst, Here
<1>. QED
  BY <1>1, <1>2

(* The draft the reconcile is at is the one its import goes to. *)
LEMMA ImportHits ==
  ASSUME Known, SeenIsTied, SeenIsFirst, Visiting, ~Overlapped,
         NEW d \in DOMAIN drafts, LocalOf(seen.at) = d
  PROVE  RowFor(seen.at) = d
<1>0. SeenKnown /\ DraftsKnown /\ Counted
  BY DEF Known
<1>. DEFINE ds == {e \in DOMAIN seen.drafts : seen.drafts[e].gid = seen.at}
<1>1. d \in ds
  <2>1. d # None /\ ds \in SUBSET (0 .. lastDraft) /\ lastDraft \in Nat
    BY <1>0 DEF DraftsKnown, SeenKnown, Counted, None
  <2>2. ds # {} /\ d = Max(ds)
    BY <2>1 DEF LocalOf
  <2>. HIDE DEF ds
  <2>. QED
    BY <2>1, <2>2, MaxIsIn
<1>2. drafts[d].gid = seen.at /\ d \in DOMAIN seen.drafts /\ seen.drafts[d].gid = seen.at
  BY <1>1 DEF SeenIsTied, Here
<1>3. \A e \in DOMAIN drafts : drafts[e].gid = seen.at => d <= e
  BY <1>2 DEF SeenIsFirst, Here
<1>4. RowFor(seen.at) \in DOMAIN drafts /\ drafts[RowFor(seen.at)].gid = seen.at /\ RowFor(seen.at) <= d
  BY <1>0, <1>2, RowForIs
<1>5. RowFor(seen.at) \in Nat /\ d \in Nat /\ d <= RowFor(seen.at)
  BY <1>0, <1>3, <1>4 DEF DraftsKnown, Counted
<1>. QED
  BY <1>4, <1>5

(* A row of a draft that is open stays so, but for what ends it. *)
LEMMA RowStays ==
  ASSUME Known, Next, Grows, NEW d \in DOMAIN drafts, d \in DOMAIN drafts', HasOpenUpsert(rows, d)
  PROVE  \/ HasOpenUpsert(rows', d)
         \/ Ack /\ job.op = "upsert" /\ job.draft = d
         \/ FailTerminal /\ job.draft = d
         \/ FailAuth
         \/ Fetched /\ d = LocalOf(seen.at)
<1>0. RowsFollow /\ CallKnown
  BY RowsMove DEF Known
<1>1. PICK i \in DOMAIN rows : rows[i].op = "upsert" /\ rows[i].draft = d
  BY DEF HasOpenUpsert, IsUpsert
<1>2. CASE Stays(i)
  BY <1>1, <1>2 DEF Stays, StaysIn, SameRow, HasOpenUpsert, IsUpsert
<1>3. CASE Popped(i)
  <2>1. ~SkipMoot
    BY <1>1, <1>3 DEF Popped, SkipMoot, HeadIsMoot, Here
  <2>2. Ack \/ FailTerminal => job.op = "upsert" /\ job.draft = d
    BY <1>0, <1>1, <1>3 DEF Popped, Ack, FailTerminal, CallKnown, Calling
  <2>. QED
    BY <1>3, <2>1, <2>2 DEF Popped
<1>4. CASE Dropped(i)
  BY <1>1, <1>4 DEF Dropped
<1>. QED
  BY <1>0, <1>2, <1>3, <1>4 DEF RowsFollow

(* What queues a mirror leaves one. *)
LEMMA FireQueues ==
  ASSUME Known, NEW d \in DOMAIN drafts, Fire(d) \/ \E g \in todo : VisitPush(g) /\ d = LocalOf(g)
  PROVE  \E k \in DOMAIN rows' : IsUpsert(rows'[k], d) /\ ~rows'[k].inflight /\ rows'[k].text = drafts[d].text
<1>1. rows \in Seq(Row) /\ d \in Nat /\ drafts[d].text \in Nat
  BY DEF Known, RowsKnown, RowsOf, DraftsKnown, Draft, Counted
<1>2. rows' = EnqueueUpsert(rows, d, drafts[d].text)
  BY DEF Fire, VisitPush, Here
<1>3. IsQueued(rows, d, drafts[d].text, rows')
  BY <1>1, <1>2, Queued
<1>. QED
  BY <1>3 DEF IsQueued

LEMMA ReturnQueues ==
  ASSUME Known, NEW s \in DOMAIN sends, ReturnDraft(s)
  PROVE  \E k \in DOMAIN rows' : IsUpsert(rows'[k], lastDraft + 1)
<1>1. rows \in Seq(Row) /\ lastDraft + 1 \in Nat /\ sends[s].text \in Nat
  <2>1. sends[s] \in Send
    BY ElementOfSeq, LenProperties DEF Known, SendsKnown
  <2>. QED
    BY <2>1 DEF Known, RowsKnown, RowsOf, Counted, Send
<1>2. rows' = EnqueueUpsert(rows, lastDraft + 1, sends[s].text)
  BY DEF ReturnDraft
<1>3. IsQueued(rows, lastDraft + 1, sends[s].text, rows')
  BY <1>1, <1>2, Queued
<1>. QED
  BY <1>3 DEF IsQueued

-----------------------------------------------------------------------------
(* A draft that reads SAVING has something behind it. *)

Backed(d) == d \in armed \/ HasOpenUpsert(rows, d) \/ (run = "stage" /\ LocalOf(seen.at) = d)

(* What backs a draft goes on, or the draft reads SAVING no more. *)
LEMMA BackedStays ==
  ASSUME Known, SeenIsTied, SeenIsFirst, ~Overlapped, Next, Grows, ~Happened("auth")',
         NEW d \in DOMAIN drafts, drafts[d].state = "pending", Backed(d),
         d \in DOMAIN drafts', drafts'[d].state = "pending"
  PROVE  Backed(d)'
<1>0. Counted /\ CallKnown /\ DraftsKnown
  BY DEF Known
<1>1. CASE Crash
  <2>1. armed' = Recovered(rows) /\ drafts' = drafts
    BY <1>1 DEF Crash
  <2>2. CASE HasOpenUpsert(rows, d)
    <3>1. HasOpenUpsert(rows', d)
      <4>1. ~Ack /\ ~FailTerminal /\ ~Fetched
        BY <1>1 DEF Ack, FailTerminal, Fetched, Crash, ReconcileOver
      <4>2. ~FailAuth
        BY <1>0, FaultsStay
      <4>. QED
        BY <2>2, <4>1, <4>2, RowStays
    <3>. QED
      BY <3>1 DEF Backed
  <2>3. CASE ~HasOpenUpsert(rows, d)
    BY <2>1, <2>3 DEF Recovered, Backed
  <2>. QED
    BY <2>2, <2>3
<1>2. CASE ~Crash /\ d \in armed
  <2>1. CASE d \in armed'
    BY <2>1 DEF Backed
  <2>2. CASE Fire(d)
    BY <2>2, FireQueues DEF Backed, HasOpenUpsert
  <2>. QED
    BY <1>2, <2>1, <2>2, ArmedStays
<1>3. CASE ~Crash /\ HasOpenUpsert(rows, d)
  <2>1. CASE Ack /\ job.op = "upsert" /\ job.draft = d
    <3>1. Acked(d)
      BY <2>1, AckMoves DEF Here
    <3>2. HasOpenUpsert(rows', d)
      BY <3>1 DEF Acked, StateAfter
    <3>. QED
      BY <3>2 DEF Backed
  <2>2. CASE FailTerminal /\ job.draft = d
    BY <2>2, FailMoves DEF Here
  <2>3. CASE FailAuth
    BY <1>0, <2>3, FaultsStay
  <2>4. CASE Fetched /\ d = LocalOf(seen.at)
    <3>1. run' = "stage" /\ seen'.at = seen.at /\ seen'.drafts = seen.drafts
      BY <2>4 DEF Fetched, Known, SeenKnown
    <3>2. LocalOf(seen.at)' = d
      BY <2>4, <3>1 DEF LocalOf
    <3>. QED
      BY <3>1, <3>2 DEF Backed
  <2>5. CASE HasOpenUpsert(rows', d)
    BY <2>5 DEF Backed
  <2>. QED
    BY <1>3, <2>1, <2>2, <2>3, <2>4, <2>5, RowStays
<1>4. CASE ~Crash /\ run = "stage" /\ LocalOf(seen.at) = d
  <2>1. CASE Import
    <3>1. d = RowFor(seen.at)
      BY <1>4, ImportHits DEF Visiting
    <3>2. drafts'[d].state = "synced"
      BY <2>1, <3>1 DEF Import, With
    <3>. QED
      BY <3>2
  <2>2. CASE ~Import
    <3>1. run' = "stage" /\ seen' = seen
      <4>1. CASE Elsewhere
        BY <1>4, <4>1, ElsewhereLeaves
      <4>2. CASE List \/ Reconcile \/ ReconcileFails
        BY <1>4, <2>2, <4>2 DEF List, Reconcile, VisitUnchanged, VisitPush, VisitFetch, Fetched, EndReconcile,
                                ReconcileMisses, ReconcileFails
      <4>3. CASE Drain
        BY <1>4, <4>3 DEF Drain, StartDrain, SkipMoot, TakeNext, EndDrain, GmailCreates, GmailUpdates,
                          GmailDeletes, Ack, FailRetry, FailTerminal, FailAuth
      <4>. QED
        BY <1>4, <4>1, <4>2, <4>3 DEF Next, Elsewhere
    <3>2. LocalOf(seen.at)' = d
      BY <1>4, <3>1 DEF LocalOf
    <3>. QED
      BY <3>1, <3>2 DEF Backed
  <2>. QED
    BY <2>1, <2>2
<1>. QED
  BY <1>1, <1>2, <1>3, <1>4 DEF Backed

LEMMA SavingIsBackedStep ==
  ASSUME Known, SeenIsTied, SeenIsFirst, SavingIsBacked, Next, Grows
  PROVE  SavingIsBacked'
<1>0. /\ DraftsFollow /\ Counted /\ CallKnown /\ DraftsKnown /\ SendsFollow /\ Counted' /\ lists <= lists'
      /\ sends \in Seq(Send) /\ rows \in Seq(Row) /\ SeenKnown
  BY DraftsMove, SendsMove DEF Known, Grows, SendsKnown, RowsKnown, RowsOf
<1>. SUFFICES ASSUME ~Happened("auth")', lists' <= 1 \/ sends' = <<>>,
                     NEW d \in DOMAIN drafts', drafts'[d].state = "pending"
              PROVE  Backed(d)'
  BY DEF SavingIsBacked, Backed
<1>1. ~Happened("auth") /\ (lists <= 1 \/ sends = <<>>) /\ ~Overlapped
  <2>1. ~Happened("auth")
    BY <1>0, FaultsStay
  <2>2. sends' = <<>> => sends = <<>>
    <3>. SUFFICES ASSUME sends # <<>>, sends' = <<>> PROVE FALSE
      OBVIOUS
    <3>1. 1 \in DOMAIN sends
      BY <1>0, EmptySeq, LenProperties
    <3>2. 1 \in DOMAIN sends'
      BY <1>0, <3>1 DEF SendsFollow
    <3>. QED
      BY <3>2
  <2>. QED
    BY <1>0, <2>1, <2>2 DEF Counted, Overlapped
<1>2. \A e \in DOMAIN drafts : drafts[e].state = "pending" => Backed(e)
  BY <1>1 DEF SavingIsBacked, Backed
<1>3. CASE Unmoved(d)
  <2>1. CASE drafts[d].state = "pending"
    BY <1>1, <1>2, <1>3, <2>1, BackedStays DEF Unmoved
  <2>2. CASE Fire(d) \/ \E g \in todo : VisitPush(g) /\ d = LocalOf(g)
    BY <1>3, <2>2, FireQueues DEF Backed, HasOpenUpsert, Unmoved
  <2>3. CASE FailRetry /\ d = job.draft
    <3>1. 1 \in DOMAIN rows /\ rows[1].draft = d /\ rows[1].op = job.op
      BY <1>0, <2>3 DEF FailRetry, CallKnown, Calling, InFlight
    <3>2. rows[1].op = "upsert" /\ rows[1] \in Row
      <4>1. rows[1] \in Row
        BY <1>0, <3>1, ElementOfSeq, LenProperties
      <4>2. d # None
        BY <1>0, <1>3 DEF Unmoved, DraftsKnown, Counted, None
      <4>. QED
        BY <3>1, <4>1, <4>2 DEF Row, Known, RowsKnown, RowsOf
    <3>3. rows' = [rows EXCEPT ![1] = [rows[1] EXCEPT !.inflight = FALSE, !.due = FALSE]]
      BY <2>3 DEF FailRetry
    <3>4. 1 \in DOMAIN rows' /\ rows'[1].op = "upsert" /\ rows'[1].draft = d
      BY <3>1, <3>2, <3>3 DEF Row
    <3>. QED
      BY <3>4 DEF Backed, HasOpenUpsert, IsUpsert
  <2>4. CASE FailAuth
    BY <1>0, <2>4, FaultsStay
  <2>. QED
    BY <1>3, <2>1, <2>2, <2>3, <2>4 DEF Unmoved
<1>4. CASE Edited(d)
  BY <1>4 DEF Edited, EditDraft, Backed
<1>5. CASE Acked(d)
  BY <1>5 DEF Acked, StateAfter, Backed
<1>6. CASE Born(d)
  <2>1. CASE NewDraft
    BY <1>6, <2>1 DEF NewDraft, Born, Backed
  <2>2. ASSUME NEW s \in DOMAIN sends, ReturnDraft(s) PROVE Backed(d)'
    BY <1>6, <2>2, ReturnQueues DEF Born, Backed, HasOpenUpsert
  <2>. QED
    BY <1>6, <2>1, <2>2 DEF Born
<1>. QED
  BY <1>0, <1>3, <1>4, <1>5, <1>6 DEF DraftsFollow, Imported

-----------------------------------------------------------------------------
(* In calm: one row waits for a draft, a tied draft knows the last write,  *)
(* and the call under way is alone with its Gmail draft.                   *)

LEMMA WaitsOnceStep ==
  ASSUME Known, WaitsOnce, Next, Grows
  PROVE  WaitsOnce'
<1>1. WaitsOnce <=> (Calm => OnceIn(rows))
  BY DEF WaitsOnce, Waits, OnceIn
<1>2. WaitsOnce' <=> (Calm' => OnceIn(rows'))
  BY DEF WaitsOnce, Waits, OnceIn
<1>. QED
  BY <1>1, <1>2, CalmStays, RowsMove DEF RowsFollow

LEMMA SendsStay ==
  ASSUME Known, Next, sends' = <<>>
  PROVE  sends = <<>>
<1>0. sends \in Seq(Send) /\ DOMAIN sends \subseteq DOMAIN sends'
  BY SendsMove DEF Known, SendsKnown, SendsFollow
<1>. SUFFICES ASSUME sends # <<>> PROVE FALSE
  OBVIOUS
<1>1. 1 \in DOMAIN sends
  BY <1>0, EmptySeq, LenProperties
<1>. QED
  BY <1>0, <1>1

LEMMA RevsKnownStep ==
  ASSUME Known, RevsKnown, CallIsAlone, FetchIsNews, Next, Grows
  PROVE  RevsKnown'
<1>0. /\ DraftsFollow /\ Counted /\ CallKnown /\ DraftsKnown /\ SeenKnown /\ AnswerKnown /\ GmailKnown
  BY DraftsMove DEF Known
<1>. SUFFICES ASSUME Calm', sends' = <<>>, NEW d \in DOMAIN drafts', drafts'[d].gid \in DOMAIN gmail'
              PROVE  RevKnown(d)'
  BY DEF RevsKnown, RevKnown
<1>. DEFINE g == drafts'[d].gid
<1>1. Calm /\ ~FailRetry /\ ~Crash /\ sends = <<>>
  BY CalmStays, SendsStay
<1>2. CASE d \in DOMAIN drafts /\ g = drafts[d].gid /\ drafts'[d].rev = drafts[d].rev
           /\ ~(Ack /\ job.op = "upsert" /\ job.draft = d)
  <2>1. /\ g \in DOMAIN gmail => \/ gmail[g].rev = drafts'[d].rev \/ gmail[g].text \in theirs
                                 \/ run = "applied" /\ job.op = "upsert" /\ job.draft = d
        /\ g <= lastGmail
    BY <1>0, <1>1, <1>2 DEF RevsKnown, RevKnown, DraftsKnown
  <2>2. ASSUME run = "applied", job.op = "upsert", job.draft = d
        PROVE  run' = "applied" /\ job'.op = "upsert" /\ job'.draft = d
    <3>1. ~Ack
      BY <1>2, <2>2
    <3>2. run' = "applied"
      BY <1>1, <2>2, <3>1, CallMoves DEF Calling
    <3>3. job' = job
      BY <2>2, <3>2, CallMoves DEF Calling
    <3>. QED
      BY <2>2, <3>2, <3>3
  <2>. HIDE DEF g
  <2>3. CASE RemoteMove
    <3>1. gmail'[g].text \in theirs' \/ (g \in DOMAIN gmail /\ gmail'[g] = gmail[g])
      BY <2>3 DEF RemoteMove, Theirs, g
    <3>2. theirs \subseteq theirs'
      BY <2>3 DEF RemoteMove
    <3>. QED
      BY <2>1, <2>2, <3>1, <3>2 DEF RevKnown, g
  <2>4. CASE OwnMove /\ gmail' = gmail
    BY <2>1, <2>2, <2>4 DEF OwnMove, RevKnown, g
  <2>5. CASE OwnMove /\ GmailCreates
    <3>1. g # lastGmail + 1 /\ run = "call"
      BY <1>0, <1>2, <2>1, <2>5 DEF GmailCreates, Counted, DraftsKnown, Draft
    <3>2. g \in DOMAIN gmail /\ gmail'[g] = gmail[g]
      BY <2>5, <3>1 DEF GmailCreates, Writes, With, g
    <3>. QED
      BY <2>1, <2>5, <3>1, <3>2 DEF OwnMove, RevKnown, g
  <2>6. CASE OwnMove /\ GmailUpdates
    <3>0. run = "call" /\ run' = "applied" /\ job' = job /\ job.op = "upsert" /\ job.gid # None
      BY <2>6 DEF GmailUpdates
    <3>1. CASE g = job.gid
      <4>1. d = job.draft
        BY <1>1, <1>2, <3>0, <3>1 DEF CallIsAlone, Calling
      <4>. QED
        BY <3>0, <4>1 DEF RevKnown
    <3>2. CASE g # job.gid
      <4>1. g \in DOMAIN gmail /\ gmail'[g] = gmail[g]
        BY <2>6, <3>2 DEF GmailUpdates, Writes, With, g
      <4>. QED
        BY <2>1, <2>6, <3>0, <4>1 DEF OwnMove, RevKnown, g
    <3>. QED
      BY <3>1, <3>2
  <2>7. CASE OwnMove /\ GmailDeletes
    <3>1. g \in DOMAIN gmail /\ gmail'[g] = gmail[g] /\ run = "call"
      BY <2>7 DEF GmailDeletes, Without, Restrict, g
    <3>. QED
      BY <2>1, <2>7, <3>1 DEF OwnMove, RevKnown, g
  <2>. QED
    BY <2>3, <2>4, <2>5, <2>6, <2>7, RemoteWrites DEF OwnMove
<1>3. CASE Acked(d)
  <2>1. gmail' = gmail /\ theirs' = theirs /\ run = "applied" /\ job.op = "upsert" /\ ~answer.gone
    BY <1>3 DEF Acked, Ack, history
  <2>2. gmail[answer.gid] = [text |-> job.text, rev |-> answer.rev] \/ gmail[answer.gid].text \in theirs
    BY <1>0, <1>3, <2>1 DEF AnswerKnown, Acked
  <2>. QED
    BY <1>3, <2>1, <2>2 DEF Acked, RevKnown
<1>4. CASE Imported(d)
  <2>1. gmail' = gmail /\ theirs' = theirs /\ run = "stage" /\ Visiting
    BY <1>4 DEF Imported, Import, history, Visiting
  <2>2. gmail[seen.at] = seen.fetched \/ gmail[seen.at].text \in theirs
    BY <1>1, <1>4, <2>1 DEF FetchIsNews, Imported
  <2>. QED
    BY <1>4, <2>1, <2>2 DEF Imported, RevKnown
<1>5. CASE Born(d)
  <2>1. None \notin DOMAIN gmail'
    BY <1>0, GmailStep DEF GmailKnown, None, Grows, Counted
  <2>2. \A s \in DOMAIN sends : FALSE
    BY <1>1
  <2>. QED
    BY <1>5, <2>1, <2>2 DEF Born
<1>6. CASE Ack /\ job.op = "upsert" /\ job.draft = d /\ d \in DOMAIN drafts
  <2>1. Acked(d)
    BY <1>6, AckMoves DEF Here
  <2>. QED
    BY <1>3, <2>1
<1>7. (Unmoved(d) \/ Edited(d)) => d \in DOMAIN drafts /\ g = drafts[d].gid /\ drafts'[d].rev = drafts[d].rev
  BY DEF Unmoved, Edited
<1>. HIDE DEF g
<1>. QED
  BY <1>0, <1>2, <1>3, <1>4, <1>5, <1>6, <1>7 DEF DraftsFollow

LEMMA CallIsAloneStep ==
  ASSUME Known, TiedOnce, CallIsAlone, Next, Grows
  PROVE  CallIsAlone'
<1>0. /\ DraftsFollow /\ Counted /\ CallKnown /\ DraftsKnown
  BY DraftsMove DEF Known
<1>. SUFFICES ASSUME Calm', Calling', job'.op = "upsert", job'.gid # None,
                     NEW d \in DOMAIN drafts', drafts'[d].gid = job'.gid
              PROVE  d = job'.draft \/ (drafts'[d].state # "synced" /\ sends' # <<>>)
  BY DEF CallIsAlone
<1>1. Calm
  BY CalmStays
<1>2. CASE TakeNext
  <2>1. /\ drafts' = drafts /\ job' = [op |-> rows[1].op, draft |-> rows[1].draft, text |-> rows[1].text,
                 gid |-> IF rows[1].op = "upsert" THEN drafts[rows[1].draft].gid ELSE rows[1].gid]
        /\ ~HeadIsMoot
    BY <1>2 DEF TakeNext, table
  <2>2. rows[1].op = "upsert" /\ job'.draft = rows[1].draft /\ rows[1].draft \in DOMAIN drafts
        /\ job'.gid = drafts[rows[1].draft].gid
    BY <2>1 DEF HeadIsMoot, Here
  <2>3. d \in Tied(drafts) /\ rows[1].draft \in Tied(drafts) /\ drafts[d].gid = drafts[rows[1].draft].gid
    BY <2>1, <2>2 DEF Tied
  <2>. QED
    BY <1>1, <2>2, <2>3 DEF TiedOnce, Calm
<1>3. CASE Calling /\ job' = job
  <2>1. ~Ack /\ ~Import
    <3>1. ~Ack
      BY DEF Ack, Calling
    <3>. QED
      BY <1>3, <3>1, CallMoves
  <2>2. Old(d) \/ TiedByReturn(d)
    BY <2>1, TieOrigin DEF TiedByAnswer, TiedByImport
  <2>3. CASE TiedByReturn(d)
    <3>1. sends # <<>> /\ d \notin DOMAIN drafts
      BY <1>0, <2>3 DEF TiedByReturn, DraftsKnown, Counted
    <3>2. Born(d)
      BY <1>0, <2>1, <3>1 DEF DraftsFollow, Unmoved, Edited, Acked, Imported
    <3>. QED
      BY <3>1, <3>2, SendsStay DEF Born
  <2>4. CASE Old(d)
    <3>1. d = job.draft \/ (drafts[d].state # "synced" /\ sends # <<>>)
      BY <1>1, <1>3, <2>4 DEF Old, CallIsAlone
    <3>2. drafts[d].state # "synced" => drafts'[d].state # "synced"
      BY <1>0, <2>1, <2>4 DEF DraftsFollow, Unmoved, Edited, Acked, Imported, Born, Old
    <3>. QED
      BY <1>3, <3>1, <3>2, SendsStay
  <2>. QED
    BY <2>2, <2>3, <2>4
<1>. QED
  BY <1>2, <1>3, CallFrom

-----------------------------------------------------------------------------
(* In calm, what the reconcile fetches of a tied draft was written in      *)
(* Gmail.                                                                  *)

News1 == \A d \in DOMAIN drafts :
  drafts[d].gid \in todo \/ (drafts[d].gid = seen.at /\ run # "visit") =>
    d \in DOMAIN seen.drafts /\ seen.drafts[d].gid = drafts[d].gid
New2(d) ==
  LET g == seen.drafts[d].gid
  IN  g \in todo => \/ seen.gmail[g] = seen.drafts[d].rev
                    \/ g \in DOMAIN gmail => gmail[g].text \in theirs
News2 == \A d \in DOMAIN seen.drafts : New2(d)
News3 == \A d \in DOMAIN drafts :
  drafts[d].gid = seen.at =>
    /\ run = "fetch" /\ seen.at \in DOMAIN gmail => gmail[seen.at].text \in theirs
    /\ run = "stage" => seen.fetched.text \in theirs
News4 == run = "stage" /\ seen.at \in DOMAIN gmail =>
  gmail[seen.at] = seen.fetched \/ gmail[seen.at].text \in theirs

(* A copy in Gmail that is none of this step's is as it was, or theirs.    *)
LEMMA CopyStays ==
  ASSUME Next, ~Calling, NEW g \in DOMAIN gmail'
  PROVE  /\ gmail'[g].text \in theirs' \/ (g \in DOMAIN gmail /\ gmail'[g] = gmail[g])
         /\ theirs \subseteq theirs'
<1>1. CASE RemoteMove
  BY <1>1 DEF RemoteMove, Theirs
<1>2. CASE OwnMove
  BY <1>2 DEF OwnMove, GmailCreates, GmailUpdates, GmailDeletes, Calling
<1>. QED
  BY <1>1, <1>2, RemoteWrites

LEMMA TheirsGrow ==
  ASSUME Next
  PROVE  theirs \subseteq theirs'
BY RemoteWrites DEF RemoteMove, OwnMove

LEMMA FetchIsNewsStep ==
  ASSUME Known, TiedOnce, SeenIsTied, RevsKnown, FetchIsNews, Next, Grows
  PROVE  FetchIsNews'
<1>0. Counted /\ CallKnown /\ DraftsKnown /\ SeenKnown /\ GmailKnown /\ SeenKnown' /\ Counted'
  BY SeenStep DEF Known, Grows
<1>. SUFFICES ASSUME Calm', Visiting' PROVE (News1 /\ News2 /\ News3 /\ News4)'
  BY DEF FetchIsNews, News1, New2, News2, News3, News4
<1>1. Calm /\ sends' = <<>> /\ sends = <<>>
  <2>1. lists' > 0
    BY <1>0 DEF SeenKnown
  <2>2. sends' = <<>>
    BY <1>0, <2>1 DEF Calm, SentAndListed
  <2>. QED
    BY <2>2, CalmStays, SendsStay
<1>2. Visiting => News1 /\ News2 /\ News3 /\ News4
  BY <1>1 DEF FetchIsNews, News1, New2, News2, News3, News4
<1>3. ASSUME Visiting, NEW d \in DOMAIN drafts', drafts'[d].gid # None PROVE Old(d) \/ TiedByImport(d)
  <2>1. \A s \in DOMAIN sends : FALSE
    BY <1>1
  <2>. QED
    BY <1>3, <2>1, TieOrigin DEF TiedByAnswer, TiedByReturn, Ack, Visiting
<1>4. CASE List
  <2>1. /\ seen'.drafts = [e \in Tied(drafts) |-> AsListed(drafts[e])]
        /\ seen'.gmail = [h \in DOMAIN gmail |-> gmail[h].rev] /\ seen'.at = None
        /\ \A d \in DOMAIN drafts' : d \in DOMAIN drafts /\ drafts'[d] = drafts[d]
        /\ todo' \subseteq DOMAIN gmail /\ gmail' = gmail /\ theirs' = theirs /\ run = "idle" /\ run' = "visit"
    BY <1>4 DEF List, NoSeen, Restrict, history
  <2>2. \A g \in todo' : g # None
    BY <1>0, <2>1 DEF GmailKnown, None, Counted
  <2>3. News1'
    <3>. SUFFICES ASSUME NEW d \in DOMAIN drafts', drafts'[d].gid \in todo'
                  PROVE  d \in DOMAIN seen'.drafts /\ seen'.drafts[d].gid = drafts'[d].gid
      BY <2>1 DEF News1
    <3>1. d \in Tied(drafts)
      BY <2>1, <2>2 DEF Tied
    <3>. QED
      BY <2>1, <3>1 DEF AsListed
  <2>4. News2'
    <3>. SUFFICES ASSUME NEW d \in DOMAIN seen'.drafts PROVE New2(d)'
      BY DEF News2
    <3>1. d \in Tied(drafts) /\ d \in DOMAIN drafts /\ seen'.drafts[d].gid = drafts[d].gid
          /\ seen'.drafts[d].rev = drafts[d].rev
      BY <2>1 DEF AsListed, Tied
    <3>2. RevKnown(d)
      BY <1>1, <3>1 DEF RevsKnown
    <3>. QED
      BY <2>1, <3>1, <3>2 DEF RevKnown, New2
  <2>5. News3' /\ News4'
    BY <2>1 DEF News3, News4
  <2>. QED
    BY <2>3, <2>4, <2>5
<1>5. CASE GoesOn
  <2>1. Visiting /\ run' = run /\ seen' = seen /\ todo' \subseteq todo /\ ~Import /\ ~Calling
    <3>1. ~Import
      BY <1>5 DEF GoesOn, Import, Visiting
    <3>. QED
      BY <1>5, <3>1 DEF GoesOn, Visiting, Calling
  <2>2. ASSUME NEW d \in DOMAIN drafts', drafts'[d].gid # None PROVE Old(d)
    BY <1>3, <2>1, <2>2 DEF TiedByImport
  <2>3. \A g \in todo : g # None
    BY <1>0 DEF SeenKnown, None, Counted
  <2>4. run # "visit" => seen.at # None
    BY <1>0, <2>1 DEF SeenKnown, None, Counted, Visiting
  <2>5. News1'
    BY <1>2, <2>1, <2>2, <2>3, <2>4 DEF News1, Old
  <2>6. News2'
    <3>. SUFFICES ASSUME NEW d \in DOMAIN seen.drafts PROVE New2(d)'
      BY <2>1 DEF News2
    <3>1. New2(d)
      BY <1>2, <2>1 DEF News2
    <3>. QED
      BY <2>1, <3>1, CopyStays DEF New2
  <2>7. News3'
    <3>. SUFFICES ASSUME NEW d \in DOMAIN drafts', drafts'[d].gid = seen.at, run # "visit"
                  PROVE  /\ run = "fetch" /\ seen.at \in DOMAIN gmail' => gmail'[seen.at].text \in theirs'
                         /\ run = "stage" => seen.fetched.text \in theirs'
      BY <2>1 DEF News3
    <3>1. d \in DOMAIN drafts /\ drafts[d].gid = seen.at
      BY <2>2, <2>4 DEF Old
    <3>2. /\ run = "fetch" /\ seen.at \in DOMAIN gmail => gmail[seen.at].text \in theirs
          /\ run = "stage" => seen.fetched.text \in theirs
      BY <1>2, <2>1, <3>1 DEF News3
    <3>. QED
      BY <2>1, <3>2, CopyStays, TheirsGrow
  <2>8. News4'
    <3>1. News4
      BY <1>2, <2>1
    <3>. QED
      BY <2>1, <3>1, CopyStays DEF News4
  <2>. QED
    BY <2>5, <2>6, <2>7, <2>8
<1>6. ASSUME NEW g \in todo, VisitFetch(g) PROVE (News1 /\ News2 /\ News3 /\ News4)'
  <2>1. /\ Visiting /\ run = "visit" /\ run' = "fetch" /\ todo' = todo \ {g} /\ drafts' = drafts
        /\ gmail' = gmail /\ theirs' = theirs
        /\ seen'.at = g /\ seen'.drafts = seen.drafts /\ seen'.gmail = seen.gmail
    BY <1>0, <1>6 DEF VisitFetch, Visiting, SeenKnown, table, history
  <2>2. News1'
    BY <1>2, <2>1 DEF News1
  <2>3. News2'
    BY <1>2, <2>1 DEF News2, New2
  <2>4. News4'
    BY <2>1 DEF News4
  <2>5. News3'
    <3>. SUFFICES ASSUME NEW d \in DOMAIN drafts, drafts[d].gid = g, g \in DOMAIN gmail
                  PROVE  gmail[g].text \in theirs
      BY <2>1 DEF News3
    <3>. DEFINE ds == {e \in DOMAIN seen.drafts : seen.drafts[e].gid = g}
    <3>1. d \in ds
      BY <1>2, <2>1 DEF News1
    <3>2. ds \in SUBSET (0 .. lastDraft) /\ ds # {} /\ lastDraft \in Nat
      BY <1>0, <3>1 DEF SeenKnown, Counted
    <3>3. LocalOf(g) = Max(ds)
      BY <3>1 DEF LocalOf
    <3>4. Max(ds) \in ds
      <4>. HIDE DEF ds
      <4>. QED
        BY <3>2, MaxIsIn
    <3>5. LocalOf(g) \in DOMAIN seen.drafts /\ seen.drafts[LocalOf(g)].gid = g /\ LocalOf(g) # None
      BY <1>0, <3>3, <3>4 DEF SeenKnown, None, Counted
    <3>6. New2(LocalOf(g))
      BY <1>2, <2>1, <3>5 DEF News2
    <3>7. seen.gmail[g] # seen.drafts[LocalOf(g)].rev
      BY <1>6, <3>5 DEF VisitFetch, Unchanged
    <3>. QED
      BY <3>5, <3>6, <3>7 DEF New2
  <2>. QED
    BY <2>2, <2>3, <2>4, <2>5
<1>7. CASE Fetched
  <2>1. /\ Visiting /\ run = "fetch" /\ run' = "stage" /\ todo' = todo /\ drafts' = drafts
        /\ gmail' = gmail /\ theirs' = theirs /\ seen.at \in DOMAIN gmail
        /\ seen'.at = seen.at /\ seen'.drafts = seen.drafts /\ seen'.gmail = seen.gmail
        /\ seen'.fetched = gmail[seen.at]
    BY <1>0, <1>7 DEF Fetched, Visiting, SeenKnown, table, history
  <2>2. News1'
    BY <1>2, <2>1 DEF News1
  <2>3. News2'
    BY <1>2, <2>1 DEF News2, New2
  <2>4. News3' /\ News4'
    BY <1>2, <2>1 DEF News3, News4
  <2>. QED
    BY <2>2, <2>3, <2>4
<1>8. CASE Import
  <2>1. /\ Visiting /\ run = "stage" /\ run' = "visit" /\ todo' = todo
        /\ gmail' = gmail /\ theirs' = theirs
        /\ seen'.at = None /\ seen'.drafts = seen.drafts /\ seen'.gmail = seen.gmail
    BY <1>0, <1>8 DEF Import, Visiting, SeenKnown, history
  <2>2. seen.at \notin todo /\ \A g \in todo : g # None
    BY <1>0, <2>1 DEF SeenKnown, None, Counted
  <2>3. ASSUME NEW d \in DOMAIN drafts', drafts'[d].gid \in todo PROVE Old(d)
    BY <1>3, <2>1, <2>2, <2>3 DEF TiedByImport
  <2>4. News1'
    BY <1>2, <2>1, <2>3 DEF News1, Old
  <2>5. News2'
    BY <1>2, <2>1 DEF News2, New2
  <2>6. News3' /\ News4'
    BY <2>1 DEF News3, News4
  <2>. QED
    BY <2>4, <2>5, <2>6
<1>. QED
  BY <1>4, <1>5, <1>6, <1>7, <1>8, SeenMoves

-----------------------------------------------------------------------------
(* What waits, or is on its way, is what the draft reads; so a draft that  *)
(* reads IN GMAIL is there as it reads.                                    *)

LEMMA UndisturbedStays ==
  ASSUME Known, Next, Grows, Undisturbed'
  PROVE  Undisturbed /\ theirs = {} /\ ~FailRetry /\ ~Crash /\ ~RemoteMove
<1>1. Counted /\ Counted' /\ remote <= remote' /\ (remote = 0 => theirs = {})
  BY DEF Known, Grows
<1>2. remote = 0 /\ ~RemoteMove
  BY <1>1 DEF Undisturbed, RemoteMove, Counted
<1>. QED
  BY <1>1, <1>2, CalmStays DEF Undisturbed

(* The text of a draft that is not typed stays.                            *)
LEMMA TextStays ==
  ASSUME Known, FetchIsNews, Next, Grows, Undisturbed', NEW d \in DOMAIN drafts, d \in DOMAIN drafts', d \notin armed'
  PROVE  drafts'[d].text = drafts[d].text
<1>0. DraftsFollow /\ DraftsKnown /\ Counted
  BY DraftsMove DEF Known
<1>1. Calm /\ theirs = {}
  BY UndisturbedStays DEF Undisturbed
<1>2. ~Edited(d)
  BY DEF Edited, EditDraft
<1>3. ~Imported(d)
  <2>. SUFFICES ASSUME Imported(d) PROVE FALSE
    OBVIOUS
  <2>1. run = "stage" /\ Visiting
    BY DEF Imported, Import, Visiting
  <2>2. drafts[d].gid = seen.at
    BY DEF Imported
  <2>. QED
    BY <1>1, <2>1, <2>2 DEF FetchIsNews
<1>4. ~Born(d)
  BY DEF Born
<1>. QED
  BY <1>0, <1>2, <1>3, <1>4 DEF DraftsFollow, Unmoved, Acked

LEMMA RowsCurrentStep ==
  ASSUME Known, WaitsOnce, WaitsOnce', FetchIsNews, RowsCurrent, Next, Grows
  PROVE  RowsCurrent'
<1>0. /\ DraftsKnown /\ Counted /\ CallKnown /\ RowsKnown /\ RowsFollow
      /\ \A i \in DOMAIN rows : rows[i] \in Row
  BY RowsMove, ElementOfSeq, LenProperties DEF Known, RowsKnown, RowsOf
<1>. SUFFICES ASSUME Undisturbed', NEW d \in DOMAIN drafts', d \notin armed'
              PROVE  /\ \A k \in DOMAIN rows' : Waits(k)' /\ rows'[k].draft = d => rows'[k].text = drafts'[d].text
                     /\ Calling' /\ job'.op = "upsert" /\ job'.draft = d =>
                          job'.text = drafts'[d].text \/ \E k \in DOMAIN rows' : Waits(k)' /\ rows'[k].draft = d
  BY DEF RowsCurrent
<1>1. Undisturbed /\ theirs = {} /\ ~FailRetry /\ ~Crash
  BY UndisturbedStays
<1>2. d \in DOMAIN drafts => drafts'[d].text = drafts[d].text /\ (d \in armed => Fire(d))
  BY <1>1, TextStays, ArmedStays
<1>3. ASSUME NEW i \in DOMAIN rows, rows[i].op = "upsert", rows[i].draft = d PROVE d \in DOMAIN drafts
  <2>1. d # lastDraft + 1
    BY <1>0, <1>3 DEF RowsKnown, RowsOf, Counted
  <2>. QED
    BY <2>1, DraftsMove DEF DraftsFollow, Unmoved, Edited, Acked, Imported, Born
<1>4. ASSUME NEW i \in DOMAIN rows, Waits(i), rows[i].draft = d, d \in DOMAIN drafts, d \notin armed
      PROVE  rows[i].text = drafts[d].text
  BY <1>1, <1>4 DEF RowsCurrent
<1>5. ASSUME Fire(d), d \in DOMAIN drafts
      PROVE  \E k \in DOMAIN rows' : Waits(k)' /\ rows'[k].draft = d /\ rows'[k].text = drafts[d].text
  BY <1>5, FireQueues DEF Waits, IsUpsert
<1>6. ASSUME NEW k \in DOMAIN rows', Waits(k)', rows'[k].draft = d PROVE rows'[k].text = drafts'[d].text
  <2>1. WaitsNow(rows'[k])
    BY <1>0, <1>6 DEF RowsFollow, Waits
  <2>2. CASE Raised(rows'[k])
    BY <1>6, <2>2 DEF Raised
  <2>3. ASSUME NEW i \in DOMAIN rows, Waits(i), Alike(rows[i], rows'[k]) PROVE rows'[k].text = drafts'[d].text
    <3>1. rows[i].draft = d /\ rows[i].op = "upsert" /\ rows'[k].text = rows[i].text
      BY <1>6, <2>3 DEF Alike, Waits
    <3>2. d \in DOMAIN drafts
      BY <1>3, <3>1
    <3>3. CASE d \notin armed
      BY <1>2, <1>4, <2>3, <3>1, <3>2, <3>3
    <3>4. CASE d \in armed
      <4>1. PICK l \in DOMAIN rows' : Waits(l)' /\ rows'[l].draft = d /\ rows'[l].text = drafts[d].text
        BY <1>2, <1>5, <3>2, <3>4
      <4>2. l = k
        BY <1>6, <4>1 DEF WaitsOnce, Undisturbed
      <4>. QED
        BY <1>2, <3>2, <4>1, <4>2
    <3>. QED
      BY <3>3, <3>4
  <2>. QED
    BY <1>1, <2>1, <2>2, <2>3 DEF WaitsNow
<1>7. ASSUME Calling', job'.op = "upsert", job'.draft = d
      PROVE  job'.text = drafts'[d].text \/ \E k \in DOMAIN rows' : Waits(k)' /\ rows'[k].draft = d
  <2>1. CASE TakeNext
    <3>1. /\ job' = [op |-> rows[1].op, draft |-> rows[1].draft, text |-> rows[1].text,
                     gid |-> IF rows[1].op = "upsert" THEN drafts[rows[1].draft].gid ELSE rows[1].gid]
          /\ drafts' = drafts /\ armed' = armed /\ run = "drain" /\ rows # <<>>
      BY <2>1 DEF TakeNext, HeadIsDue, table
    <3>2. 1 \in DOMAIN rows /\ rows[1].op = "upsert" /\ rows[1].draft = d /\ job'.text = rows[1].text
      <4>1. 1 \in DOMAIN rows
        BY <1>0, <3>1, EmptySeq, LenProperties DEF RowsKnown, RowsOf
      <4>. QED
        BY <1>7, <3>1, <4>1
    <3>3. Waits(1)
      BY <1>0, <3>1, <3>2 DEF CallKnown, Calling, InFlight, Waits
    <3>. QED
      BY <1>4, <3>1, <3>2, <3>3
  <2>2. CASE Calling /\ job' = job
    <3>1. 1 \in DOMAIN rows /\ rows[1].op = "upsert" /\ rows[1].draft = d
      BY <1>0, <1>7, <2>2 DEF CallKnown, InFlight
    <3>2. d \in DOMAIN drafts
      BY <1>3, <3>1
    <3>3. CASE d \in armed
      BY <1>2, <1>5, <3>2, <3>3
    <3>4. CASE d \notin armed
      <4>1. job.text = drafts[d].text \/ \E i \in DOMAIN rows : Waits(i) /\ rows[i].draft = d
        BY <1>1, <1>7, <2>2, <3>2, <3>4 DEF RowsCurrent
      <4>2. ASSUME NEW i \in DOMAIN rows, Waits(i), rows[i].draft = d
            PROVE  \E k \in DOMAIN rows' : Waits(k)' /\ rows'[k].draft = d
        <5>1. CASE Stays(i)
          <6>1. ~TakeNext
            BY <2>2, CallMoves
          <6>. QED
            BY <4>2, <5>1, <6>1 DEF Stays, StaysIn, SameRow, Waits
        <5>2. CASE Popped(i)
          <6>1. ~Ack /\ ~FailTerminal /\ ~FailAuth
            BY <1>7 DEF Ack, FailTerminal, FailAuth, Calling
          <6>2. ~SkipMoot
            BY <2>2, CallMoves
          <6>. QED
            BY <5>2, <6>1, <6>2 DEF Popped
        <5>3. CASE Dropped(i)
          <6>1. ~Fetched
            BY <2>2, CallMoves
          <6>. QED
            BY <4>2, <5>3, <6>1 DEF Dropped
        <5>. QED
          BY <1>0, <5>1, <5>2, <5>3 DEF RowsFollow
      <4>. QED
        BY <1>2, <2>2, <3>2, <4>1, <4>2
    <3>. QED
      BY <3>3, <3>4
  <2>. QED
    BY <1>7, <2>1, <2>2, CallFrom
<1>. QED
  BY <1>6, <1>7

LEMMA SyncedIsMirroredStep ==
  ASSUME Known, SeenIsTied, CallIsAlone, FetchIsNews, RowsCurrent, SyncedIsMirrored, Next, Grows
  PROVE  SyncedIsMirrored'
<1>0. /\ DraftsFollow /\ DraftsKnown /\ Counted /\ CallKnown /\ RowsKnown /\ AnswerKnown /\ SeenKnown
  BY DraftsMove DEF Known
<1>. SUFFICES ASSUME Undisturbed', NEW d \in DOMAIN drafts', drafts'[d].state = "synced",
                     d \notin armed', ~HasOpenUpsert(rows', d), drafts'[d].gid \in DOMAIN gmail'
              PROVE  gmail'[drafts'[d].gid].text = drafts'[d].text
  BY DEF SyncedIsMirrored, InGmailIsInGmail, Undisturbed, Calm
<1>1. Undisturbed /\ Calm /\ theirs = {} /\ ~FailRetry /\ ~Crash /\ ~RemoteMove
  BY UndisturbedStays DEF Undisturbed
<1>2. CASE Acked(d)
  <2>1. gmail' = gmail /\ armed' = armed /\ run = "applied" /\ job.op = "upsert" /\ job.draft = d /\ d \in DOMAIN drafts
    BY <1>2 DEF Acked, Ack
  <2>2. gmail[answer.gid].text = job.text
    BY <1>0, <1>1, <1>2, <2>1 DEF AnswerKnown, Acked
  <2>3. job.text = drafts[d].text
    <3>. SUFFICES ASSUME NEW i \in DOMAIN rows, Waits(i), rows[i].draft = d PROVE FALSE
      BY <1>1, <2>1 DEF RowsCurrent, Calling
    <3>1. 1 \in DOMAIN rows /\ rows[1].inflight /\ rows \in Seq(Row)
      BY <1>0, <2>1 DEF CallKnown, Calling, InFlight, RowsKnown, RowsOf
    <3>2. i # 1 /\ rows' = Tail(rows)
      BY <1>2, <3>1 DEF Waits, Acked
    <3>3. IsTail(rows, rows')
      BY <3>1, <3>2, FirstLeft
    <3>4. \E k \in DOMAIN rows' : rows'[k] = rows[i]
      BY <3>2, <3>3 DEF IsTail
    <3>. QED
      BY <3>4 DEF HasOpenUpsert, IsUpsert, Waits
  <2>. QED
    BY <1>2, <2>1, <2>2, <2>3 DEF Acked
<1>3. CASE Imported(d)
  <2>1. gmail' = gmail /\ run = "stage" /\ Visiting
    BY <1>3 DEF Imported, Import, Visiting
  <2>2. gmail[seen.at] = seen.fetched
    BY <1>1, <1>3, <2>1 DEF FetchIsNews, Imported
  <2>. QED
    BY <1>3, <2>1, <2>2 DEF Imported
<1>4. CASE d \in DOMAIN drafts /\ Ack /\ job.op = "upsert" /\ job.draft = d
  BY <1>2, <1>4, AckMoves DEF Here
<1>5. CASE Unmoved(d) /\ ~(Ack /\ job.op = "upsert" /\ job.draft = d)
  <2>1. d \in DOMAIN drafts /\ drafts[d].state = "synced" /\ drafts'[d].gid = drafts[d].gid
        /\ drafts'[d].text = drafts[d].text
    BY <1>5 DEF Unmoved
  <2>2. ~Fire(d)
    BY <2>1, FireQueues DEF HasOpenUpsert
  <2>3. d \notin armed
    BY <1>1, <2>2, ArmedStays
  <2>4. ~HasOpenUpsert(rows, d)
    <3>. SUFFICES ASSUME HasOpenUpsert(rows, d) PROVE FALSE
      OBVIOUS
    <3>1. CASE FailTerminal /\ job.draft = d
      BY <2>1, <3>1, FailMoves DEF Here
    <3>2. CASE FailAuth
      <4>1. 1 \in DOMAIN rows /\ rows' = Tail(rows) /\ rows \in Seq(Row)
        BY <1>0, <3>2 DEF FailAuth, CallKnown, Calling, InFlight, RowsKnown, RowsOf
      <4>2. IsTail(rows, rows')
        BY <4>1, FirstLeft
      <4>3. \A i \in DOMAIN rows : i = 1 \/ \E k \in DOMAIN rows' : rows'[k] = rows[i]
        BY <4>2 DEF IsTail
      <4>4. rows[1].draft = d
        BY <4>3 DEF HasOpenUpsert, IsUpsert
      <4>5. job.draft = d
        BY <1>0, <3>2, <4>4 DEF FailAuth, CallKnown, Calling
      <4>. QED
        BY <2>1, <3>2, <4>5, FailMoves DEF Here
    <3>3. CASE Fetched /\ d = LocalOf(seen.at)
      <4>. DEFINE ds == {e \in DOMAIN seen.drafts : seen.drafts[e].gid = seen.at}
      <4>1. d # None /\ ds \in SUBSET (0 .. lastDraft) /\ lastDraft \in Nat
        BY <1>0, <2>1 DEF DraftsKnown, SeenKnown, Counted, None
      <4>2. ds # {} /\ d = Max(ds)
        BY <3>3, <4>1 DEF LocalOf
      <4>3. d \in ds
        <5>. HIDE DEF ds
        <5>. QED
          BY <4>1, <4>2, MaxIsIn
      <4>4. run = "fetch" /\ Visiting /\ seen.at \in DOMAIN gmail
        BY <3>3 DEF Fetched, Visiting
      <4>5. drafts[d].gid = seen.at
        BY <2>1, <4>3, <4>4 DEF SeenIsTied, Here
      <4>. QED
        BY <1>1, <2>1, <4>4, <4>5 DEF FetchIsNews
    <3>. QED
      BY <1>5, <2>1, <3>1, <3>2, <3>3, RowStays
  <2>. DEFINE g == drafts[d].gid
  <2>5. g \in DOMAIN gmail => gmail[g].text = drafts[d].text
    BY <1>1, <2>1, <2>3, <2>4 DEF SyncedIsMirrored, InGmailIsInGmail, Undisturbed, Calm
  <2>6. g \in DOMAIN gmail' /\ g <= lastGmail
    BY <1>0, <2>1 DEF DraftsKnown
  <2>. HIDE DEF g
  <2>7. g \in DOMAIN gmail /\ gmail'[g] = gmail[g]
    <3>1. CASE gmail' = gmail
      BY <2>6, <3>1
    <3>2. CASE GmailCreates
      <4>1. g # lastGmail + 1
        BY <1>0, <2>1, <2>6 DEF Counted, DraftsKnown, Draft, g
      <4>. QED
        BY <2>6, <3>2, <4>1 DEF GmailCreates, Writes, With
    <3>3. CASE GmailUpdates
      <4>0. run = "call" /\ job.op = "upsert" /\ job.gid # None /\ rows' = rows
        BY <3>3 DEF GmailUpdates
      <4>1. g # job.gid
        <5>. SUFFICES ASSUME g = job.gid PROVE FALSE
          OBVIOUS
        <5>1. d = job.draft
          BY <1>1, <2>1, <4>0 DEF CallIsAlone, Calling, g
        <5>2. 1 \in DOMAIN rows /\ rows[1].op = "upsert" /\ rows[1].draft = d
          BY <1>0, <4>0, <5>1 DEF CallKnown, Calling, InFlight
        <5>. QED
          BY <2>4, <5>2 DEF HasOpenUpsert, IsUpsert
      <4>. QED
        BY <2>6, <3>3, <4>1 DEF GmailUpdates, Writes, With
    <3>4. CASE GmailDeletes
      BY <2>6, <3>4 DEF GmailDeletes, Without, Restrict
    <3>. QED
      BY <1>1, <3>1, <3>2, <3>3, <3>4, RemoteWrites DEF OwnMove
  <2>. QED
    BY <2>1, <2>5, <2>7 DEF g
<1>. QED
  BY <1>0, <1>2, <1>3, <1>4, <1>5 DEF DraftsFollow, Edited, Born, Unmoved

-----------------------------------------------------------------------------
(* The invariant holds at first and is kept. *)

LEMMA InvInit ==
  ASSUME Init
  PROVE  Inv
<1>1. Known
  BY KnownInit
<1>2. DOMAIN drafts = {} /\ DOMAIN gmail = {} /\ DOMAIN rows = {} /\ DOMAIN sends = {} /\ run = "idle"
  BY DEF Init
<1>3. NoneForgotten /\ TiedOnce /\ SeenIsTied /\ SeenIsFirst /\ SavingIsBacked
  BY <1>2 DEF NoneForgotten, TiedOnce, Tied, SeenIsTied, SeenIsFirst, Visiting, SavingIsBacked
<1>4. WaitsOnce /\ RevsKnown /\ CallIsAlone /\ FetchIsNews
  BY <1>2 DEF WaitsOnce, RevsKnown, CallIsAlone, Calling, FetchIsNews, Visiting
<1>5. RowsCurrent /\ SyncedIsMirrored
  BY <1>2 DEF RowsCurrent, SyncedIsMirrored, InGmailIsInGmail
<1>. QED
  BY <1>1, <1>3, <1>4, <1>5 DEF Inv

LEMMA InvStep ==
  ASSUME Inv, [Next]_vars
  PROVE  Inv'
<1>0. Known /\ Known'
  BY KnownStep DEF Inv
<1>1. CASE Next
  <2>1. Grows
    BY <1>0, Counting DEF Known
  <2>2. NoneForgotten' /\ TiedOnce'
    BY <1>1, <2>1, NoneForgottenStep, TiedOnceStep DEF Inv
  <2>3. SeenIsTied' /\ SeenIsFirst' /\ SavingIsBacked'
    BY <1>1, <2>1, SeenIsTiedStep, SeenIsFirstStep, SavingIsBackedStep DEF Inv
  <2>4. WaitsOnce' /\ RevsKnown' /\ CallIsAlone'
    BY <1>1, <2>1, WaitsOnceStep, RevsKnownStep, CallIsAloneStep DEF Inv
  <2>5. FetchIsNews'
    BY <1>1, <2>1, FetchIsNewsStep DEF Inv
  <2>6. RowsCurrent'
    BY <1>1, <2>1, <2>4, RowsCurrentStep DEF Inv
  <2>7. SyncedIsMirrored'
    BY <1>1, <2>1, SyncedIsMirroredStep DEF Inv
  <2>. QED
    BY <1>0, <2>2, <2>3, <2>4, <2>5, <2>6, <2>7 DEF Inv
<1>2. CASE UNCHANGED vars
  <2>1. UNCHANGED <<drafts, armed, rows, gmail, sends, run, job, answer, seen, todo>>
        /\ UNCHANGED <<lastDraft, lastGmail, lastText, lists, remote, faults, owed, theirs, stray>>
    BY <1>2 DEF vars
  <2>2. NoneForgotten' /\ TiedOnce' /\ SeenIsTied' /\ SeenIsFirst' /\ SavingIsBacked'
    BY <2>1 DEF Inv, NoneForgotten, Held, TiedOnce, Tied, Leaves, SentAndListed, SeenIsTied, SeenIsFirst, Visiting,
                Overlapped, Here, SavingIsBacked, Happened, HasOpenUpsert, LocalOf
  <2>3. WaitsOnce' /\ RevsKnown' /\ CallIsAlone'
    BY <2>1 DEF Inv, WaitsOnce, Waits, RevsKnown, RevKnown, CallIsAlone, Calling, Calm, Happened, SentAndListed
  <2>4. FetchIsNews'
    BY <2>1 DEF Inv, FetchIsNews, Visiting, Calm, Happened, SentAndListed
  <2>5. RowsCurrent' /\ SyncedIsMirrored'
    BY <2>1 DEF Inv, RowsCurrent, Waits, Undisturbed, Calling, Calm, Happened, SentAndListed,
                SyncedIsMirrored, InGmailIsInGmail, HasOpenUpsert
  <2>. QED
    BY <1>0, <2>2, <2>3, <2>4, <2>5 DEF Inv
<1>. QED
  BY <1>1, <1>2

(* The invariant is one: whatever the user, Gmail, the drain and the       *)
(* reconcile do, in whatever order, for every bound of the model.          *)
THEOREM Invariance == Spec => []Inv
<1>1. Init => Inv
  BY InvInit
<1>2. Inv /\ [Next]_vars => Inv'
  BY InvStep
<1>. QED
  BY <1>1, <1>2, PTL DEF Spec

(* Nothing the app made in Gmail is forgotten there, in any order of       *)
(* edits, sends, undos, reconciles and faults. As long as not both a       *)
(* reconcile ran and a message was sent, nothing is tied to two drafts     *)
(* either, or to a draft and a message that waits to go out.               *)
THEOREM Ties == Spec => []TiesHold
<1>1. Inv => NoStrayDraft
  BY DEF Inv, NoneForgotten, Held, NoStrayDraft
<1>2. Inv => LinkedOnce
  BY DEF Inv, TiedOnce, Leaves, LinkedOnce, OneDraftOneGmail
<1>3. Inv => TiesHold
  BY <1>1, <1>2 DEF TiesHold
<1>. QED
  BY <1>3, Invariance, PTL

(* The state a draft shows is true, but for what each part names. SAVING   *)
(* has something behind it, unless a dead token failed its row or a second *)
(* reconcile came after a send; IN GMAIL is in Gmail as it reads here,     *)
(* unless it was changed there, an answer was lost, the app died, or both  *)
(* a reconcile ran and a message was sent.                                 *)
THEOREM StatesAreTrue == Spec => []StateIsTrue
<1>1. Inv => StateIsTrue
  BY DEF Inv, StateIsTrue
<1>. QED
  BY <1>1, Invariance, PTL

(* As long as no answer was lost, the app did not die and not both a       *)
(* reconcile ran and a message was sent, an import never puts back a text  *)
(* the draft had before: an older text that replaces a newer one was       *)
(* written in Gmail.                                                       *)
THEOREM ImportsBringNews == Spec => ImportBringsNews
<1>. DEFINE News == ~Happened("error") /\ ~Happened("crash") /\ ~SentAndListed =>
                      \A d \in DOMAIN drafts \cap DOMAIN drafts' :
                        drafts'[d].text < drafts[d].text => drafts'[d].text \in theirs
<1>1. ASSUME Inv, Next PROVE News
  <2>0. Known /\ DraftsFollow /\ DraftsKnown /\ Counted /\ FetchIsNews
    BY <1>1, DraftsMove DEF Inv, Known
  <2>. SUFFICES ASSUME Calm, NEW d \in DOMAIN drafts, d \in DOMAIN drafts', drafts'[d].text < drafts[d].text
                PROVE  drafts'[d].text \in theirs
    BY DEF Calm
  <2>1. drafts[d].text \in Nat /\ drafts[d].text <= lastText /\ lastText \in Nat
    BY <2>0 DEF DraftsKnown, Draft, Counted
  <2>2. ~Edited(d)
    BY <2>1 DEF Edited, EditDraft, NewText
  <2>3. ~Unmoved(d) /\ ~Acked(d) /\ ~Born(d)
    BY <2>1 DEF Unmoved, Acked, Born
  <2>4. Imported(d)
    BY <2>0, <2>2, <2>3 DEF DraftsFollow
  <2>5. run = "stage" /\ Visiting /\ drafts[d].gid = seen.at /\ drafts'[d].text = seen.fetched.text
    BY <2>4 DEF Imported, Import, Visiting
  <2>. QED
    BY <2>0, <2>5 DEF FetchIsNews
<1>2. ASSUME Inv, UNCHANGED vars PROVE [News]_vars
  BY <1>2
<1>3. Inv /\ [Next]_vars => [News]_vars
  BY <1>1, <1>2
<1>. QED
  BY <1>3, Invariance, PTL DEF Spec, ImportBringsNews

-----------------------------------------------------------------------------
CallRecords == [step : {"ready", "throttled", "out", "ended", "backs off"},
                parts : Nat, attempt : Nat, at : Nat]

Mark == [at : Nat, sum : Nat]

(* The types, and that the bucket was asked, and the window opened, in the *)
(* past.                                                                   *)
QuotaType ==
  /\ now \in Nat /\ tokens \in Int /\ last \in Nat /\ reserved \in Nat
  /\ call \in [Quota!Calls -> CallRecords]
  /\ window \in Mark /\ grant \in Mark
  /\ last <= now /\ window.at <= now

InBucket ==
  \/ reserved = window.sum
  \/ /\ last >= window.at
     /\ reserved - window.sum <= Capacity + Rate * (last - window.at) - tokens

QuotaInv ==
  /\ QuotaType
  /\ tokens <= Capacity
  /\ window.sum <= reserved
  /\ grant.sum = reserved
  /\ InBucket
  /\ Quota!Paced

(* A rate over two stretches of time is the rate over both. *)
LEMMA Stretches ==
  ASSUME NEW r \in Int, NEW a \in Int, NEW b \in Int, NEW c \in Int
  PROVE  r * (b - a) + (c - b) * r = r * (c - a)
BY SMT

LEMMA Products ==
  ASSUME NEW a \in Nat, NEW b \in Nat
  PROVE  a * b \in Nat
BY SMT

(* A call stays a call. *)
LEMMA CallsStay ==
  ASSUME NEW calls \in [Quota!Calls -> CallRecords], NEW c \in Quota!Calls, NEW parts \in Nat, NEW attempt \in Nat, NEW at \in Nat,
         NEW step \in {"ready", "throttled", "out", "ended", "backs off"}
  PROVE  [calls EXCEPT ![c] = [step |-> step, parts |-> parts, attempt |-> attempt, at |-> at]]
           \in [Quota!Calls -> CallRecords]
<1>1. [step |-> step, parts |-> parts, attempt |-> attempt, at |-> at] \in CallRecords
  BY DEF CallRecords
<1>. QED
  BY <1>1

(* The bucket never holds more than its capacity, nor more than it held    *)
(* and what came in.                                                       *)
LEMMA RefilledBounds ==
  ASSUME Quota!GmailClientAssumption, tokens \in Int, now \in Nat, last \in Nat
  PROVE  /\ Quota!Refilled \in Int
         /\ Quota!Refilled <= Capacity
         /\ Quota!Refilled <= tokens + (now - last) * Rate
<1>1. (now - last) * Rate \in Int
  BY DEF Quota!GmailClientAssumption
<1>. QED
  BY <1>1 DEF Quota!Refilled, Quota!GmailClientAssumption

(* Waiting pays what the bucket owes. *)
LEMMA WaitPays ==
  ASSUME Quota!GmailClientAssumption, NEW wait \in Nat, NEW lacks \in Int, Quota!IsWait(wait, lacks)
  PROVE  wait * Rate >= -lacks
<1>1. CASE lacks >= 0
  BY <1>1 DEF Quota!IsWait, Quota!GmailClientAssumption
<1>2. CASE ~(lacks >= 0)
  BY <1>2 DEF Quota!IsWait
<1>. QED
  BY <1>1, <1>2

(* A reservation: the bucket's part of Quota!Throttle. *)
LEMMA Reservation ==
  ASSUME Quota!GmailClientAssumption, QuotaInv, NEW c \in Quota!Calls, Quota!Throttle(c)
  PROVE  /\ tokens' \in Int /\ tokens' <= Capacity
         /\ last' = now /\ reserved' \in Nat /\ reserved' >= reserved
         /\ grant' \in Mark /\ grant'.sum = reserved'
         /\ call' \in [Quota!Calls -> CallRecords]
         /\ InBucket' /\ Quota!Paced'
<1> DEFINE units == call[c].parts * Cost
<1>1. call[c] \in CallRecords
  BY DEF QuotaInv, QuotaType
<1>2. units \in Nat
  <2>1. call[c].parts \in Nat /\ Cost \in Nat
    BY <1>1 DEF CallRecords, Quota!GmailClientAssumption
  <2>. QED
    BY <2>1, Products
<1>3. /\ Quota!Refilled \in Int
      /\ Quota!Refilled <= Capacity
      /\ Quota!Refilled <= tokens + (now - last) * Rate
  BY RefilledBounds DEF QuotaInv, QuotaType
<1>4. /\ tokens' = Quota!Refilled - units
      /\ last' = now
      /\ reserved' = reserved + units
      /\ UNCHANGED <<now, window>>
  BY DEF Quota!Throttle
<1>5. /\ tokens' \in Int /\ tokens' <= Capacity
      /\ reserved' \in Nat /\ reserved' >= reserved
  BY <1>2, <1>3, <1>4 DEF QuotaInv, QuotaType, Quota!GmailClientAssumption
<1>6. PICK wait \in 0..(MaxClock + Capacity + reserved + units) :
        /\ Quota!IsWait(wait, tokens')
        /\ Quota!Becomes(c, "throttled", call[c].parts, call[c].attempt, now + wait)
        /\ grant' = [at |-> now + wait, sum |-> reserved']
  BY DEF Quota!Throttle
<1>7. wait \in Nat
  OBVIOUS
<1>8. wait * Rate >= -tokens'
  BY <1>5, <1>6, <1>7, WaitPays
<1>9. grant' \in Mark /\ grant'.sum = reserved' /\ grant'.at = now + wait
  BY <1>5, <1>6, <1>7 DEF Mark, QuotaInv, QuotaType
<1>10. call' \in [Quota!Calls -> CallRecords]
  <2>1. call[c].parts \in Nat /\ call[c].attempt \in Nat
    BY <1>1 DEF CallRecords
  <2>2. call \in [Quota!Calls -> CallRecords] /\ now \in Nat
    BY DEF QuotaInv, QuotaType
  <2>3. now + wait \in Nat
    BY <2>2, <1>7
  <2>. QED
    BY <2>1, <2>2, <2>3, <1>6, CallsStay DEF Quota!Becomes
<1>11. /\ window \in Mark /\ window' = window /\ window.at \in Nat /\ window.sum \in Nat
       /\ window.at <= now /\ now \in Nat /\ last \in Nat /\ tokens \in Int
  BY <1>4 DEF QuotaInv, QuotaType, Mark
<1>12. /\ Rate * (now - window.at) \in Int /\ Rate * (last - window.at) \in Int
       /\ (now - last) * Rate \in Int /\ Rate * (now - window.at) >= 0
  BY <1>11 DEF Quota!GmailClientAssumption
<1>13. reserved' - window.sum <= Capacity + Rate * (now - window.at) - tokens'
  <2>1. CASE reserved = window.sum
    <3>1. reserved' - window.sum = units
      BY <2>1, <1>2, <1>4, <1>11
    <3>2. units <= Capacity - tokens'
      BY <1>2, <1>3, <1>4 DEF Quota!GmailClientAssumption
    <3>. QED
      BY <3>1, <3>2, <1>2, <1>5, <1>12 DEF Quota!GmailClientAssumption
  <2>2. CASE /\ last >= window.at
             /\ reserved - window.sum <= Capacity + Rate * (last - window.at) - tokens
    <3>1. Rate * (last - window.at) + (now - last) * Rate = Rate * (now - window.at)
      BY <1>11, Stretches DEF Quota!GmailClientAssumption
    <3>2. reserved' - window.sum = (reserved - window.sum) + units
      BY <1>2, <1>4, <1>11 DEF QuotaInv, QuotaType
    <3>3. tokens' <= tokens + (now - last) * Rate - units
      BY <1>2, <1>3, <1>4, <1>11, <1>12
    <3>. QED
      BY <2>2, <3>1, <3>2, <3>3, <1>2, <1>5, <1>11, <1>12 DEF Quota!GmailClientAssumption, QuotaInv, QuotaType
  <2>. QED
    BY <2>1, <2>2 DEF QuotaInv, InBucket
<1>14. InBucket'
  BY <1>4, <1>11, <1>13 DEF InBucket
<1>15. Quota!Paced'
  <2>1. Rate * (now - window.at) + wait * Rate = Rate * (now + wait - window.at)
    <3>1. Rate * (now - window.at) + ((now + wait) - now) * Rate = Rate * ((now + wait) - window.at)
      BY <1>7, <1>11, Stretches DEF Quota!GmailClientAssumption
    <3>. QED
      BY <3>1, <1>7, <1>11
  <2>2. wait * Rate \in Int /\ Rate * (now + wait - window.at) \in Int
    BY <1>7, <1>11 DEF Quota!GmailClientAssumption
  <2>3. reserved' - window.sum <= Capacity + Rate * (now + wait - window.at)
    <3>1. ASSUME NEW come \in Int, NEW pay \in Int, NEW later \in Int, NEW debt \in Int, NEW sum \in Int, NEW cap \in Int,
                 come + pay = later, pay >= -debt, sum <= cap + come - debt
          PROVE  sum <= cap + later
      BY <3>1
    <3>2. reserved' - window.sum \in Int /\ Capacity \in Int
      BY <1>5, <1>11 DEF Quota!GmailClientAssumption
    <3>. QED
      BY <3>1, <3>2, <1>5, <1>8, <1>12, <1>13, <2>1, <2>2
  <2>. QED
    BY <2>3, <1>9, <1>11 DEF Quota!Paced
<1>. QED
  BY <1>4, <1>5, <1>9, <1>10, <1>14, <1>15

(* Whoever does not reserve, and does not touch the window, leaves the     *)
(* bucket alone.                                                           *)
LEMMA QuotaElsewhere ==
  ASSUME QuotaInv, UNCHANGED <<tokens, last, reserved, window, grant>>,
         now' \in Nat, now' >= now, call' \in [Quota!Calls -> CallRecords]
  PROVE  QuotaInv'
<1>1. QuotaType'
  BY DEF QuotaInv, QuotaType, Mark
<1>. QED
  BY <1>1 DEF QuotaInv, InBucket, Quota!Paced

LEMMA QuotaStep ==
  ASSUME Quota!GmailClientAssumption, QuotaInv, [Quota!Next]_quota
  PROVE  QuotaInv'
<1>1. CASE Quota!Tick
  BY <1>1, QuotaElsewhere DEF Quota!Tick, QuotaInv, QuotaType
<1>2. CASE Quota!Opens
  <2>1. QuotaType'
    BY <1>2 DEF Quota!Opens, QuotaInv, QuotaType, Mark
  <2>. QED
    BY <2>1, <1>2 DEF Quota!Opens, QuotaInv, QuotaType, InBucket, Quota!Paced, Mark
<1>3. ASSUME NEW c \in Quota!Calls, Quota!Throttle(c) PROVE QuotaInv'
  <2>1. /\ tokens' \in Int /\ tokens' <= Capacity
        /\ last' = now /\ reserved' \in Nat /\ reserved' >= reserved
        /\ grant' \in Mark /\ grant'.sum = reserved'
        /\ call' \in [Quota!Calls -> CallRecords]
        /\ InBucket' /\ Quota!Paced'
    BY <1>3, Reservation
  <2>2. UNCHANGED <<now, window>>
    BY <1>3 DEF Quota!Throttle
  <2>3. QuotaType'
    BY <2>1, <2>2 DEF QuotaInv, QuotaType
  <2>4. (window.sum <= reserved)'
    BY <2>1, <2>2 DEF QuotaInv, QuotaType, Mark
  <2>. QED
    BY <2>1, <2>3, <2>4 DEF QuotaInv
<1>4. ASSUME NEW c \in Quota!Calls, Quota!Goes(c) \/ Quota!Answered(c) \/ Quota!Unauthorized(c) \/ Quota!Retries(c) \/ Quota!BacksOff(c)
      PROVE  QuotaInv'
  <2>1. /\ call \in [Quota!Calls -> CallRecords] /\ now \in Nat
        /\ call[c].parts \in Nat /\ call[c].attempt \in Nat
    BY DEF QuotaInv, QuotaType, CallRecords
  <2>2. call' \in [Quota!Calls -> CallRecords]
    <3>5. CASE Quota!Goes(c)
      BY <3>5, <2>1, CallsStay DEF Quota!Goes, Quota!Becomes
    <3>1. CASE Quota!BacksOff(c)
      BY <3>1, <2>1, CallsStay DEF Quota!BacksOff, Quota!Becomes
    <3>2. ASSUME Quota!Ends(c) PROVE call' \in [Quota!Calls -> CallRecords]
      BY <3>2, <2>1, CallsStay DEF Quota!Ends, Quota!Becomes
    <3>3. CASE Quota!Unauthorized(c)
      BY <3>3, <2>1, CallsStay DEF Quota!Unauthorized, Quota!Becomes
    <3>4. CASE Quota!Retries(c)
      <4>1. CASE call[c].attempt + 1 < MaxAttempts
        <5>1. PICK rest \in 1..call[c].parts, wait \in 0..MaxBackoff :
                Quota!Becomes(c, "backs off", rest, call[c].attempt + 1, now + wait)
          BY <3>4, <4>1 DEF Quota!Retries
        <5>2. rest \in Nat /\ call[c].attempt + 1 \in Nat /\ now + wait \in Nat
          BY <2>1
        <5>. QED
          BY <5>1, <5>2, <2>1, CallsStay DEF Quota!Becomes
      <4>. QED
        BY <4>1, <3>2, <3>4 DEF Quota!Retries
    <3>. QED
      BY <1>4, <3>5, <3>1, <3>2, <3>3, <3>4 DEF Quota!Answered
  <2>3. UNCHANGED <<now, tokens, last, reserved, window, grant>>
    BY <1>4 DEF Quota!Goes, Quota!Answered, Quota!Unauthorized, Quota!Retries, Quota!BacksOff
  <2>. QED
    BY <2>1, <2>2, <2>3, QuotaElsewhere
<1>5. CASE UNCHANGED quota
  BY <1>5, QuotaElsewhere DEF quota, QuotaInv, QuotaType
<1>. QED
  BY <1>1, <1>2, <1>3, <1>4, <1>5 DEF Quota!Next

-----------------------------------------------------------------------------
(* Attachments. *)

CacheType ==
  /\ row \in [Pieces -> {0} \cup Files!Names]
  /\ file \in [Files!Names -> Pieces \cup {NoPart}]
  /\ orphans \in SUBSET Files!Names
  /\ emptied \in BOOLEAN

(* A path that waits for the reaper still holds its file, and no row names *)
(* it: so it cannot be given away before the reaper took it.               *)
OrphansWait ==
  ~emptied => \A n \in orphans : Files!Exists(n) /\ \A p \in Pieces : row[p] # n

CacheInv == CacheType /\ OrphansWait /\ Files!RightBytes

(* The name of a file is free, or that of the part itself. *)
LEMMA NameIsFree ==
  ASSUME CacheInv, NEW p \in Pieces, \E n \in Files!Names : ~Files!Taken(n, p)
  PROVE  Files!NameFor(p) \in Files!Names /\ ~Files!Taken(Files!NameFor(p), p)
<1>. DEFINE S == {n \in Files!Names : ~Files!Taken(n, p)}
<1>1. S \in SUBSET Nat /\ S # {}
  BY DEF Files!Names
<1>2. Min(S) \in S
  <2>. HIDE DEF S
  <2>. QED
    BY <1>1, MinIsLeast
<1>. QED
  BY <1>2 DEF Files!NameFor, Files!Min, Min

LEMMA CacheStep ==
  ASSUME CacheInv, [Files!Next]_cache
  PROVE  CacheInv'
<1>. USE WorkersAssumption DEF WorkersAssumption
<1>1. ASSUME NEW p \in Pieces, Files!Open(p) PROVE CacheInv'
  <2>1. CacheType'
    BY <1>1 DEF Files!Open, CacheInv, CacheType, Files!Orphaned
  <2>2. ~emptied => row[p] = 0
    BY <1>1 DEF Files!Open, CacheInv, CacheType, Files!RightBytes, Files!Exists
  <2>3. ~emptied' => UNCHANGED <<row, orphans, file>>
    BY <2>2, <1>1 DEF Files!Open, CacheInv, CacheType, Files!Orphaned
  <2>. QED
    BY <2>1, <2>3, <1>1 DEF CacheInv, Files!Open, OrphansWait, Files!RightBytes, Files!Exists
<1>2. ASSUME NEW p \in Pieces, Files!Lands(p) PROVE CacheInv'
  <2>. DEFINE n == Files!NameFor(p)
  <2>1. n \in Files!Names /\ ~Files!Taken(n, p)
    BY <1>2, NameIsFree DEF Files!Lands
  <2>2. n = row[p] \/ file[n] = NoPart
    BY <2>1 DEF Files!Taken, Files!Exists
  <2>. HIDE DEF n
  <2>3. /\ file' = [file EXCEPT ![n] = p]
        /\ row' = [row EXCEPT ![p] = n] \/ row' = row
        /\ UNCHANGED <<orphans, emptied>>
    BY <1>2 DEF Files!Lands, n
  <2>4. CacheType'
    BY <2>1, <2>3 DEF CacheInv, CacheType
  <2>5. ~emptied => n \notin orphans
    BY <2>1, <2>2 DEF CacheInv, OrphansWait, Files!Exists
  <2>6. ~emptied => \A q \in Pieces \ {p} : row[q] # n
    BY <2>1, <2>2 DEF CacheInv, CacheType, Files!RightBytes, Files!Names
  <2>7. OrphansWait'
    BY <2>1, <2>3, <2>5 DEF CacheInv, CacheType, OrphansWait, Files!Exists
  <2>8. Files!RightBytes'
    BY <2>1, <2>3, <2>6 DEF CacheInv, CacheType, Files!RightBytes, Files!Names
  <2>. QED
    BY <2>4, <2>7, <2>8 DEF CacheInv
<1>3. CASE Files!MessageGoes
  <2>1. CacheType'
    BY <1>3 DEF Files!MessageGoes, CacheInv, CacheType, Files!Orphaned
  <2>2. OrphansWait'
    BY <1>3 DEF Files!MessageGoes, CacheInv, CacheType, Files!Orphaned, OrphansWait, Files!RightBytes,
                Files!Exists, Files!Names
  <2>3. Files!RightBytes'
    BY <1>3 DEF Files!MessageGoes, Files!RightBytes
  <2>. QED
    BY <2>1, <2>2, <2>3 DEF CacheInv
(* What the reaper unlinks, it has taken off its list. *)
<1>4. ASSUME NEW taken \in SUBSET orphans, NEW unlinked \in SUBSET taken,
             orphans' = orphans \ taken, file' = Files!Without(unlinked), UNCHANGED <<row, emptied>>
      PROVE  CacheInv'
  <2>1. CacheType'
    BY <1>4 DEF CacheInv, CacheType, Files!Without
  <2>2. OrphansWait'
    BY <1>4 DEF CacheInv, CacheType, Files!Without, OrphansWait, Files!Exists
  <2>3. Files!RightBytes'
    BY <1>4 DEF CacheInv, CacheType, Files!Without, OrphansWait, Files!RightBytes
  <2>. QED
    BY <2>1, <2>2, <2>3 DEF CacheInv
<1>5. ASSUME NEW B \in Files!Batches, Files!Sweep(B) PROVE CacheInv'
  <2>1. PICK gone \in SUBSET B : Files!Unlinks(B, gone)
    BY <1>5 DEF Files!Sweep
  <2>2. B \in SUBSET orphans
    BY DEF Files!Batches
  <2>. QED
    BY <2>1, <2>2, <1>4, <1>5 DEF Files!Sweep, Files!Unlinks
<1>6. CASE Files!SweepDies
  <2>1. PICK B \in Files!Batches : \E taken \in SUBSET B : \E gone \in SUBSET taken : Files!Unlinks(taken, gone)
    BY <1>6 DEF Files!SweepDies
  <2>2. B \in SUBSET orphans
    BY DEF Files!Batches
  <2>. QED
    BY <2>1, <2>2, <1>4, <1>6 DEF Files!SweepDies, Files!Unlinks
<1>7. ASSUME NEW n \in Files!Names, Files!RemovedByHand(n) PROVE CacheInv'
  <2>1. CacheType' /\ emptied'
    BY <1>7 DEF Files!RemovedByHand, CacheInv, CacheType, Files!Without
  <2>. QED
    BY <2>1 DEF CacheInv, OrphansWait, Files!RightBytes
<1>8. CASE \/ \E p \in Pieces : Files!Fails(p)
           \/ Files!MessageReturns
           \/ UNCHANGED cache
  BY <1>8 DEF CacheInv, CacheType, OrphansWait, Files!RightBytes, Files!Exists, Files!Fails, Files!MessageReturns, cache
(* The file has its name, and its row not yet. *)
<1>9. ASSUME NEW p \in Pieces, Files!LandsDies(p) PROVE CacheInv'
  <2>. DEFINE n == Files!NameFor(p)
  <2>1. n \in Files!Names /\ ~Files!Taken(n, p)
    BY <1>9, NameIsFree DEF Files!LandsDies
  <2>2. n = row[p] \/ file[n] = NoPart
    BY <2>1 DEF Files!Taken, Files!Exists
  <2>. HIDE DEF n
  <2>3. /\ file' = [file EXCEPT ![n] = p]
        /\ UNCHANGED <<row, orphans, emptied>>
    BY <1>9 DEF Files!LandsDies, n
  <2>4. CacheType'
    BY <2>1, <2>3 DEF CacheInv, CacheType
  <2>5. ~emptied => n \notin orphans /\ \A q \in Pieces \ {p} : row[q] # n
    BY <2>1, <2>2 DEF CacheInv, CacheType, OrphansWait, Files!RightBytes, Files!Exists, Files!Names
  <2>6. OrphansWait'
    BY <2>1, <2>3, <2>5 DEF CacheInv, CacheType, OrphansWait, Files!Exists
  <2>7. Files!RightBytes'
    BY <2>1, <2>3, <2>5 DEF CacheInv, CacheType, Files!RightBytes, Files!Names
  <2>. QED
    BY <2>4, <2>6, <2>7 DEF CacheInv
<1>. QED
  BY <1>1, <1>2, <1>3, <1>5, <1>6, <1>7, <1>8, <1>9 DEF Files!Next

-----------------------------------------------------------------------------
(* Classifier. *)

(* What a run is made of. *)
IsRun(r) ==
  /\ DOMAIN r = {"todo", "asked", "touched", "full", "runs"} /\ r.runs \in BOOLEAN
  /\ ~r.runs => r.todo = <<>> /\ r.asked = 0 /\ r.touched = {}

Verdict == [source : {"none", "rule", "local", "manual"}, of : Nat, last : Nat]

(* Whose verdict was made and not told of is touched by a run that goes on *)
(* to tell; what a pass has before it is filed by hand only since.         *)
FilingInv ==
  /\ IsRun(pass) /\ IsRun(redo)
  /\ untold \subseteq pass.touched \cup redo.touched
  /\ verdict \in [Threads -> Verdict] /\ newest \in [Threads -> Nat]
  /\ pass.todo \in Seq(Threads) /\ redo.todo \in Seq(Threads)
  /\ pass.asked \in Nat /\ redo.asked \in Nat
  /\ \A i \in DOMAIN pass.todo : verdict[pass.todo[i]].source = "manual" => pass.todo[i] \in late

LEMMA SetToSeqsAre ==
  ASSUME NEW S, IsFiniteSet(S), NEW s \in SetToSeqs(S)
  PROVE  s \in Seq(S)
<1>1. Cardinality(S) \in Nat
  BY FS_CardinalityType
<1>. QED
  BY <1>1 DEF SetToSeqs

(* A part of a finite set is named in any order. *)
LEMMA OrdersAre ==
  ASSUME NEW S, IsFiniteSet(S), NEW n \in Nat, NEW s \in Filing!Orders(S, n)
  PROVE  s \in Seq(S)
<1>1. PICK T \in SUBSET S : s \in SetToSeqs(T)
  BY DEF Filing!Orders, Filing!kSubset, Filing!SetToSeqs, SetToSeqs, Filing!Cardinality, Cardinality
<1>2. IsFiniteSet(T)
  BY <1>1, FS_Subset
<1>3. s \in Seq(T)
  BY <1>1, <1>2, SetToSeqsAre
<1>. QED
  BY <1>1, <1>3

LEMMA RunIsRun ==
  ASSUME NEW list, NEW full \in BOOLEAN
  PROVE  LET r == Filing!Run(list, full)
         IN  IsRun(r) /\ r.todo = list /\ r.touched = {} /\ r.asked = 0 /\ r.runs
BY DEF Filing!Run, Filing!Idle, IsRun

LEMMA IdleIsRun ==
  /\ IsRun(Filing!Idle) /\ Filing!Idle.todo = <<>> /\ Filing!Idle.touched = {}
  /\ Filing!Idle.asked = 0 /\ ~Filing!Idle.runs
BY DEF Filing!Idle, IsRun

(* A pass that begins has touched nothing, and nothing before it is filed  *)
(* by hand.                                                                *)
LEMMA PassIsFresh ==
  ASSUME FilingInv, NEW p, Filing!Begins(p)
  PROVE  /\ IsRun(p) /\ p.touched = {} /\ p.todo \in Seq(Threads) /\ p.asked = 0
         /\ \A i \in DOMAIN p.todo : verdict[p.todo[i]].source # "manual"
         /\ late' = {}
<1>. USE WorkersAssumption DEF WorkersAssumption
<1>. DEFINE W == Filing!Wanted
            n == Min({Batch, Cardinality(W)})
<1>1. W \in SUBSET Threads /\ IsFiniteSet(W) /\ \A t \in W : verdict[t].source # "manual"
  BY FS_Subset DEF Filing!Wanted, Filing!Here
<1>2. n \in Nat
  <2>1. {Batch, Cardinality(W)} \in SUBSET Nat
    BY <1>1, FS_CardinalityType
  <2>. QED
    BY <2>1, MinIsLeast
<1>. HIDE DEF W, n
<1>3. /\ p = Filing!Idle \/ \E list \in Filing!Orders(W, n) : p = Filing!Run(list, n = Batch)
      /\ late' = {}
  BY DEF Filing!Begins, W, n, Filing!Min, Min, Filing!Cardinality, Cardinality
<1>4. CASE p = Filing!Idle
  BY <1>3, <1>4, IdleIsRun
<1>5. ASSUME NEW list \in Filing!Orders(W, n), p = Filing!Run(list, n = Batch)
      PROVE  /\ IsRun(p) /\ p.touched = {} /\ p.todo \in Seq(Threads) /\ p.asked = 0
             /\ \A i \in DOMAIN p.todo : verdict[p.todo[i]].source # "manual"
  <2>1. IsRun(p) /\ p.touched = {} /\ p.todo = list /\ p.asked = 0
    BY <1>5, RunIsRun
  <2>2. list \in Seq(W)
    BY <1>1, <1>2, OrdersAre
  <2>. QED
    BY <1>1, <2>1, <2>2
<1>. QED
  BY <1>3, <1>4, <1>5

(* A run goes on: it answers for its next thread, or asks of it. *)
LEMMA Answering ==
  ASSUME NEW r, IsRun(r), r.todo \in Seq(Threads), r.todo # <<>>, NEW new,
         new = Filing!Answered(r, Head(r.todo))
  PROVE  /\ IsRun(new) /\ new.todo = Tail(r.todo) /\ new.asked = 0 /\ new.runs
         /\ new.touched = r.touched \cup {Head(r.todo)}
<1>1. r.runs
  BY IdleIsRun DEF IsRun
<1>. QED
  BY <1>1 DEF IsRun, Filing!Answered

Asked(r, n) == [r EXCEPT !.asked = n]

LEMMA Asking ==
  ASSUME NEW r, IsRun(r), r.todo # <<>>, NEW n, NEW new, new = Asked(r, n)
  PROVE  /\ IsRun(new) /\ new.todo = r.todo /\ new.asked = n
         /\ new.touched = r.touched
<1>1. r.runs
  BY IdleIsRun DEF IsRun
<1>. QED
  BY <1>1 DEF IsRun, Asked

LEMMA TailIs ==
  ASSUME NEW s \in Seq(Threads), s # <<>>
  PROVE  /\ Tail(s) \in Seq(Threads) /\ Head(s) \in Threads /\ Head(s) = s[1] /\ 1 \in DOMAIN s
         /\ \A i \in DOMAIN Tail(s) : i + 1 \in DOMAIN s /\ Tail(s)[i] = s[i + 1]
OBVIOUS

(* A verdict a run gives to its next thread. *)
FilesNext(r, new) ==
  /\ r.todo # <<>> /\ new = Filing!Answered(r, Head(r.todo))
  /\ untold' = untold \cup {Head(r.todo)}
  /\ \E source \in {"rule", "local"}, of \in Nat :
       verdict' = [verdict EXCEPT ![Head(r.todo)] = [source |-> source, of |-> of, last |-> newest[Head(r.todo)]]]

AsksNext(r, new) ==
  /\ r.todo # <<>> /\ new = Asked(r, newest[Head(r.todo)])
  /\ UNCHANGED <<verdict, untold>>

LEMMA FilingGoesOn ==
  ASSUME FilingInv, NEW r, NEW new, r.todo \in Seq(Threads), r.todo # <<>>, r.asked \in Nat,
         Filing!Rules(r, new) \/ Filing!Asks(r, new) \/ Filing!Answers(r, new)
  PROVE  FilesNext(r, new) \/ AsksNext(r, new)
<1>1. Head(r.todo) \in Threads
  BY TailIs
<1>2. newest[Head(r.todo)] \in Nat
  BY <1>1 DEF FilingInv
<1>. QED
  BY <1>2 DEF Filing!Rules, Filing!Asks, Filing!Answers, Filing!Record, FilesNext, AsksNext, Asked

(* The invariant, and what was filed by hand stays, together. *)
StaysOut ==
  \A t \in Threads : verdict[t].source = "manual" /\ verdict'[t].source # "manual" =>
    t \in late \/ (redo.runs /\ pass' = pass)

LEMMA VerdictGiven ==
  ASSUME FilingInv, NEW t \in Threads, NEW source \in {"rule", "local"}, NEW of \in Nat,
         verdict' = [verdict EXCEPT ![t] = [source |-> source, of |-> of, last |-> newest[t]]]
  PROVE  /\ verdict' \in [Threads -> Verdict]
         /\ verdict'[t].source # "manual"
         /\ \A s \in Threads : s # t => verdict'[s] = verdict[s]
<1>1. [source |-> source, of |-> of, last |-> newest[t]] \in Verdict
  BY DEF FilingInv, Verdict
<1>. QED
  BY <1>1 DEF FilingInv

LEMMA PassOn ==
  ASSUME FilingInv, pass.todo # <<>>,
         Filing!Rules(pass, pass') \/ Filing!Asks(pass, pass') \/ Filing!Answers(pass, pass'),
         UNCHANGED <<newest, redo, late>>
  PROVE  FilingInv' /\ StaysOut
<1>1. FilesNext(pass, pass') \/ AsksNext(pass, pass')
  BY FilingGoesOn DEF FilingInv
<1>. DEFINE t == Head(pass.todo)
<1>2. /\ t \in Threads /\ t = pass.todo[1] /\ 1 \in DOMAIN pass.todo /\ Tail(pass.todo) \in Seq(Threads)
      /\ \A i \in DOMAIN Tail(pass.todo) : i + 1 \in DOMAIN pass.todo /\ Tail(pass.todo)[i] = pass.todo[i + 1]
  BY TailIs DEF FilingInv
<1>. HIDE DEF t
<1>3. CASE FilesNext(pass, pass')
  <2>1. /\ IsRun(pass') /\ pass'.todo = Tail(pass.todo) /\ pass'.asked = 0
        /\ pass'.touched = pass.touched \cup {t} /\ untold' = untold \cup {t}
    BY <1>3, Answering DEF FilesNext, FilingInv, t
  <2>2. PICK source \in {"rule", "local"}, of \in Nat :
          verdict' = [verdict EXCEPT ![t] = [source |-> source, of |-> of, last |-> newest[t]]]
    BY <1>3 DEF FilesNext, t
  <2>3. /\ verdict' \in [Threads -> Verdict]
        /\ verdict'[t].source # "manual"
        /\ \A s \in Threads : s # t => verdict'[s] = verdict[s]
    BY <1>2, <2>2, VerdictGiven
  <2>4. ASSUME NEW i \in DOMAIN pass'.todo, verdict'[pass'.todo[i]].source = "manual"
        PROVE  pass'.todo[i] \in late'
    <3>1. pass'.todo[i] = pass.todo[i + 1] /\ i + 1 \in DOMAIN pass.todo /\ pass'.todo[i] \in Threads
      BY <1>2, <2>1
    <3>. QED
      BY <2>3, <2>4, <3>1 DEF FilingInv
  <2>5. StaysOut
    BY <1>2, <2>3 DEF StaysOut, FilingInv
  <2>. QED
    BY <1>2, <2>1, <2>3, <2>4, <2>5 DEF FilingInv
<1>4. CASE AsksNext(pass, pass')
  <2>0. IsRun(pass) /\ pass' = Asked(pass, newest[t])
    BY <1>4 DEF AsksNext, FilingInv, t
  <2>1. /\ IsRun(pass') /\ pass'.todo = pass.todo /\ pass'.asked = newest[t] /\ pass'.touched = pass.touched
    BY <2>0, Asking
  <2>2. newest[t] \in Nat
    BY <1>2 DEF FilingInv
  <2>. QED
    BY <1>4, <2>1, <2>2 DEF AsksNext, FilingInv, StaysOut
<1>. QED
  BY <1>1, <1>3, <1>4

LEMMA RedoOn ==
  ASSUME FilingInv, redo.todo # <<>>,
         Filing!Rules(redo, redo') \/ Filing!Asks(redo, redo') \/ Filing!Answers(redo, redo'),
         UNCHANGED <<newest, pass, late>>
  PROVE  FilingInv' /\ StaysOut
<1>1. FilesNext(redo, redo') \/ AsksNext(redo, redo')
  BY FilingGoesOn DEF FilingInv
<1>. DEFINE t == Head(redo.todo)
<1>2. t \in Threads /\ Tail(redo.todo) \in Seq(Threads)
  BY TailIs DEF FilingInv
<1>. HIDE DEF t
<1>3. CASE FilesNext(redo, redo')
  <2>1. /\ IsRun(redo') /\ redo'.todo = Tail(redo.todo) /\ redo'.asked = 0
        /\ redo'.touched = redo.touched \cup {t} /\ untold' = untold \cup {t}
    BY <1>3, Answering DEF FilesNext, FilingInv, t
  <2>2. PICK source \in {"rule", "local"}, of \in Nat :
          verdict' = [verdict EXCEPT ![t] = [source |-> source, of |-> of, last |-> newest[t]]]
    BY <1>3 DEF FilesNext, t
  <2>3. /\ verdict' \in [Threads -> Verdict]
        /\ verdict'[t].source # "manual"
        /\ \A s \in Threads : s # t => verdict'[s] = verdict[s]
    BY <1>2, <2>2, VerdictGiven
  <2>4. ASSUME NEW i \in DOMAIN pass.todo, verdict'[pass.todo[i]].source = "manual"
        PROVE  pass.todo[i] \in late
    <3>1. pass.todo[i] \in Threads
      BY DEF FilingInv
    <3>. QED
      BY <2>3, <2>4, <3>1 DEF FilingInv
  <2>5. redo.runs
    BY IdleIsRun DEF FilingInv, IsRun
  <2>. QED
    BY <1>2, <2>1, <2>3, <2>4, <2>5 DEF FilingInv, StaysOut
<1>4. CASE AsksNext(redo, redo')
  <2>0. IsRun(redo) /\ redo' = Asked(redo, newest[t])
    BY <1>4 DEF AsksNext, FilingInv, t
  <2>1. /\ IsRun(redo') /\ redo'.todo = redo.todo /\ redo'.asked = newest[t] /\ redo'.touched = redo.touched
    BY <2>0, Asking
  <2>2. newest[t] \in Nat
    BY <1>2 DEF FilingInv
  <2>. QED
    BY <1>4, <2>1, <2>2 DEF AsksNext, FilingInv, StaysOut
<1>. QED
  BY <1>1, <1>3, <1>4

LEMMA FilingStep ==
  ASSUME FilingInv, [Filing!Next]_classifier
  PROVE  FilingInv' /\ StaysOut
<1>. USE WorkersAssumption DEF WorkersAssumption
<1>1. ASSUME NEW t \in Threads, Filing!Arrives(t) PROVE FilingInv' /\ StaysOut
  BY <1>1 DEF Filing!Arrives, FilingInv, StaysOut
<1>2. ASSUME NEW t \in Threads, Filing!Refile(t) PROVE FilingInv' /\ StaysOut
  <2>1. [source |-> "manual", of |-> newest[t], last |-> newest[t]] \in Verdict
    BY DEF FilingInv, Verdict
  <2>2. verdict' = [verdict EXCEPT ![t] = [source |-> "manual", of |-> newest[t], last |-> newest[t]]]
    BY <1>2 DEF Filing!Refile, Filing!Record
  <2>3. verdict' \in [Threads -> Verdict] /\ \A s \in Threads : s # t => verdict'[s] = verdict[s]
    BY <2>1, <2>2 DEF FilingInv
  <2>4. verdict'[t].source = "manual"
    BY <2>2 DEF FilingInv
  <2>5. /\ late' = late \cup {t}
        /\ UNCHANGED <<newest, pass, redo, untold>>
    BY <1>2 DEF Filing!Refile
  <2>6. ASSUME NEW i \in DOMAIN pass.todo, verdict'[pass.todo[i]].source = "manual"
        PROVE  pass.todo[i] \in late'
    <3>1. pass.todo[i] \in Threads
      BY DEF FilingInv
    <3>. QED
      BY <2>3, <2>5, <2>6, <3>1 DEF FilingInv
  <2>. QED
    BY <2>3, <2>4, <2>5, <2>6 DEF FilingInv, StaysOut
<1>3. CASE Filing!Tick
  <2>1. CASE pass.runs
    BY <1>3, <2>1 DEF Filing!Tick, Filing!Poke, FilingInv, StaysOut
  <2>2. CASE ~pass.runs
    <3>1. Filing!Begins(pass') /\ UNCHANGED <<newest, verdict, redo, untold>>
      BY <1>3, <2>2 DEF Filing!Tick, Filing!Poke
    <3>2. pass.touched = {}
      BY <2>2, IdleIsRun DEF FilingInv, IsRun
    <3>3. /\ IsRun(pass') /\ pass'.touched = {} /\ pass'.todo \in Seq(Threads) /\ pass'.asked = 0
          /\ \A i \in DOMAIN pass'.todo : verdict[pass'.todo[i]].source # "manual"
      BY <3>1, PassIsFresh
    <3>. QED
      BY <3>1, <3>2, <3>3 DEF FilingInv, StaysOut
  <2>. QED
    BY <2>1, <2>2
<1>4. CASE Filing!Unpause
  BY <1>4 DEF Filing!Unpause, FilingInv, StaysOut
<1>5. CASE Filing!PassRules \/ Filing!PassAsks \/ Filing!PassAnswers
  BY <1>5, PassOn DEF Filing!PassRules, Filing!PassAsks, Filing!PassAnswers
<1>6. CASE Filing!RedoRules \/ Filing!RedoAsks \/ Filing!RedoAnswers
  BY <1>6, RedoOn DEF Filing!RedoRules, Filing!RedoAsks, Filing!RedoAnswers
<1>7. CASE Filing!PassEnds
  <2>1. untold' = untold \ pass.touched /\ UNCHANGED <<newest, verdict, redo>>
    BY <1>7 DEF Filing!PassEnds, Filing!Tell
  <2>2. CASE Filing!Begins(pass')
    <3>1. /\ IsRun(pass') /\ pass'.touched = {} /\ pass'.todo \in Seq(Threads) /\ pass'.asked = 0
          /\ \A i \in DOMAIN pass'.todo : verdict[pass'.todo[i]].source # "manual"
      BY <2>2, PassIsFresh
    <3>. QED
      BY <2>1, <3>1 DEF FilingInv, StaysOut
  <2>3. CASE pass' = Filing!Idle /\ UNCHANGED late
    BY <2>1, <2>3, IdleIsRun DEF FilingInv, StaysOut
  <2>. QED
    BY <1>7, <2>2, <2>3 DEF Filing!PassEnds
<1>8. CASE Filing!PassFails
  BY <1>8, IdleIsRun DEF Filing!PassFails, Filing!Tell, FilingInv, StaysOut
<1>9. CASE Filing!CreateCategory
  <2>1. PICK list \in SetToSeqs(Filing!Here) : redo' = Filing!Run(list, FALSE)
    BY <1>9 DEF Filing!CreateCategory, Filing!SetToSeqs, SetToSeqs, Filing!Cardinality, Cardinality
  <2>2. Filing!Here \in SUBSET Threads /\ IsFiniteSet(Filing!Here)
    BY FS_Subset DEF Filing!Here
  <2>3. list \in Seq(Threads)
    BY <2>2, SetToSeqsAre
  <2>4. redo.touched = {}
    BY <1>9, IdleIsRun DEF Filing!CreateCategory, FilingInv, IsRun
  <2>5. UNCHANGED <<newest, verdict, pass, untold, late>>
    BY <1>9 DEF Filing!CreateCategory
  <2>6. IsRun(redo') /\ redo'.todo = list /\ redo'.asked = 0
    BY <2>1, RunIsRun
  <2>. QED
    BY <2>3, <2>4, <2>5, <2>6 DEF FilingInv, StaysOut
<1>10. CASE Filing!RedoEnds
  BY <1>10, IdleIsRun DEF Filing!RedoEnds, Filing!Tell, FilingInv, StaysOut
<1>11. ASSUME NEW bumped \in BOOLEAN, Filing!Restart(bumped) PROVE FilingInv' /\ StaysOut
  <2>1. /\ pass' = Filing!Idle /\ redo' = Filing!Idle /\ untold' = {} /\ newest' = newest
    BY <1>11 DEF Filing!Restart
  <2>2. verdict' \in [Threads -> Verdict]
    BY <1>11 DEF Filing!Restart, FilingInv, Filing!Kept, Filing!None, Verdict
  <2>3. StaysOut
    BY <1>11 DEF Filing!Restart, FilingInv, Filing!Kept, Filing!None, StaysOut, Verdict
  <2>. QED
    BY <2>1, <2>2, <2>3, IdleIsRun DEF FilingInv
<1>12. CASE UNCHANGED classifier
  BY <1>12 DEF classifier, FilingInv, StaysOut
<1>. QED
  BY <1>1, <1>2, <1>3, <1>4, <1>5, <1>6, <1>7, <1>8, <1>9, <1>10, <1>11, <1>12 DEF Filing!Next

-----------------------------------------------------------------------------
(* Attention. *)

Message == [id : Nat, dir : {"in", "out"}, at : Int,
            place : {m.place : m \in Mails}, asks : {m.asks : m \in Mails}]

(* Messages stand as they came. *)
InOrder(ms, most, today) ==
  /\ ms \in Seq(Message)
  /\ \A i \in DOMAIN ms : ms[i].id \in 1 .. most /\ ms[i].at <= today
  /\ \A i, j \in DOMAIN ms : i < j => ms[i].id < ms[j].id /\ ms[i].at <= ms[j].at

VerdictIs(v, most) ==
  /\ DOMAIN v = {"source", "type", "split", "band", "score", "chosen", "last"}
  /\ v.last \in 0 .. most
  /\ v # Scores!NoVerdict =>
       /\ v.split = Scores!Split(v.band)
       /\ v.source = "manual" => v.split = v.chosen

(* Who was told of a message is told of it no more: it was shown since     *)
(* this start, or is from before it.                                       *)
ToldOnce ==
  /\ ~twice
  /\ told \subseteq shown \cup old
  /\ told \subseteq 1 .. acted.mails

ScoresType ==
  /\ who \in Senders /\ day \in Int
  /\ acted \in [mails : Nat, spans : Nat, acts : Nat, starts : Nat]

Threaded ==
  DOMAIN msgs = Scored /\ \A t \in Scored : InOrder(msgs[t], acted.mails, day)

Judged ==
  DOMAIN scored = Scored /\ \A t \in Scored : VerdictIs(scored[t], acted.mails)

Promises == \A t \in Scored \ cut : Scores!Promised(t)

ScoresInv == ScoresType /\ Threaded /\ Judged /\ Promises /\ ToldOnce

LEMMA MaxIsGreatest ==
  ASSUME NEW n \in Nat, NEW is \in SUBSET (1 .. n), is # {}
  PROVE  Max(is) \in is /\ \A j \in is : j <= Max(is)
<1>1. is \in SUBSET (0 .. n)
  OBVIOUS
<1>. QED
  BY <1>1, MaxIsIn

(* The last message that came in. *)
LEMMA LastInIs ==
  ASSUME NEW ms \in Seq(Message), Scores!In(ms) # {}
  PROVE  \E i \in DOMAIN ms :
           /\ Scores!LastIn(ms) = ms[i] /\ ms[i].dir = "in"
           /\ \A j \in DOMAIN ms : ms[j].dir = "in" => j <= i
<1>. DEFINE is == Scores!In(ms)
<1>1. Len(ms) \in Nat /\ DOMAIN ms = 1 .. Len(ms) /\ is \in SUBSET (1 .. Len(ms)) /\ is # {}
  BY DEF Scores!In
<1>. HIDE DEF is
<1>2. Max(is) \in is /\ \A j \in is : j <= Max(is)
  BY <1>1, MaxIsGreatest
<1>3. Scores!LastIn(ms) = ms[Max(is)]
  BY DEF Scores!LastIn, is, Scores!Max, Max
<1>4. \A j \in DOMAIN ms : j \in is <=> ms[j].dir = "in"
  BY DEF is, Scores!In
<1>. QED
  BY <1>1, <1>2, <1>3, <1>4

(* A message that waits for an answer is the last of its thread.           *)
LEMMA UnansweredIsLast ==
  ASSUME NEW ms, NEW most \in Nat, NEW today \in Int, InOrder(ms, most, today), Scores!Unanswered(ms)
  PROVE  ms # <<>> /\ Scores!LastIn(ms) = ms[Len(ms)] /\ ms[Len(ms)].dir = "in"
<1>1. ms \in Seq(Message) /\ Scores!In(ms) # {}
  BY DEF InOrder, Scores!Unanswered
<1>2. PICK i \in DOMAIN ms :
        /\ Scores!LastIn(ms) = ms[i] /\ ms[i].dir = "in"
        /\ \A j \in DOMAIN ms : ms[j].dir = "in" => j <= i
  BY <1>1, LastInIs
<1>3. Len(ms) \in Nat /\ i \in 1 .. Len(ms) /\ DOMAIN ms = 1 .. Len(ms) /\ Len(ms) \in DOMAIN ms
  BY <1>1
<1>4. i = Len(ms)
  <2>. SUFFICES ASSUME i # Len(ms) PROVE FALSE
    OBVIOUS
  <2>1. i < Len(ms)
    BY <1>3
  <2>2. ms[i] \in Message /\ ms[Len(ms)] \in Message
    BY <1>1, <1>3
  <2>3. ms[Len(ms)].dir = "out"
    BY <1>2, <1>3, <2>1, <2>2 DEF Message
  <2>4. Len(ms) \in Scores!Out(ms)
    BY <1>3, <2>3 DEF Scores!Out
  <2>5. ms[Len(ms)].at < ms[i].at \/ ms[Len(ms)].id < ms[i].id
    BY <1>2, <2>4 DEF Scores!Unanswered
  <2>6. ms[i].id < ms[Len(ms)].id /\ ms[i].at <= ms[Len(ms)].at
    BY <1>3, <2>1 DEF InOrder
  <2>. QED
    BY <2>2, <2>5, <2>6 DEF Message
<1>. QED
  BY <1>1, <1>2, <1>3, <1>4

(* What needs you is a promise that holds of the last message. *)
LEMMA NeedsYouHolds ==
  ASSUME ScoresInv, NEW t \in Scored, NEW ctx, NEW type, Scores!NeedsYou(msgs[t], ctx, type)
  PROVE  LET m == Scores!Last(msgs[t])
         IN  m.dir = "in" /\ m.asks # {} /\ m.place # "alias" /\ ~who.own /\ ~who.bulk /\ ~who.auto
<1>. DEFINE ms == msgs[t]
<1>1. InOrder(ms, acted.mails, day) /\ acted.mails \in Nat /\ day \in Int
  BY DEF ScoresInv, ScoresType, Threaded
<1>2. /\ who.own \in BOOLEAN /\ who.bulk \in BOOLEAN /\ who.auto \in BOOLEAN
  BY WorkersAssumption DEF WorkersAssumption, ScoresInv, ScoresType
<1>. HIDE DEF ms
<1>3. /\ Scores!Person(ms) /\ Scores!Unanswered(ms)
      /\ Scores!Deciding(ms).place # "alias" /\ Scores!Deciding(ms).asks # {}
  BY DEF Scores!NeedsYou, ms
<1>4. ~who.own /\ ~who.bulk /\ ~who.auto /\ Scores!In(ms) # {}
  BY <1>2, <1>3 DEF Scores!Person, Scores!Own
<1>5. ms # <<>> /\ Scores!LastIn(ms) = ms[Len(ms)] /\ ms[Len(ms)].dir = "in"
  BY <1>1, <1>3, UnansweredIsLast
<1>6. Scores!Deciding(ms) = ms[Len(ms)] /\ Scores!Last(ms) = ms[Len(ms)]
  BY <1>4, <1>5 DEF Scores!Deciding, Scores!Last
<1>. QED
  BY <1>3, <1>4, <1>5, <1>6 DEF ms

LEMMA BandIs ==
  ASSUME NEW ms, NEW ctx, NEW type, NEW said, Scores!Band(ms, ctx, type, said) = "needs_you"
  PROVE  Scores!NeedsYou(ms, ctx, type)
BY DEF Scores!Band

(* The last id of a thread. *)
LEMMA NewestIs ==
  ASSUME NEW ms, NEW most \in Nat, NEW today, InOrder(ms, most, today), ms # <<>>
  PROVE  /\ Len(ms) \in DOMAIN ms /\ Scores!Last(ms) = ms[Len(ms)] /\ ms[Len(ms)].id \in 1 .. most
         /\ Scores!Deciding(ms).id \in 1 .. most
<1>1. ms \in Seq(Message) /\ Len(ms) \in DOMAIN ms
  BY DEF InOrder
<1>2. Scores!Last(ms) = ms[Len(ms)] /\ ms[Len(ms)].id \in 1 .. most
  BY <1>1 DEF Scores!Last, InOrder
<1>3. CASE Scores!In(ms) = {}
  BY <1>1, <1>2, <1>3 DEF Scores!Deciding
<1>4. CASE Scores!In(ms) # {}
  <2>1. PICK i \in DOMAIN ms : Scores!LastIn(ms) = ms[i]
    BY <1>1, <1>4, LastInIs
  <2>. QED
    BY <1>1, <1>2, <1>4, <2>1 DEF Scores!Deciding, InOrder
<1>. QED
  BY <1>1, <1>2, <1>3, <1>4

(* A banner is shown once, whatever the verdict says of it. *)
LEMMA Considered ==
  ASSUME ScoresInv, NEW t \in Scored, NEW v, Scores!Consider(msgs[t], v),
         old' \in {old} \cup {old \cup {acted.mails + 1}}, acted'.mails \in Nat, acted'.mails >= acted.mails
  PROVE  ToldOnce'
<1>1. acted.mails \in Nat /\ InOrder(msgs[t], acted.mails, day)
  BY DEF ScoresInv, ScoresType, Threaded
<1>2. 1 .. acted.mails \subseteq 1 .. acted'.mails /\ old \subseteq old'
  BY <1>1
<1>3. CASE Scores!In(msgs[t]) # {} /\ Scores!Earns(Scores!LastIn(msgs[t]), v)
  <2>1. PICK i \in DOMAIN msgs[t] : Scores!LastIn(msgs[t]) = msgs[t][i]
    BY <1>1, <1>3, LastInIs DEF InOrder
  <2>. DEFINE id == msgs[t][i].id
  <2>2. id \in 1 .. acted.mails
    BY <1>1 DEF InOrder
  <2>3. /\ shown' = shown \cup {id} /\ told' = told \cup {id}
        /\ twice' = (twice \/ id \in told)
    BY <1>3, <2>1 DEF Scores!Consider
  <2>4. id \notin shown /\ id \notin old
    BY <1>3, <2>1 DEF Scores!Earns
  <2>. HIDE DEF id
  <2>5. id \notin told
    BY <2>4 DEF ScoresInv, ToldOnce
  <2>6. ~twice'
    BY <2>3, <2>5 DEF ScoresInv, ToldOnce
  <2>. QED
    BY <1>2, <2>2, <2>3, <2>6 DEF ScoresInv, ToldOnce
<1>4. CASE ~(Scores!In(msgs[t]) # {} /\ Scores!Earns(Scores!LastIn(msgs[t]), v))
  <2>1. UNCHANGED <<shown, told, twice>>
    BY <1>4 DEF Scores!Consider
  <2>. QED
    BY <1>2, <2>1 DEF ScoresInv, ToldOnce
<1>. QED
  BY <1>3, <1>4

(* The threads stay as they are; time goes on, and messages may be fewer   *)
(* by none.                                                                *)
LEMMA ThreadsStay ==
  ASSUME ScoresInv, msgs' = msgs, acted' \in [mails : Nat, spans : Nat, acts : Nat, starts : Nat],
         acted'.mails = acted.mails, day' \in Int, day' >= day, who' = who
  PROVE  ScoresType' /\ Threaded'
<1>1. ScoresType'
  BY DEF ScoresInv, ScoresType
<1>2. ASSUME NEW t \in Scored PROVE InOrder(msgs'[t], acted'.mails, day')
  <2>1. InOrder(msgs[t], acted.mails, day) /\ day \in Int
    BY DEF ScoresInv, Threaded, ScoresType
  <2>. DEFINE ms == msgs[t]
  <2>2. ms \in Seq(Message)
    BY <2>1 DEF InOrder
  <2>3. msgs'[t] = ms /\ InOrder(ms, acted.mails, day)
    BY <2>1
  <2>. HIDE DEF ms
  <2>4. \A i \in DOMAIN ms : ms[i].at \in Int
    <3>1. \A i \in DOMAIN ms : ms[i] \in Message
      BY <2>2
    <3>2. \A m \in Message : m.at \in Int
      BY DEF Message
    <3>. QED
      BY <3>1, <3>2
  <2>5. \A i \in DOMAIN ms : ms[i].at <= day'
    BY <2>1, <2>3, <2>4 DEF InOrder
  <2>6. InOrder(ms, acted.mails, day')
    BY <2>3, <2>5 DEF InOrder
  <2>. QED
    BY <2>3, <2>6
<1>. QED
  BY <1>1, <1>2 DEF ScoresInv, Threaded

(* One verdict is new. *)
LEMMA VerdictOf ==
  ASSUME ScoresInv, NEW t \in Scored, NEW v, scored' = [scored EXCEPT ![t] = v],
         VerdictIs(v, acted.mails), acted'.mails = acted.mails,
         msgs' = msgs, who' = who, cut' = cut,
         v.band = "needs_you" =>
           LET m == Scores!Last(msgs[t])
           IN  m.dir = "in" /\ m.asks # {} /\ m.place # "alias" /\ ~who.own /\ ~who.bulk /\ ~who.auto
  PROVE  Judged' /\ Promises'
<1>1. scored'[t] = v /\ (\A s \in Scored : s # t => scored'[s] = scored[s]) /\ DOMAIN scored' = Scored
  BY DEF ScoresInv, Judged
<1>2. Judged'
  BY <1>1 DEF ScoresInv, Judged
<1>3. Scores!Promised(t)'
  BY <1>1 DEF Scores!Promised
<1>4. ASSUME NEW s \in Scored \ cut, s # t PROVE Scores!Promised(s)'
  BY <1>1, <1>4 DEF ScoresInv, Promises, Scores!Promised, Scores!Newest
<1>. QED
  BY <1>2, <1>3, <1>4 DEF Promises

(* Nothing that the properties speak of changes but what was told. *)
LEMMA OnlyTold ==
  ASSUME ScoresInv, UNCHANGED <<msgs, scored, who, cut>>, acted'.mails = acted.mails
  PROVE  Judged' /\ Promises'
BY DEF ScoresInv, Judged, Promises, Scores!Promised, Scores!Newest

LEMMA NewestIsNat ==
  ASSUME ScoresInv, NEW t \in Scored, msgs[t] # <<>>
  PROVE  Scores!Last(msgs[t]).id \in 0 .. acted.mails /\ Scores!Deciding(msgs[t]).id \in 0 .. acted.mails
<1>1. InOrder(msgs[t], acted.mails, day) /\ acted.mails \in Nat
  BY DEF ScoresInv, Threaded, ScoresType
<1>2. /\ Scores!Last(msgs[t]) = msgs[t][Len(msgs[t])] /\ msgs[t][Len(msgs[t])].id \in 1 .. acted.mails
      /\ Scores!Deciding(msgs[t]).id \in 1 .. acted.mails
  BY <1>1, NewestIs
<1>. QED
  BY <1>1, <1>2

LEMMA ArrivesStep ==
  ASSUME ScoresInv, NEW t \in Scored, NEW dir \in {"in", "out"}, NEW mail \in Mails, NEW early \in BOOLEAN,
         Scores!Arrives(t, dir, mail, early)
  PROVE  ScoresInv'
<1>. DEFINE m == [id |-> acted.mails + 1, dir |-> dir, at |-> day, place |-> mail.place, asks |-> mail.asks]
<1>1. acted \in [mails : Nat, spans : Nat, acts : Nat, starts : Nat] /\ day \in Int /\ DOMAIN msgs = Scored
  BY DEF ScoresInv, ScoresType, Threaded
<1>2. /\ m \in Message /\ m.id = acted.mails + 1 /\ m.at = day
  BY <1>1 DEF Message
<1>3. /\ acted' = [acted EXCEPT !.mails = @ + 1]
      /\ msgs' = [msgs EXCEPT ![t] = Append(@, m)]
      /\ old' = IF early THEN old \cup {m.id} ELSE old
      /\ IF dir = "in" /\ ~early /\ Scores!Earns(m, scored[t])
         THEN shown' = shown \cup {m.id} /\ told' = told \cup {m.id} /\ twice' = (twice \/ m.id \in told)
         ELSE IF dir = "out" THEN Scores!Consider(msgs[t], scored[t]) ELSE UNCHANGED <<shown, told, twice>>
      /\ UNCHANGED <<who, scored, cut, day>>
  BY DEF Scores!Arrives, Scores!Count
<1>. HIDE DEF m
<1>4. /\ acted'.mails = acted.mails + 1 /\ acted.mails \in Nat
      /\ acted' \in [mails : Nat, spans : Nat, acts : Nat, starts : Nat]
  BY <1>1, <1>3
<1>5. ScoresType'
  BY <1>3, <1>4 DEF ScoresInv, ScoresType
<1>6. /\ DOMAIN msgs' = Scored /\ msgs'[t] = Append(msgs[t], m)
      /\ \A s \in Scored : s # t => msgs'[s] = msgs[s]
  BY <1>1, <1>3
<1>7. ASSUME NEW s \in Scored PROVE InOrder(msgs[s], acted'.mails, day')
  <2>1. InOrder(msgs[s], acted.mails, day)
    BY DEF ScoresInv, Threaded
  <2>2. 1 .. acted.mails \subseteq 1 .. acted'.mails /\ day' = day
    BY <1>3, <1>4
  <2>. QED
    BY <2>1, <2>2 DEF InOrder
<1>8. InOrder(Append(msgs[t], m), acted'.mails, day')
  <2>. DEFINE ms == msgs[t]
  <2>1. InOrder(ms, acted.mails, day) /\ ms \in Seq(Message) /\ day' = day
    BY <1>3 DEF ScoresInv, Threaded, InOrder
  <2>. HIDE DEF ms
  <2>2. /\ Append(ms, m) \in Seq(Message) /\ Len(ms) \in Nat /\ DOMAIN ms = 1 .. Len(ms)
        /\ DOMAIN Append(ms, m) = 1 .. Len(ms) + 1
        /\ Append(ms, m)[Len(ms) + 1] = m /\ \A i \in 1 .. Len(ms) : Append(ms, m)[i] = ms[i]
    BY <1>2, <2>1
  <2>3. \A i \in 1 .. Len(ms) : ms[i] \in Message /\ ms[i].id \in 1 .. acted.mails /\ ms[i].at <= day
    BY <2>1, <2>2 DEF InOrder
  <2>4. ASSUME NEW i \in DOMAIN Append(ms, m)
        PROVE  Append(ms, m)[i].id \in 1 .. acted'.mails /\ Append(ms, m)[i].at <= day
    <3>1. CASE i \in 1 .. Len(ms)
      BY <1>4, <2>2, <2>3, <3>1
    <3>2. CASE i = Len(ms) + 1
      BY <1>1, <1>2, <1>4, <2>2, <3>2
    <3>. QED
      BY <2>2, <3>1, <3>2
  <2>5. ASSUME NEW i \in DOMAIN Append(ms, m), NEW j \in DOMAIN Append(ms, m), i < j
        PROVE  Append(ms, m)[i].id < Append(ms, m)[j].id /\ Append(ms, m)[i].at <= Append(ms, m)[j].at
    <3>0. i \in 1 .. Len(ms)
      BY <2>2, <2>5
    <3>1. CASE j \in 1 .. Len(ms)
      <4>1. ms[i].id < ms[j].id /\ ms[i].at <= ms[j].at
        BY <2>1, <2>2, <2>5, <3>0, <3>1 DEF InOrder
      <4>. QED
        BY <2>2, <3>0, <3>1, <4>1
    <3>2. CASE j = Len(ms) + 1
      <4>1. ms[i].id < acted.mails + 1
        BY <1>4, <2>3, <3>0
      <4>. QED
        BY <1>2, <2>2, <2>3, <3>0, <3>2, <4>1
    <3>. QED
      BY <2>2, <3>1, <3>2
  <2>6. InOrder(Append(ms, m), acted'.mails, day')
    BY <2>1, <2>2, <2>4, <2>5 DEF InOrder
  <2>. QED
    BY <2>6 DEF ms
<1>9. Threaded'
  <2>1. ASSUME NEW s \in Scored PROVE InOrder(msgs'[s], acted'.mails, day')
    BY <1>6, <1>7, <1>8
  <2>. QED
    BY <1>6, <2>1 DEF Threaded
<1>10. Judged'
  <2>1. ASSUME NEW s \in Scored PROVE VerdictIs(scored[s], acted'.mails)
    <3>1. VerdictIs(scored[s], acted.mails) /\ 0 .. acted.mails \subseteq 0 .. acted'.mails
      BY <1>4 DEF ScoresInv, Judged
    <3>. QED
      BY <3>1 DEF VerdictIs
  <2>. QED
    BY <1>3, <2>1 DEF ScoresInv, Judged
<1>11. ASSUME NEW s \in Scored \ cut' PROVE Scores!Promised(s)'
  <2>1. CASE s = t
    <3>1. InOrder(Append(msgs[t], m), acted'.mails, day') /\ msgs[t] \in Seq(Message)
      BY <1>8 DEF ScoresInv, Threaded, InOrder
    <3>2. msgs'[t] # <<>> /\ Len(msgs'[t]) = Len(msgs[t]) + 1 /\ msgs'[t][Len(msgs'[t])] = m
      BY <1>2, <1>6, <3>1
    <3>3. Scores!Newest(t)' = acted.mails + 1
      BY <1>2, <3>2 DEF Scores!Newest, Scores!Last
    <3>4. scored'[t].last \in 0 .. acted.mails
      BY <1>3 DEF ScoresInv, Judged, VerdictIs
    <3>. QED
      BY <1>4, <2>1, <3>3, <3>4 DEF Scores!Promised
  <2>2. CASE s # t
    <3>1. Scores!Promised(s)
      BY <1>3 DEF ScoresInv, Promises
    <3>. QED
      BY <1>3, <1>6, <2>2, <3>1 DEF Scores!Promised, Scores!Newest
  <2>. QED
    BY <2>1, <2>2
<1>12. ToldOnce'
  <2>1. CASE dir = "in" /\ ~early /\ Scores!Earns(m, scored[t])
    <3>1. m.id \notin told /\ m.id \in 1 .. acted'.mails /\ 1 .. acted.mails \subseteq 1 .. acted'.mails
      BY <1>2, <1>4 DEF ScoresInv, ToldOnce
    <3>2. /\ shown' = shown \cup {m.id} /\ told' = told \cup {m.id} /\ twice' = (twice \/ m.id \in told) /\ old' = old
      BY <1>3, <2>1
    <3>3. ~twice'
      BY <3>1, <3>2 DEF ScoresInv, ToldOnce
    <3>. QED
      BY <3>1, <3>2, <3>3 DEF ScoresInv, ToldOnce
  <2>2. CASE Scores!Consider(msgs[t], scored[t])
    <3>1. old' \in {old} \cup {old \cup {acted.mails + 1}}
      BY <1>2, <1>3
    <3>. QED
      BY <1>4, <2>2, <3>1, Considered
  <2>3. CASE UNCHANGED <<shown, told, twice>>
    <3>1. old \subseteq old' /\ 1 .. acted.mails \subseteq 1 .. acted'.mails
      BY <1>3, <1>4
    <3>. QED
      BY <2>3, <3>1 DEF ScoresInv, ToldOnce
  <2>. QED
    BY <1>3, <2>1, <2>2, <2>3
<1>. QED
  BY <1>5, <1>9, <1>10, <1>11, <1>12 DEF ScoresInv, Promises

LEMMA DeletedStep ==
  ASSUME ScoresInv, NEW t \in Scored, NEW inbox, NEW unread, Scores!Deleted(t, inbox, unread)
  PROVE  ScoresInv'
<1>1. acted \in [mails : Nat, spans : Nat, acts : Nat, starts : Nat] /\ day \in Int /\ DOMAIN msgs = Scored
  BY DEF ScoresInv, ScoresType, Threaded
<1>2. /\ acted' = [acted EXCEPT !.acts = @ + 1]
      /\ msgs[t] # <<>> /\ msgs' = [msgs EXCEPT ![t] = Scores!Front(@)]
      /\ scored' = IF msgs'[t] = <<>> THEN [scored EXCEPT ![t] = Scores!NoVerdict] ELSE scored
      /\ cut' = IF msgs'[t] = <<>> THEN cut \ {t} ELSE cut \cup {t}
      /\ UNCHANGED <<who, old, shown, told, twice, day>>
  BY DEF Scores!Deleted, Scores!Count
<1>3. acted'.mails = acted.mails /\ acted' \in [mails : Nat, spans : Nat, acts : Nat, starts : Nat]
  BY <1>1, <1>2
<1>4. /\ DOMAIN msgs' = Scored /\ msgs'[t] = Scores!Front(msgs[t])
      /\ \A s \in Scored : s # t => msgs'[s] = msgs[s]
  BY <1>1, <1>2
<1>5. InOrder(Scores!Front(msgs[t]), acted.mails, day)
  <2>. DEFINE ms == msgs[t]
              fs == Scores!Front(ms)
  <2>1. InOrder(ms, acted.mails, day) /\ ms \in Seq(Message) /\ ms # <<>>
    BY <1>2 DEF ScoresInv, Threaded, InOrder
  <2>. HIDE DEF ms
  <2>2. /\ fs \in Seq(Message) /\ DOMAIN fs \subseteq DOMAIN ms
        /\ \A i \in DOMAIN fs : fs[i] = ms[i]
    BY <2>1 DEF Scores!Front
  <2>. HIDE DEF fs
  <2>3. InOrder(fs, acted.mails, day)
    BY <2>1, <2>2 DEF InOrder
  <2>. QED
    BY <2>3 DEF ms, fs
<1>6. Threaded'
  <2>1. ASSUME NEW s \in Scored PROVE InOrder(msgs'[s], acted'.mails, day')
    BY <1>2, <1>3, <1>4, <1>5 DEF ScoresInv, Threaded
  <2>. QED
    BY <1>4, <2>1 DEF Threaded
<1>7. ScoresType' /\ ToldOnce'
  BY <1>2, <1>3 DEF ScoresInv, ScoresType, ToldOnce
<1>8. CASE msgs'[t] = <<>>
  <2>1. /\ DOMAIN scored' = Scored /\ scored'[t] = Scores!NoVerdict
        /\ \A s \in Scored : s # t => scored'[s] = scored[s]
    BY <1>2, <1>8 DEF ScoresInv, Judged
  <2>2. VerdictIs(Scores!NoVerdict, acted.mails) /\ Scores!NoVerdict.band = "none"
    BY <1>1 DEF Scores!NoVerdict, VerdictIs
  <2>3. Judged'
    BY <1>3, <2>1, <2>2 DEF ScoresInv, Judged
  <2>4. ASSUME NEW s \in Scored \ cut' PROVE Scores!Promised(s)'
    <3>1. CASE s = t
      BY <2>1, <2>2, <3>1 DEF Scores!Promised
    <3>2. CASE s # t
      <4>1. s \notin cut
        BY <1>2, <1>8, <3>2
      <4>. QED
        BY <1>2, <1>4, <2>1, <3>2, <4>1 DEF ScoresInv, Promises, Scores!Promised, Scores!Newest
    <3>. QED
      BY <3>1, <3>2
  <2>. QED
    BY <1>6, <1>7, <2>3, <2>4 DEF ScoresInv, Promises
<1>9. CASE msgs'[t] # <<>>
  <2>1. scored' = scored /\ cut' = cut \cup {t}
    BY <1>2, <1>9
  <2>2. Judged'
    BY <1>3, <2>1 DEF ScoresInv, Judged
  <2>3. ASSUME NEW s \in Scored \ cut' PROVE Scores!Promised(s)'
    BY <1>2, <1>4, <2>1 DEF ScoresInv, Promises, Scores!Promised, Scores!Newest
  <2>. QED
    BY <1>6, <1>7, <2>2, <2>3 DEF ScoresInv, Promises
<1>. QED
  BY <1>8, <1>9

LEMMA ScoresStep ==
  ASSUME ScoresInv, [Scores!Next]_scores
  PROVE  ScoresInv'
<1>0. acted \in [mails : Nat, spans : Nat, acts : Nat, starts : Nat] /\ day \in Int /\ acted.mails \in Nat
  BY DEF ScoresInv, ScoresType
<1>1. ASSUME NEW t \in Scored, NEW dir \in {"in", "out"}, NEW mail \in Mails, NEW early \in BOOLEAN,
             Scores!Arrives(t, dir, mail, early)
      PROVE  ScoresInv'
  BY <1>1, ArrivesStep
<1>2. ASSUME NEW t \in Scored, NEW inbox \in BOOLEAN, NEW unread \in BOOLEAN, Scores!Deleted(t, inbox, unread)
      PROVE  ScoresInv'
  BY <1>2, DeletedStep
<1>3. ASSUME NEW t \in Scored, NEW inbox \in BOOLEAN, NEW unread \in BOOLEAN, Scores!Handled(t, inbox, unread)
      PROVE  ScoresInv'
  <2>1. acted' = [acted EXCEPT !.acts = @ + 1]
        /\ UNCHANGED <<who, msgs, scored, old, shown, told, twice, cut, day>>
    BY <1>3 DEF Scores!Handled, Scores!Count
  <2>2. acted'.mails = acted.mails /\ acted' \in [mails : Nat, spans : Nat, acts : Nat, starts : Nat]
    BY <1>0, <2>1
  <2>3. ScoresType' /\ Threaded'
    BY <1>0, <2>1, <2>2, ThreadsStay
  <2>4. Judged' /\ Promises'
    BY <2>1, <2>2, OnlyTold
  <2>5. ToldOnce'
    BY <2>1, <2>2 DEF ScoresInv, ToldOnce
  <2>. QED
    BY <2>3, <2>4, <2>5 DEF ScoresInv
<1>4. ASSUME NEW t \in Scored, Scores!ReadAgain(t) PROVE ScoresInv'
  <2>1. Scores!Consider(msgs[t], scored[t]) /\ UNCHANGED <<who, msgs, scored, old, cut, day, acted>>
    BY <1>4 DEF Scores!ReadAgain
  <2>2. ToldOnce'
    BY <1>0, <2>1, Considered
  <2>3. ScoresType' /\ Threaded'
    BY <1>0, <2>1, ThreadsStay
  <2>4. Judged' /\ Promises'
    BY <2>1, OnlyTold
  <2>. QED
    BY <2>2, <2>3, <2>4 DEF ScoresInv
<1>5. CASE Scores!DaysPass
  <2>1. PICK d \in Spans : day' = day + d
    BY <1>5 DEF Scores!DaysPass
  <2>2. acted' = [acted EXCEPT !.spans = @ + 1] /\ UNCHANGED <<who, msgs, scored, old, shown, told, twice, cut>>
    BY <1>5 DEF Scores!DaysPass, Scores!Count
  <2>3. acted'.mails = acted.mails /\ acted' \in [mails : Nat, spans : Nat, acts : Nat, starts : Nat]
    BY <1>0, <2>2
  <2>4. day' \in Int /\ day' >= day
    BY <1>0, <2>1, WorkersAssumption DEF WorkersAssumption
  <2>5. ScoresType' /\ Threaded'
    BY <2>2, <2>3, <2>4, ThreadsStay
  <2>6. Judged' /\ Promises'
    BY <2>2, <2>3, OnlyTold
  <2>7. ToldOnce'
    BY <2>2, <2>3 DEF ScoresInv, ToldOnce
  <2>. QED
    BY <2>5, <2>6, <2>7 DEF ScoresInv
<1>6. CASE Scores!PassBegins \/ UNCHANGED scores
  <2>1. UNCHANGED <<who, msgs, scored, old, shown, told, twice, cut, day, acted>>
    BY <1>6 DEF Scores!PassBegins, scores
  <2>2. ScoresType' /\ Threaded'
    BY <1>0, <2>1, ThreadsStay
  <2>3. Judged' /\ Promises'
    BY <2>1, OnlyTold
  <2>. QED
    BY <2>1, <2>2, <2>3 DEF ScoresInv, ToldOnce
<1>7. ASSUME NEW t \in Scored, NEW type \in Types, NEW said \in BOOLEAN, Scores!Decides(t, type, said)
      PROVE  ScoresInv'
  <2>1. UNCHANGED <<who, msgs, old, shown, told, twice, cut, day, acted>>
    BY <1>7 DEF Scores!Decides
  <2>2. ScoresType' /\ Threaded' /\ ToldOnce'
    BY <1>0, <2>1, ThreadsStay DEF ScoresInv, ToldOnce
  <2>3. CASE msgs[t] = <<>>
    <3>1. scored' = scored
      BY <1>7, <2>3 DEF Scores!Decides
    <3>2. Judged' /\ Promises'
      BY <2>1, <3>1, OnlyTold
    <3>. QED
      BY <2>2, <3>2 DEF ScoresInv
  <2>4. CASE msgs[t] # <<>>
    <3>. DEFINE band == Scores!Band(msgs[t], scoring.ctx, type, said)
                score == Scores!Score(msgs[t], scoring.ctx, type)
                v == [source |-> "pass", type |-> type, split |-> Scores!Split(band), band |-> band,
                      score |-> score, chosen |-> "none", last |-> Scores!Newest(t)]
    <3>1. scored' = [scored EXCEPT ![t] = v]
      BY <1>7, <2>4 DEF Scores!Decides
    <3>2. Scores!Newest(t) \in 0 .. acted.mails
      <4>1. InOrder(msgs[t], acted.mails, day)
        BY DEF ScoresInv, Threaded
      <4>. QED
        BY <1>0, <2>4, <4>1, NewestIsNat DEF Scores!Newest
    <3>3. band = "needs_you" => Scores!NeedsYou(msgs[t], scoring.ctx, type)
      BY BandIs
    <3>. HIDE DEF band, score
    <3>4. VerdictIs(v, acted.mails) /\ v.band = band
      BY <3>2 DEF VerdictIs
    <3>5. Judged' /\ Promises'
      <4>. HIDE DEF v
      <4>1. v.band = "needs_you" =>
              LET m == Scores!Last(msgs[t])
              IN  m.dir = "in" /\ m.asks # {} /\ m.place # "alias" /\ ~who.own /\ ~who.bulk /\ ~who.auto
        BY <3>3, <3>4, NeedsYouHolds
      <4>. QED
        BY <2>1, <3>1, <3>4, <4>1, VerdictOf
    <3>. QED
      BY <2>2, <3>5 DEF ScoresInv
  <2>. QED
    BY <2>3, <2>4
<1>8. ASSUME NEW t \in Scored, NEW split \in {"important", "other"}, NEW type \in Types, Scores!Refiled(t, split, type)
      PROVE  ScoresInv'
  <2>1. /\ acted' = [acted EXCEPT !.acts = @ + 1] /\ msgs[t] # <<>>
        /\ UNCHANGED <<who, msgs, old, shown, told, twice, cut, day>>
    BY <1>8 DEF Scores!Refiled, Scores!Count
  <2>2. acted'.mails = acted.mails /\ acted' \in [mails : Nat, spans : Nat, acts : Nat, starts : Nat]
    BY <1>0, <2>1
  <2>3. ScoresType' /\ Threaded' /\ ToldOnce'
    BY <1>0, <2>1, <2>2, ThreadsStay DEF ScoresInv, ToldOnce
  <2>. DEFINE score == IF split = "other" THEN 0 ELSE Scores!Max({scored[t].score, 1})
              v == [source |-> "manual", type |-> type, split |-> split, band |-> split,
                    score |-> score, chosen |-> split, last |-> Scores!Deciding(msgs[t]).id]
  <2>4. scored' = [scored EXCEPT ![t] = v]
    BY <1>8 DEF Scores!Refiled
  <2>5. Scores!Deciding(msgs[t]).id \in 0 .. acted.mails
    <3>1. InOrder(msgs[t], acted.mails, day)
      BY DEF ScoresInv, Threaded
    <3>. QED
      BY <1>0, <2>1, <3>1, NewestIsNat
  <2>. HIDE DEF score
  <2>6. VerdictIs(v, acted.mails) /\ v.band # "needs_you"
    BY <2>5 DEF VerdictIs, Scores!Split
  <2>. HIDE DEF v
  <2>7. Judged' /\ Promises'
    BY <2>1, <2>2, <2>4, <2>6, VerdictOf
  <2>. QED
    BY <2>3, <2>7 DEF ScoresInv
<1>9. ASSUME NEW t \in Scored, Scores!Sweeps(t) PROVE ScoresInv'
  <2>. DEFINE v == scored[t]
              band == Scores!Band(msgs[t], sweep.ctx, v.type, FALSE)
              kept == IF v.source = "manual" THEN v.split ELSE band
              score == Scores!Score(msgs[t], sweep.ctx, v.type)
              new == [v EXCEPT !.split = Scores!Split(kept), !.band = kept, !.score = score]
  <2>1. UNCHANGED <<who, msgs, old, cut, day, acted>>
    BY <1>9 DEF Scores!Sweeps
  <2>2. ScoresType' /\ Threaded'
    BY <1>0, <2>1, ThreadsStay
  <2>3. CASE v = Scores!NoVerdict \/ msgs[t] = <<>>
    <3>1. UNCHANGED <<scored, shown, told, twice>>
      BY <1>9, <2>3 DEF Scores!Sweeps
    <3>. QED
      BY <2>1, <2>2, <3>1, OnlyTold DEF ScoresInv, ToldOnce
  <2>4. CASE ~(v = Scores!NoVerdict \/ msgs[t] = <<>>)
    <3>1. /\ scored' = [scored EXCEPT ![t] = new]
          /\ Scores!Consider(msgs[t], new) \/ UNCHANGED <<shown, told, twice>>
      BY <1>9, <2>4 DEF Scores!Sweeps
    <3>2. VerdictIs(v, acted.mails)
      BY DEF ScoresInv, Judged
    <3>3. band = "needs_you" => Scores!NeedsYou(msgs[t], sweep.ctx, v.type)
      BY BandIs
    <3>. HIDE DEF band, score
    <3>4. v.source = "manual" => kept = v.chosen /\ kept \in {"important", "other"}
      BY <2>4, <3>2 DEF VerdictIs, Scores!Split
    <3>5. v.source # "manual" => kept = band
      OBVIOUS
    <3>. HIDE DEF kept
    <3>6. /\ DOMAIN new = DOMAIN v /\ new.source = v.source /\ new.chosen = v.chosen /\ new.last = v.last
          /\ new.split = Scores!Split(kept) /\ new.band = kept
      BY <3>2 DEF VerdictIs
    <3>. HIDE DEF new
    <3>7. VerdictIs(new, acted.mails)
      BY <3>2, <3>4, <3>6 DEF VerdictIs, Scores!Split
    <3>8. new.band = "needs_you" =>
            LET m == Scores!Last(msgs[t])
            IN  m.dir = "in" /\ m.asks # {} /\ m.place # "alias" /\ ~who.own /\ ~who.bulk /\ ~who.auto
      BY <3>3, <3>4, <3>5, <3>6, NeedsYouHolds
    <3>9. Judged' /\ Promises'
      BY <2>1, <3>1, <3>7, <3>8, VerdictOf
    <3>10. ToldOnce'
      <4>1. CASE Scores!Consider(msgs[t], new)
        BY <1>0, <2>1, <4>1, Considered
      <4>2. CASE UNCHANGED <<shown, told, twice>>
        BY <2>1, <4>2 DEF ScoresInv, ToldOnce
      <4>. QED
        BY <3>1, <4>1, <4>2
    <3>. QED
      BY <2>2, <3>9, <3>10 DEF ScoresInv
  <2>. QED
    BY <2>3, <2>4
<1>10. ASSUME NEW bumped \in BOOLEAN, Scores!Starts(bumped) PROVE ScoresInv'
  <2>1. /\ acted' = [acted EXCEPT !.starts = @ + 1]
        /\ old' = 1 .. acted.mails /\ UNCHANGED <<who, msgs, scored, told, twice, cut, day>>
    BY <1>10 DEF Scores!Starts, Scores!Count
  <2>2. acted'.mails = acted.mails /\ acted' \in [mails : Nat, spans : Nat, acts : Nat, starts : Nat]
    BY <1>0, <2>1
  <2>3. ScoresType' /\ Threaded'
    BY <1>0, <2>1, <2>2, ThreadsStay
  <2>4. Judged' /\ Promises'
    BY <2>1, <2>2, OnlyTold
  <2>5. ToldOnce'
    BY <2>1, <2>2 DEF ScoresInv, ToldOnce
  <2>. QED
    BY <2>3, <2>4, <2>5 DEF ScoresInv
<1>. QED
  BY <1>1, <1>2, <1>3, <1>4, <1>5, <1>6, <1>7, <1>8, <1>9, <1>10 DEF Scores!Next

-----------------------------------------------------------------------------
(* The theorems. *)

LEMMA InitHolds ==
  ASSUME AllInit
  PROVE  FilingInv /\ CacheInv /\ QuotaInv /\ ScoresInv
<1>. USE WorkersAssumption DEF WorkersAssumption
<1>1. FilingInv
  <2>1. /\ newest = [t \in Threads |-> 0] /\ verdict = [t \in Threads |-> Filing!None]
        /\ pass = Filing!Idle /\ redo = Filing!Idle /\ untold = {}
    BY DEF AllInit, Filing!Init
  <2>2. Filing!None \in Verdict
    BY DEF Filing!None, Verdict
  <2>. QED
    BY <2>1, <2>2, IdleIsRun DEF FilingInv
<1>2. CacheInv
  BY DEF AllInit, Files!Init, CacheInv, CacheType, OrphansWait, Files!RightBytes
<1>3. QuotaInv
  BY DEF AllInit, Quota!Init, QuotaInv, QuotaType, InBucket, Quota!Paced, Mark, CallRecords, Quota!Parts,
         Quota!GmailClientAssumption
<1>4. ScoresInv
  <2>1. /\ who \in Senders /\ msgs = [t \in Scored |-> <<>>]
        /\ scored = [t \in Scored |-> Scores!NoVerdict]
        /\ old = {} /\ shown = {} /\ told = {} /\ twice = FALSE
        /\ day = 0 /\ acted = [mails |-> 0, spans |-> 0, acts |-> 0, starts |-> 0]
    BY DEF AllInit, Scores!Init
  <2>2. VerdictIs(Scores!NoVerdict, 0) /\ Scores!NoVerdict.band = "none"
    BY DEF Scores!NoVerdict, VerdictIs
  <2>3. InOrder(<<>>, 0, 0)
    BY DEF InOrder
  <2>4. ScoresType /\ Threaded /\ ToldOnce
    BY <2>1, <2>3 DEF ScoresType, Threaded, ToldOnce
  <2>5. Judged /\ Promises
    BY <2>1, <2>2 DEF Judged, Promises, Scores!Promised
  <2>. QED
    BY <2>4, <2>5 DEF ScoresInv
<1>. QED
  BY <1>1, <1>2, <1>3, <1>4

(* When a pass or a reclassification is over, whatever stopped it, the     *)
(* list was told of every verdict it recorded. A thread that lost no       *)
(* message, says it needs you and was decided for its last message has a   *)
(* last message in which a person asks. A filing keeps its split. A banner *)
(* is shown at most once; that each important message has one is           *)
(* BannerInTime, which the code does not keep.                             *)
THEOREM AllTold == AllSpec => []Told
<1>1. AllInit => FilingInv /\ ScoresInv
  BY InitHolds
<1>2. /\ FilingInv /\ ScoresInv
      /\ [AllNext]_<<part, classifier, calendar, cache, receipts, quota, mirror, scores>>
      => (FilingInv /\ ScoresInv)'
  BY OneOfEach, FilingStep, ScoresStep
<1>3. FilingInv /\ ScoresInv => Told
  <2>1. FilingInv => Filing!Told
    BY DEF FilingInv, IsRun, Filing!Told
  <2>2. ScoresInv => Scores!Attended
    BY DEF ScoresInv, Promises, ToldOnce, Judged, VerdictIs, Scores!Attended, Scores!SplitHolds
  <2>. QED
    BY <2>1, <2>2 DEF Told
<1>. QED
  BY <1>1, <1>2, <1>3, PTL DEF AllSpec

(* What was filed by hand is decided again by nobody but the               *)
(* reclassification of a new category, and a pass that read its work       *)
(* before the filing.                                                      *)
THEOREM FilingStays == AllSpec => FiledStays
<1>1. AllInit => FilingInv
  BY InitHolds
<1>2. FilingInv /\ [AllNext]_<<part, classifier, calendar, cache, receipts, quota, mirror, scores>>
      => FilingInv'
  BY OneOfEach, FilingStep
<1>3. FilingInv /\ [AllNext]_<<part, classifier, calendar, cache, receipts, quota, mirror, scores>>
      => [\A t \in Threads : verdict[t].source = "manual" /\ verdict'[t].source # "manual" =>
            t \in late \/ (redo.runs /\ pass' = pass)]_(Filing!vars)
  BY OneOfEach, FilingStep DEF StaysOut
<1>. QED
  BY <1>1, <1>2, <1>3, PTL DEF AllSpec, FiledStays, Filing!FiledStays

(* What opens as a part is that part, as long as nobody removed a file of  *)
(* the cache by hand: a path is given away only when it is free, and the   *)
(* reaper takes only what no row names.                                    *)
THEOREM Bytes == AllSpec => []RightBytes
<1>1. AllInit => CacheInv
  BY InitHolds
<1>2. CacheInv /\ [AllNext]_<<part, classifier, calendar, cache, receipts, quota, mirror, scores>>
      => CacheInv'
  BY OneOfEach, CacheStep
<1>3. CacheInv => RightBytes
  BY DEF CacheInv, RightBytes
<1>. QED
  BY <1>1, <1>2, <1>3, PTL DEF AllSpec

(* In any window of time, what the client reserves is no more than a full  *)
(* bucket and what comes in until its last call may go: bursts, batches    *)
(* and retries included.                                                   *)
THEOREM Pace == AllSpec => []Paced
<1>0. Quota!GmailClientAssumption
  BY WorkersAssumption DEF WorkersAssumption
<1>1. AllInit => QuotaInv
  BY InitHolds
<1>2. QuotaInv /\ [AllNext]_<<part, classifier, calendar, cache, receipts, quota, mirror, scores>>
      => QuotaInv'
  BY <1>0, OneOfEach, QuotaStep
<1>3. QuotaInv => Paced
  BY DEF QuotaInv, Paced
<1>. QED
  BY <1>1, <1>2, <1>3, PTL DEF AllSpec
=============================================================================
