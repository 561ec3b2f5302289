-------------------------- MODULE Composer_proofs --------------------------
(***************************************************************************)
(* Theorems about the compose box, for any threads, any numbers of letters,*)
(* versions, sends and faults.                                             *)
(*                                                                         *)
(* What goes wrong in the box goes wrong between a step and the answer to  *)
(* it, so the proofs speak of what is on its way: calls of the store       *)
(* (Mail, with Saves and Strips among them), those who wait for a save to  *)
(* end (Enders), and messages handed to the queue (Sendings).  A step of   *)
(* Next is of one of sixteen kinds, by what it does to these; the kinds    *)
(* are shown to be all there are once, and every invariant after that has  *)
(* one lemma for a kind.                                                   *)
(*                                                                         *)
(* Base.  Every row has a letter (Named), given by a function L that the   *)
(* table, the lists and the calls agree with; and what is saved, closed or *)
(* sent while a box is open is that box (Boxed).  RowsStayTheirs follows.  *)
(*                                                                         *)
(* Alone.  A letter is one row, or one message, or one thing being sent.   *)
(* A row without a letter yet is the danger: a save that has not been      *)
(* answered and a second one for the same box would make two.              *)
(*                                                                         *)
(* Ends and Separate.  The same of a text, where a letter may be typed on  *)
(* while it is sent: a text lies in one row, counting the rows that it may *)
(* yet be written to (Lives), and one that was sent or is being sent lies  *)
(* in none.  LetterIsOne is these together.                                *)
(*                                                                         *)
(* Found.  What the writer wrote last is safe, in the queue or in a row    *)
(* that neither the box nor who ends it can still write or delete, or it   *)
(* is in the box, or with one who will save it; a box that is thrown away  *)
(* holds nothing that is owed.  TextKept follows.                          *)
(*                                                                         *)
(* Each holds while none of the slips that its property excludes happened. *)
(***************************************************************************)
EXTENDS Composer, SequenceTheorems, TLAPS

-----------------------------------------------------------------------------
(* Types of what the window and the store hold. *)

(* Texts of v letters, rows of a table that has given out m ids.           *)
TextOf(v) == {t \in [letter : DOMAIN v, version : Nat \ {0}] : t.version <= v[t.letter]}
Tables(v, m) == UNION {[D -> TextOf(v)] : D \in SUBSET (1 .. m)}
LetterBox(v, m) == {d \in [letter : DOMAIN v, version : Nat, row : 0 .. m] : d.version <= v[d.letter]}
Grows(v, k) == DOMAIN v \subseteq DOMAIN k /\ \A l \in DOMAIN v : v[l] <= k[l]
Waiters(v, m) ==
  [kind : {"autosave"}, d : LetterBox(v, m) \cup {NoBox}, keep : {TRUE}]
    \cup [kind : {"close"}, d : LetterBox(v, m), keep : BOOLEAN]
    \cup [kind : {"strip", "send"}, d : {d \in LetterBox(v, m) : Written(d)}, keep : {TRUE}]
Calls(v, m) ==
  [kind : {"autosave", "keep", "strip"}, text : TextOf(v), row : 1 .. m, list : {<<>>}]
    \cup [kind : {"delete"}, text : {NoText}, row : 1 .. m, list : {<<>>}]
    \cup [kind : {"list"}, text : {NoText}, row : {0}, list : Tables(v, m)]
    \cup [kind : {"get"}, text : {NoText}, row : {0}, list : Threads]
Errands(v, m) == [kind : {"send", "undo"}, text : TextOf(v), row : 0 .. m]
Messages(v) == [text : TextOf(v), undone : BOOLEAN]
Places == Threads \cup {Panel}

Window ==
  /\ dock \in Places /\ collapsed \in BOOLEAN /\ timer \in BOOLEAN /\ fresh \in BOOLEAN
  /\ open \in Threads \cup {None} /\ news \in Nat /\ slips \subseteq AllSlips
  /\ (autoRow # 0 => Open)

Typed(v, m) ==
  /\ compose \in LetterBox(v, m) \cup {NoBox}
  /\ autoRow \in 0 .. m
  /\ saved \in [row : 0 .. m, text : TextOf(v) \cup {NoText}]
  /\ drafts \in Tables(v, m) /\ rows \in Tables(v, m)
  /\ waiting \in Seq(Waiters(v, m))
  /\ calls \in Seq(Calls(v, m))
  /\ slow \in SUBSET Errands(v, m)
  /\ sends \in Seq(Messages(v))
  /\ owed \in SUBSET TextOf(v) /\ told \in TextOf(v) \cup {NoText}

OneSave(cs) ==
  \A i, j \in DOMAIN cs : cs[i].kind = "autosave" /\ cs[j].kind = "autosave" => i = j

TypeOK ==
  /\ Window
  /\ letters \in Seq(Places) /\ latest \in Seq(Nat) /\ Len(latest) = Len(letters)
  /\ lastRow \in Nat
  /\ Typed(latest, lastRow)
  /\ OneSave(calls)

-----------------------------------------------------------------------------
(* Sequences. *)

LEMMA Wider ==
  ASSUME NEW S, NEW T, S \subseteq T, NEW s \in Seq(S)
  PROVE  s \in Seq(T)
<1>1. s \in [1 .. Len(s) -> S] /\ Len(s) \in Nat
  OBVIOUS
<1>2. s \in [1 .. Len(s) -> T]
  BY <1>1
<1> QED
  BY <1>1, <1>2

(* What a queue is after something joined it. *)
LEMMA AppendRange ==
  ASSUME NEW S, NEW s \in Seq(S), NEW e \in S
  PROVE  /\ Append(s, e) \in Seq(S) /\ Len(Append(s, e)) = Len(s) + 1
         /\ Range(Append(s, e)) = Range(s) \cup {e}
<1>1. /\ Append(s, e) \in Seq(S) /\ Len(Append(s, e)) = Len(s) + 1
      /\ DOMAIN Append(s, e) = 1 .. Len(s) + 1 /\ DOMAIN s = 1 .. Len(s) /\ Len(s) \in Nat
      /\ \A i \in 1 .. Len(s) : Append(s, e)[i] = s[i]
      /\ Append(s, e)[Len(s) + 1] = e
  OBVIOUS
<1>2. ASSUME NEW x \in Range(Append(s, e)) PROVE x \in Range(s) \cup {e}
  BY <1>1, <1>2 DEF Range
<1>3. ASSUME NEW x \in Range(s) PROVE x \in Range(Append(s, e))
  BY <1>1, <1>3 DEF Range
<1>4. e \in Range(Append(s, e))
  BY <1>1 DEF Range
<1> QED
  BY <1>1, <1>2, <1>3, <1>4

(* What a queue is after its head left. *)
LEMMA TailRange ==
  ASSUME NEW S, NEW s \in Seq(S), s # <<>>
  PROVE  /\ Tail(s) \in Seq(S) /\ Head(s) \in S /\ Len(Tail(s)) = Len(s) - 1 /\ Head(s) = s[1]
         /\ \A i \in DOMAIN Tail(s) : i + 1 \in DOMAIN s /\ Tail(s)[i] = s[i + 1]
         /\ Range(s) = Range(Tail(s)) \cup {Head(s)}
<1>1. /\ Tail(s) \in Seq(S) /\ Head(s) \in S /\ Len(Tail(s)) = Len(s) - 1 /\ Head(s) = s[1]
      /\ DOMAIN Tail(s) = 1 .. Len(s) - 1 /\ DOMAIN s = 1 .. Len(s) /\ Len(s) \in Nat \ {0}
      /\ \A i \in 1 .. Len(s) - 1 : Tail(s)[i] = s[i + 1]
  OBVIOUS
<1>2. ASSUME NEW x \in Range(s) PROVE x \in Range(Tail(s)) \cup {Head(s)}
  <2>1. PICK i \in 1 .. Len(s) : s[i] = x
    BY <1>1 DEF Range
  <2>2. CASE i # 1
    <3>1. i - 1 \in 1 .. Len(s) - 1 /\ Tail(s)[i - 1] = x
      BY <1>1, <2>1, <2>2
    <3> QED
      BY <1>1, <3>1 DEF Range
  <2> QED
    BY <1>1, <2>1, <2>2
<1>3. ASSUME NEW x \in Range(Tail(s)) PROVE x \in Range(s)
  <2>1. PICK i \in 1 .. Len(s) - 1 : Tail(s)[i] = x
    BY <1>1 DEF Range
  <2> QED
    BY <1>1, <2>1 DEF Range
<1>4. Head(s) \in Range(s)
  BY <1>1 DEF Range
<1> QED
  BY <1>1, <1>2, <1>3, <1>4

(* The elements of a sequence. *)
LEMMA SeqRange ==
  ASSUME NEW S, NEW s \in Seq(S)
  PROVE  /\ Range(s) \subseteq S
         /\ \A i \in DOMAIN s : s[i] \in S /\ s[i] \in Range(s)
         /\ \A x \in Range(s) : \E i \in DOMAIN s : s[i] = x
BY DEF Range

(* What is left of a sequence after one element went. *)
LEMMA DropOne ==
  ASSUME NEW S, NEW s \in Seq(S), NEW k \in DOMAIN s
  PROVE  /\ RemoveAt(s, k) \in Seq(S) /\ Len(RemoveAt(s, k)) = Len(s) - 1
         /\ \A i \in DOMAIN RemoveAt(s, k) :
              /\ i < k => i \in DOMAIN s /\ RemoveAt(s, k)[i] = s[i]
              /\ i >= k => i + 1 \in DOMAIN s /\ RemoveAt(s, k)[i] = s[i + 1]
         /\ DOMAIN RemoveAt(s, k) = 1 .. Len(s) - 1
<1>1. /\ k \in 1 .. Len(s) /\ Len(s) \in Nat /\ DOMAIN s = 1 .. Len(s)
      /\ SubSeq(s, 1, k - 1) \in Seq(S) /\ Len(SubSeq(s, 1, k - 1)) = k - 1
      /\ SubSeq(s, k + 1, Len(s)) \in Seq(S) /\ Len(SubSeq(s, k + 1, Len(s))) = Len(s) - k
  OBVIOUS
<1>2. \A i \in 1 .. k - 1 : SubSeq(s, 1, k - 1)[i] = s[i]
  BY <1>1
<1>3. \A i \in 1 .. Len(s) - k : SubSeq(s, k + 1, Len(s))[i] = s[i + k]
  BY <1>1
<1> DEFINE a == SubSeq(s, 1, k - 1)
           b == SubSeq(s, k + 1, Len(s))
           c == a \o b
<1>4. /\ a \in Seq(S) /\ b \in Seq(S) /\ Len(a) = k - 1 /\ Len(b) = Len(s) - k
      /\ \A i \in 1 .. k - 1 : a[i] = s[i]
      /\ \A i \in 1 .. Len(s) - k : b[i] = s[i + k]
  BY <1>1, <1>2, <1>3
<1>5. RemoveAt(s, k) = c
  BY DEF RemoveAt
<1> HIDE DEF a, b
<1>6. /\ c \in Seq(S) /\ Len(c) = Len(a) + Len(b)
      /\ \A i \in 1 .. Len(a) + Len(b) : c[i] = IF i <= Len(a) THEN a[i] ELSE b[i - Len(a)]
  BY <1>4, ConcatProperties
<1> HIDE DEF c
<1>7. Len(c) = Len(s) - 1 /\ DOMAIN c = 1 .. Len(s) - 1
  BY <1>1, <1>4, <1>6
<1>8. ASSUME NEW i \in 1 .. Len(s) - 1 PROVE c[i] = IF i < k THEN s[i] ELSE s[i + 1]
  <2>1. CASE i < k
    BY <1>1, <1>4, <1>6, <2>1
  <2>2. CASE i >= k
    <3> DEFINE j == i - (k - 1)
    <3>1. j \in 1 .. Len(s) - k /\ j + k = i + 1 /\ ~(i < k)
      BY <1>1, <2>2
    <3>2. c[i] = b[j]
      BY <1>1, <1>4, <1>6, <2>2
    <3> HIDE DEF j
    <3>3. b[j] = s[j + k]
      BY <1>4, <3>1
    <3> QED
      BY <3>1, <3>2, <3>3
  <2> QED
    BY <1>1, <2>1, <2>2
<1>9. /\ \A i \in DOMAIN c : /\ i < k => i \in DOMAIN s /\ c[i] = s[i]
                             /\ i >= k => i + 1 \in DOMAIN s /\ c[i] = s[i + 1]
  BY <1>1, <1>7, <1>8
<1> QED
  BY <1>5, <1>6, <1>7, <1>9

(* What asking for another thread does to the calls. *)
LEMMA DropGetKeeps ==
  ASSUME NEW S, NEW cs \in Seq(S), OneSave(cs)
  PROVE  /\ DropGet(cs) \in Seq(S) /\ OneSave(DropGet(cs))
         /\ Range(DropGet(cs)) \subseteq Range(cs)
         /\ \A c \in Range(cs) : c.kind # "get" => c \in Range(DropGet(cs))
<1>1. CASE ~ \E i \in DOMAIN cs : cs[i].kind = "get"
  BY <1>1 DEF DropGet
<1>2. CASE \E i \in DOMAIN cs : cs[i].kind = "get"
  <2>1. PICK k \in DOMAIN cs : cs[k].kind = "get" /\ DropGet(cs) = RemoveAt(cs, k)
    BY <1>2, Zenon DEF DropGet
  <2> DEFINE d == RemoveAt(cs, k)
  <2>2. /\ d \in Seq(S) /\ DOMAIN d = 1 .. Len(cs) - 1 /\ Len(cs) \in Nat /\ DOMAIN cs = 1 .. Len(cs)
        /\ \A i \in DOMAIN d : /\ i < k => i \in DOMAIN cs /\ d[i] = cs[i]
                               /\ i >= k => i + 1 \in DOMAIN cs /\ d[i] = cs[i + 1]
    BY DropOne
  <2> HIDE DEF d
  <2>3. OneSave(d)
    <3> SUFFICES ASSUME NEW i \in DOMAIN d, NEW j \in DOMAIN d, d[i].kind = "autosave", d[j].kind = "autosave"
                 PROVE  i = j
      BY DEF OneSave
    <3> DEFINE f(x) == IF x < k THEN x ELSE x + 1
    <3>1. f(i) \in DOMAIN cs /\ f(j) \in DOMAIN cs /\ d[i] = cs[f(i)] /\ d[j] = cs[f(j)]
      BY <2>2
    <3>2. f(i) = f(j)
      BY <3>1 DEF OneSave
    <3> QED
      BY <2>2, <3>2
  <2>4. Range(d) \subseteq Range(cs)
    BY <2>2 DEF Range
  <2>5. ASSUME NEW c \in Range(cs), c.kind # "get" PROVE c \in Range(d)
    <3>1. PICK i \in DOMAIN cs : cs[i] = c
      BY DEF Range
    <3>2. CASE i < k
      BY <2>1, <2>2, <3>1, <3>2 DEF Range
    <3>3. CASE i > k
      <4>1. i - 1 \in DOMAIN d /\ i - 1 >= k /\ (i - 1) + 1 = i
        BY <2>2, <3>3
      <4> QED
        BY <2>2, <3>1, <4>1 DEF Range
    <3> QED
      BY <2>1, <2>2, <2>5, <3>1, <3>2, <3>3
  <2> QED
    BY <2>1, <2>2, <2>3, <2>4, <2>5 DEF d
<1> QED
  BY <1>1, <1>2

(* A table is a function on some rows. *)
LEMMA TableIs ==
  ASSUME NEW v \in Seq(Nat), NEW m \in Nat, NEW f
  PROVE  f \in Tables(v, m) <=> DOMAIN f \subseteq 1 .. m /\ f \in [DOMAIN f -> TextOf(v)]
BY DEF Tables

(* No letter's last version has gone back. *)
LEMMA Same ==
  ASSUME NEW v \in Seq(Nat)
  PROVE  Grows(v, v)
<1>1. \A l \in DOMAIN v : v[l] \in Nat
  OBVIOUS
<1> QED
  BY <1>1 DEF Grows

(* What is typed stays typed as letters, versions and rows are added. *)
LEMMA SetsGrow ==
  ASSUME NEW v \in Seq(Nat), NEW m \in Nat, NEW k \in Seq(Nat), NEW p \in Nat, Grows(v, k), m <= p
  PROVE  /\ TextOf(v) \subseteq TextOf(k) /\ Tables(v, m) \subseteq Tables(k, p)
         /\ LetterBox(v, m) \subseteq LetterBox(k, p) /\ Waiters(v, m) \subseteq Waiters(k, p)
         /\ Calls(v, m) \subseteq Calls(k, p) /\ Errands(v, m) \subseteq Errands(k, p)
         /\ Messages(v) \subseteq Messages(k)
<1>1. /\ DOMAIN v \subseteq DOMAIN k /\ 1 .. m \subseteq 1 .. p /\ 0 .. m \subseteq 0 .. p
      /\ \A l \in DOMAIN v : v[l] \in Nat /\ k[l] \in Nat /\ v[l] <= k[l]
  BY DEF Grows
<1>2. TextOf(v) \subseteq TextOf(k)
  BY <1>1 DEF TextOf
<1>3. Tables(v, m) \subseteq Tables(k, p)
  <2> SUFFICES ASSUME NEW f \in Tables(v, m) PROVE f \in Tables(k, p)
    OBVIOUS
  <2>1. DOMAIN f \subseteq 1 .. m /\ f \in [DOMAIN f -> TextOf(v)]
    BY TableIs
  <2>2. f \in [DOMAIN f -> TextOf(k)]
    BY <1>2, <2>1
  <2> QED
    BY <1>1, <2>1, <2>2, TableIs
<1>4. LetterBox(v, m) \subseteq LetterBox(k, p)
  BY <1>1 DEF LetterBox
<1>5. Waiters(v, m) \subseteq Waiters(k, p)
  <2> DEFINE A == LetterBox(v, m)
             B == LetterBox(k, p)
             C == {d \in A : Written(d)}
             D == {d \in B : Written(d)}
  <2> USE <1>4
  <2>0. C \subseteq D
    OBVIOUS
  <2> HIDE DEF A, B, C, D
  <2> SUFFICES ASSUME A \subseteq B, C \subseteq D
      PROVE [kind : {"autosave"}, d : A \cup {NoBox}, keep : {TRUE}] \cup [kind : {"close"}, d : A, keep : BOOLEAN]
              \cup [kind : {"strip", "send"}, d : C, keep : {TRUE}]
            \subseteq [kind : {"autosave"}, d : B \cup {NoBox}, keep : {TRUE}] \cup [kind : {"close"}, d : B, keep : BOOLEAN]
              \cup [kind : {"strip", "send"}, d : D, keep : {TRUE}]
    BY <2>0 DEF A, B, C, D, Waiters
  <2>1. [kind : {"autosave"}, d : A \cup {NoBox}, keep : {TRUE}] \subseteq [kind : {"autosave"}, d : B \cup {NoBox}, keep : {TRUE}]
    OBVIOUS
  <2>2. [kind : {"close"}, d : A, keep : BOOLEAN] \subseteq [kind : {"close"}, d : B, keep : BOOLEAN]
    BY Zenon
  <2>3. [kind : {"strip", "send"}, d : C, keep : {TRUE}] \subseteq [kind : {"strip", "send"}, d : D, keep : {TRUE}]
    BY Zenon
  <2> QED
    BY <2>1, <2>2, <2>3
<1>6. Calls(v, m) \subseteq Calls(k, p)
  <2>1. [kind : {"autosave", "keep", "strip"}, text : TextOf(v), row : 1 .. m, list : {<<>>}] \subseteq [kind : {"autosave", "keep", "strip"}, text : TextOf(k), row : 1 .. p, list : {<<>>}]
    BY <1>1, <1>2
  <2>2. [kind : {"delete"}, text : {NoText}, row : 1 .. m, list : {<<>>}] \subseteq [kind : {"delete"}, text : {NoText}, row : 1 .. p, list : {<<>>}]
    BY <1>1
  <2>3. [kind : {"list"}, text : {NoText}, row : {0}, list : Tables(v, m)] \subseteq [kind : {"list"}, text : {NoText}, row : {0}, list : Tables(k, p)]
    BY <1>3
  <2> QED
    BY <2>1, <2>2, <2>3, Zenon DEF Calls
<1>7. Errands(v, m) \subseteq Errands(k, p)
  BY <1>1, <1>2 DEF Errands
<1>8. Messages(v) \subseteq Messages(k)
  BY <1>2, Zenon DEF Messages
<1> QED
  BY <1>2, <1>3, <1>4, <1>5, <1>6, <1>7, <1>8

(* The parts of a text and of a box. *)
LEMMA TextIs ==
  ASSUME NEW v \in Seq(Nat), NEW m \in Nat
  PROVE  /\ \A t \in TextOf(v) : t.letter \in DOMAIN v /\ t.version \in Nat \ {0} /\ t # NoText /\ t.version <= v[t.letter]
         /\ \A d \in LetterBox(v, m) :
              /\ d.letter \in DOMAIN v /\ d.version \in Nat /\ d.row \in 0 .. m /\ d.version <= v[d.letter]
              /\ (Written(d) => Text(d) \in TextOf(v)) /\ Text(d).letter = d.letter /\ Text(d).version = d.version
         /\ \A s, t \in TextOf(v) : s.letter = t.letter /\ s.version = t.version => s = t
BY DEF TextOf, LetterBox, Text, NoText, Written

(* The open box, and the rows a box can be on. *)
LEMMA BoxIs ==
  ASSUME NEW v \in Seq(Nat), NEW m \in Nat, Typed(v, m)
  PROVE  /\ Open => compose \in LetterBox(v, m)
         /\ ~Open => compose = NoBox
         /\ RowOf(compose) \in 0 .. m
         /\ \A d \in LetterBox(v, m) : RowOf(d) \in 0 .. m
BY DEF Open, NoBox, Typed, LetterBox, RowOf, Or

(* What a save does to the table. *)
LEMMA SaveTypes ==
  ASSUME NEW v \in Seq(Nat), lastRow \in Nat, rows \in Tables(v, lastRow),
         NEW r \in 0 .. lastRow, NEW t \in TextOf(v), SaveDraft(r, t)
  PROVE  /\ lastRow' \in Nat /\ lastRow <= lastRow' /\ rows' \in Tables(v, lastRow')
         /\ SavedRow(r) \in 1 .. lastRow'
<1>1. rows \in [DOMAIN rows -> TextOf(v)] /\ DOMAIN rows \subseteq 1 .. lastRow
  BY TableIs
<1>2. CASE r = 0
  <2>1. lastRow' = lastRow + 1 /\ rows' = With(rows, lastRow', t) /\ SavedRow(r) = lastRow + 1
    BY <1>2 DEF SaveDraft, SavedRow
  <2>2. DOMAIN rows' = DOMAIN rows \cup {lastRow'} /\ rows' \in [DOMAIN rows' -> TextOf(v)]
    BY <1>1, <2>1 DEF With
  <2>3. DOMAIN rows' \subseteq 1 .. lastRow' /\ lastRow' \in Nat
    BY <1>1, <2>1, <2>2
  <2> QED
    BY <2>1, <2>2, <2>3, TableIs
<1>3. CASE r # 0
  <2>1. lastRow' = lastRow /\ SavedRow(r) = r /\ rows' = (IF r \in DOMAIN rows THEN [rows EXCEPT ![r] = t] ELSE rows)
    BY <1>3 DEF SaveDraft, SavedRow
  <2>2. DOMAIN rows' = DOMAIN rows /\ rows' \in [DOMAIN rows' -> TextOf(v)]
    BY <1>1, <2>1
  <2> QED
    BY <1>1, <1>3, <2>1, <2>2, TableIs
<1> QED
  BY <1>2, <1>3

(* What a deletion does. *)
LEMMA DeleteTypes ==
  ASSUME NEW v \in Seq(Nat), lastRow \in Nat, rows \in Tables(v, lastRow), NEW r, DeleteRow(r)
  PROVE  lastRow' = lastRow /\ rows' \in Tables(v, lastRow)
<1>1. rows \in [DOMAIN rows -> TextOf(v)] /\ DOMAIN rows \subseteq 1 .. lastRow
  BY TableIs
<1>2. rows' = [x \in DOMAIN rows \ {r} |-> rows[x]] /\ lastRow' = lastRow
  BY DEF DeleteRow, Without, Restrict
<1>3. DOMAIN rows' = DOMAIN rows \ {r} /\ rows' \in [DOMAIN rows' -> TextOf(v)]
  BY <1>1, <1>2
<1>4. DOMAIN rows' \subseteq 1 .. lastRow
  BY <1>1, <1>3
<1> QED
  BY <1>2, <1>3, <1>4, TableIs

(* The calls there are. *)
LEMMA CallTypes ==
  ASSUME NEW v \in Seq(Nat), NEW m \in Nat
  PROVE  /\ \A k \in {"autosave", "keep", "strip"}, t \in TextOf(v), r \in 1 .. m : Call(k, t, r) \in Calls(v, m)
         /\ \A r \in 1 .. m : Call("delete", NoText, r) \in Calls(v, m)
         /\ \A f \in Tables(v, m) : List(f) \in Calls(v, m)
         /\ \A t \in Threads : [Call("get", NoText, 0) EXCEPT !.list = t] \in Calls(v, m)
<1>1. ASSUME NEW t \in Threads
      PROVE  [Call("get", NoText, 0) EXCEPT !.list = t] \in [kind : {"get"}, text : {NoText}, row : {0}, list : Threads]
  BY DEF Call
<1> QED
  BY <1>1 DEF Calls, Call, List

(* A call that is not an autosave, or the only one, keeps saves single.    *)
LEMMA OneMore ==
  ASSUME NEW S, NEW cs \in Seq(S), NEW e \in S, OneSave(cs),
         e.kind = "autosave" => \A i \in DOMAIN cs : cs[i].kind # "autosave"
  PROVE  OneSave(Append(cs, e)) /\ Append(cs, e) \in Seq(S)
<1>1. /\ DOMAIN Append(cs, e) = 1 .. Len(cs) + 1 /\ DOMAIN cs = 1 .. Len(cs) /\ Len(cs) \in Nat
      /\ \A i \in 1 .. Len(cs) : Append(cs, e)[i] = cs[i]
      /\ Append(cs, e)[Len(cs) + 1] = e /\ Append(cs, e) \in Seq(S)
  OBVIOUS
<1> SUFFICES ASSUME NEW i \in DOMAIN Append(cs, e), NEW j \in DOMAIN Append(cs, e),
                    Append(cs, e)[i].kind = "autosave", Append(cs, e)[j].kind = "autosave"
             PROVE  i = j
  BY <1>1 DEF OneSave
<1>2. CASE i \in DOMAIN cs /\ j \in DOMAIN cs
  BY <1>1, <1>2 DEF OneSave
<1>3. CASE i = Len(cs) + 1 /\ j = Len(cs) + 1
  BY <1>3
<1>4. CASE e.kind = "autosave" /\ (i \in DOMAIN cs \/ j \in DOMAIN cs)
  BY <1>1, <1>4
<1> QED
  BY <1>1, <1>2, <1>3, <1>4

(* What has landed leaves saves single. *)
LEMMA OneLess ==
  ASSUME NEW S, NEW cs \in Seq(S), cs # <<>>, OneSave(cs)
  PROVE  /\ OneSave(Tail(cs))
         /\ Head(cs).kind = "autosave" => \A i \in DOMAIN Tail(cs) : Tail(cs)[i].kind # "autosave"
<1>1. /\ \A i \in DOMAIN Tail(cs) : i + 1 \in DOMAIN cs /\ Tail(cs)[i] = cs[i + 1] /\ i \in Nat \ {0}
      /\ 1 \in DOMAIN cs /\ Head(cs) = cs[1]
  BY TailRange
<1> QED
  BY <1>1 DEF OneSave

(* closeCompose's end. *)
LEMMA KeepTypes ==
  ASSUME NEW v \in Seq(Nat), lastRow \in Nat, Typed(v, lastRow), NEW d \in LetterBox(v, lastRow), NEW keep \in BOOLEAN,
         NEW cs \in Seq(Calls(v, lastRow)), OneSave(cs), Keep(d, keep, cs)
  PROVE  /\ lastRow' \in Nat /\ lastRow <= lastRow' /\ rows' \in Tables(v, lastRow')
         /\ calls' \in Seq(Calls(v, lastRow')) /\ OneSave(calls')
<1> DEFINE r == RowOf(d)
<1>1. r \in 0 .. lastRow /\ (Written(d) => Text(d) \in TextOf(v)) /\ rows \in Tables(v, lastRow)
  BY BoxIs, TextIs DEF Typed
<1>2. CASE keep /\ Written(d)
  <2>1. SaveDraft(r, Text(d)) /\ calls' = Append(cs, Call("keep", Text(d), SavedRow(r)))
    BY <1>2 DEF Keep
  <2> HIDE DEF r
  <2>2. /\ lastRow' \in Nat /\ lastRow <= lastRow' /\ rows' \in Tables(v, lastRow') /\ SavedRow(r) \in 1 .. lastRow'
    BY <1>1, <1>2, <2>1, SaveTypes
  <2>3. cs \in Seq(Calls(v, lastRow'))
    BY <2>2, Same, SetsGrow, Wider
  <2>4. Call("keep", Text(d), SavedRow(r)) \in Calls(v, lastRow')
    BY <1>1, <1>2, <2>2, CallTypes
  <2> QED
    BY <2>1, <2>2, <2>3, <2>4, OneMore DEF Call
<1>3. CASE ~(keep /\ Written(d))
  <2>1. DeleteRow(r) /\ calls' = (IF r = 0 THEN cs ELSE Append(cs, Call("delete", NoText, r)))
    BY <1>3 DEF Keep
  <2> HIDE DEF r
  <2>2. lastRow' = lastRow /\ rows' \in Tables(v, lastRow)
    BY <1>1, <2>1, DeleteTypes
  <2>3. CASE r # 0
    <3>1. Call("delete", NoText, r) \in Calls(v, lastRow)
      BY <1>1, <2>3, CallTypes
    <3> QED
      BY <2>1, <2>2, <2>3, <3>1, OneMore DEF Call
  <2> QED
    BY <2>1, <2>2, <2>3
<1> QED
  BY <1>2, <1>3

(* The open box as something that waits. *)
LEMMA WaiterTypes ==
  ASSUME NEW v \in Seq(Nat), lastRow \in Nat, Typed(v, lastRow)
  PROVE  /\ \A keep \in BOOLEAN : Open => Waiter("close", keep) \in Waiters(v, lastRow)
         /\ \A kind \in {"strip", "send"} : Open /\ Written(compose) => Waiter(kind, TRUE) \in Waiters(v, lastRow)
         /\ Waiter("autosave", TRUE) \in Waiters(v, lastRow)
<1> USE DEF Waiter, Waiters
<1>1. compose \in LetterBox(v, lastRow) \cup {NoBox} /\ (Open => compose \in LetterBox(v, lastRow))
  BY BoxIs DEF Typed
<1>2. Waiter("autosave", TRUE) \in [kind : {"autosave"}, d : LetterBox(v, lastRow) \cup {NoBox}, keep : {TRUE}]
  BY <1>1
<1>3. ASSUME NEW keep \in BOOLEAN, Open
      PROVE  Waiter("close", keep) \in [kind : {"close"}, d : LetterBox(v, lastRow), keep : BOOLEAN]
  BY <1>1, <1>3, Zenon
<1>4. ASSUME NEW kind \in {"strip", "send"}, Open, Written(compose)
      PROVE  Waiter(kind, TRUE) \in [kind : {"strip", "send"}, d : {d \in LetterBox(v, lastRow) : Written(d)}, keep : {TRUE}]
  BY <1>1, <1>4
<1> QED
  BY <1>2, <1>3, <1>4

(* What waits keeps its type when one more waits. *)
LEMMA WaitTypes ==
  ASSUME NEW v \in Seq(Nat), lastRow \in Nat, Typed(v, lastRow), NEW kind \in {"autosave", "close", "strip", "send"},
         NEW keep \in BOOLEAN, kind # "autosave" => Open, kind # "close" => keep = TRUE,
         kind \in {"strip", "send"} => Written(compose),
         waiting' = Append(waiting, Waiter(kind, keep))
  PROVE  waiting' \in Seq(Waiters(v, lastRow))
<1>1. CASE kind = "autosave"
  <2>1. Waiter(kind, keep) \in Waiters(v, lastRow)
    BY <1>1, WaiterTypes
  <2> QED
    BY <2>1 DEF Typed
<1>2. CASE kind # "autosave"
  <2>1. Waiter(kind, keep) \in Waiters(v, lastRow)
    BY <1>2, WaiterTypes
  <2> QED
    BY <2>1 DEF Typed
<1> QED
  BY <1>1, <1>2

(* More letters, versions and rows leave every type as it is. *)
LEMMA TypedGrows ==
  ASSUME NEW v \in Seq(Nat), NEW m \in Nat, NEW k \in Seq(Nat), NEW p \in Nat, Grows(v, k), m <= p, Typed(v, m)
  PROVE  Typed(k, p)
<1>1. /\ waiting \in Seq(Waiters(k, p)) /\ calls \in Seq(Calls(k, p)) /\ sends \in Seq(Messages(k))
  BY SetsGrow, Wider DEF Typed
<1>2. saved \in [row : 0 .. p, text : TextOf(k) \cup {NoText}] /\ autoRow \in 0 .. p
  BY SetsGrow DEF Typed
<1> QED
  BY <1>1, <1>2, SetsGrow DEF Typed

(* So do more rows alone. *)
LEMMA RowsGrow ==
  ASSUME NEW v \in Seq(Nat), NEW m \in Nat, NEW p \in Nat, m <= p, Typed(v, m)
  PROVE  Typed(v, p)
BY Same, TypedGrows

(* What a box that closes does to the table and to what is on its way      *)
(* (closeCompose).                                                         *)
LEMMA ClosingTypes ==
  ASSUME TypeOK, NEW keep \in BOOLEAN, NEW cs \in Seq(Calls(latest, lastRow)), OneSave(cs),
         Open, Closing(keep, cs)
  PROVE  /\ lastRow' \in Nat /\ lastRow <= lastRow' /\ rows' \in Tables(latest, lastRow')
         /\ calls' \in Seq(Calls(latest, lastRow')) /\ OneSave(calls')
         /\ waiting' \in Seq(Waiters(latest, lastRow')) /\ timer' \in BOOLEAN
<1>v. PICK v \in Seq(Nat) : v = latest
  BY DEF TypeOK
<1>0. v \in Seq(Nat) /\ Typed(v, lastRow) /\ lastRow \in Nat /\ compose \in LetterBox(v, lastRow)
  BY <1>v, BoxIs DEF TypeOK
<1>1. cs \in Seq(Calls(v, lastRow))
  BY <1>v
<1>2. CASE BehindSave
  <2>1. waiting' = Append(waiting, Waiter("close", keep)) /\ calls' = cs /\ UNCHANGED table /\ timer' = FALSE
    BY <1>2 DEF Closing
  <2>2. waiting' \in Seq(Waiters(v, lastRow))
    BY <1>0, <2>1, WaitTypes
  <2>3. lastRow' = lastRow /\ rows' = rows
    BY <2>1 DEF table
  <2>4. rows \in Tables(v, lastRow)
    BY <1>0 DEF Typed
  <2>5. lastRow' \in Nat /\ lastRow <= lastRow' /\ rows' \in Tables(v, lastRow')
    BY <1>0, <2>3, <2>4
  <2>6. calls' \in Seq(Calls(v, lastRow')) /\ waiting' \in Seq(Waiters(v, lastRow'))
    BY <1>1, <2>1, <2>2, <2>3
  <2>7. OneSave(calls') /\ timer' \in BOOLEAN
    BY <2>1
  <2> QED
    BY <1>v, <2>5, <2>6, <2>7
<1>3. CASE ~BehindSave
  <2>1. Keep(compose, keep, cs) /\ UNCHANGED waiting /\ timer' = FALSE
    BY <1>3 DEF Closing
  <2>2. /\ lastRow' \in Nat /\ lastRow <= lastRow' /\ rows' \in Tables(v, lastRow')
        /\ calls' \in Seq(Calls(v, lastRow')) /\ OneSave(calls')
    BY <1>0, <1>1, <2>1, KeepTypes
  <2>3. Typed(v, lastRow')
    BY <1>0, <2>2, RowsGrow
  <2>4. waiting' \in Seq(Waiters(v, lastRow'))
    BY <2>1, <2>3 DEF Typed
  <2> QED
    BY <1>v, <2>1, <2>2, <2>4
<1> QED
  BY <1>2, <1>3

(* So does one that is parked, with its autosave timer ended               *)
(* (parkCompose).                                                          *)
LEMMA ParkTypes ==
  ASSUME TypeOK, Park
  PROVE  /\ lastRow' \in Nat /\ lastRow <= lastRow' /\ rows' \in Tables(latest, lastRow')
         /\ calls' \in Seq(Calls(latest, lastRow')) /\ OneSave(calls')
         /\ waiting' \in Seq(Waiters(latest, lastRow')) /\ timer' \in BOOLEAN
<1>1. CASE Open
  BY <1>1, ClosingTypes DEF Park, TypeOK, Typed
<1>2. CASE ~Open
  BY <1>2 DEF Park, TypeOK, Typed, table, Window
<1> QED
  BY <1>1, <1>2

(* What happened is of the named kinds. *)
LEMMA SlipTypes ==
  ASSUME slips \subseteq AllSlips, NEW now, Slip(now)
  PROVE  slips' \subseteq AllSlips
BY ComposerAssumption DEF Slip

(* The box is emptied. *)
LEMMA NoneOpenTypes ==
  ASSUME NEW v \in Seq(Nat), NEW m \in Nat, NoneOpen
  PROVE  /\ compose' \in LetterBox(v, m) \cup {NoBox} /\ autoRow' \in 0 .. m /\ ~Open'
         /\ saved' \in [row : 0 .. m, text : TextOf(v) \cup {NoText}]
         /\ dock' \in Places /\ collapsed' \in BOOLEAN /\ fresh' \in BOOLEAN
         /\ (autoRow' # 0 => Open')
<1> USE DEF NoneOpen, Places
<1>1. compose' \in LetterBox(v, m) \cup {NoBox} /\ autoRow' \in 0 .. m
  OBVIOUS
<1>2. saved' \in [row : 0 .. m, text : TextOf(v) \cup {NoText}]
  OBVIOUS
<1>3. ~Open'
  BY DEF Open, NoBox
<1> QED
  BY <1>1, <1>2, <1>3

(* The box gets a letter. *)
LEMMA SetBoxTypes ==
  ASSUME NEW v \in Seq(Nat), NEW m \in Nat, NEW d \in LetterBox(v, m), NEW place \in Places, SetBox(d, place)
  PROVE  /\ compose' \in LetterBox(v, m) \cup {NoBox} /\ autoRow' \in 0 .. m
         /\ saved' \in [row : 0 .. m, text : TextOf(v) \cup {NoText}]
         /\ dock' \in Places /\ collapsed' \in BOOLEAN /\ fresh' \in BOOLEAN
         /\ (autoRow' # 0 => Open')
<1> USE DEF SetBox
<1>1. compose' \in LetterBox(v, m) \cup {NoBox} /\ autoRow' = 0
  OBVIOUS
<1>2. saved' \in [row : 0 .. m, text : TextOf(v) \cup {NoText}]
  OBVIOUS
<1> QED
  BY <1>1, <1>2

(* What every step that leaves the letters alone has to show. *)
LEMMA SameLetters ==
  ASSUME TypeOK, UNCHANGED <<letters, latest>>, Window', lastRow' \in Nat,
         Typed(latest, lastRow)', OneSave(calls')
  PROVE  TypeOK'
BY DEF TypeOK, Typed

(* A key that closes the box. *)
LEMMA CloseTypes == TypeOK /\ (\E keep \in BOOLEAN : Close(keep)) => TypeOK'
<1> SUFFICES ASSUME TypeOK, NEW keep \in BOOLEAN, Close(keep) PROVE TypeOK'
  OBVIOUS
<1>v. PICK v \in Seq(Nat) : v = latest
  BY DEF TypeOK
<1>0. v \in Seq(Nat) /\ Typed(v, lastRow) /\ lastRow \in Nat /\ Window
  BY <1>v DEF TypeOK
<1>1. /\ lastRow' \in Nat /\ lastRow <= lastRow' /\ rows' \in Tables(v, lastRow')
      /\ calls' \in Seq(Calls(v, lastRow')) /\ OneSave(calls')
      /\ waiting' \in Seq(Waiters(v, lastRow')) /\ timer' \in BOOLEAN
  <2>1. Closing(keep, calls) /\ Open /\ calls \in Seq(Calls(v, lastRow)) /\ OneSave(calls)
    BY <1>v DEF Close, TypeOK, Typed
  <2> QED
    BY <1>v, <2>1, ClosingTypes
<1>2. Typed(v, lastRow')
  BY <1>0, <1>1, RowsGrow
<1>3. /\ compose' \in LetterBox(v, lastRow') \cup {NoBox} /\ autoRow' \in 0 .. lastRow'
      /\ saved' \in [row : 0 .. lastRow', text : TextOf(v) \cup {NoText}]
      /\ dock' \in Places /\ collapsed' \in BOOLEAN /\ fresh' \in BOOLEAN /\ (autoRow' # 0 => Open')
  <2>1. CASE UNCHANGED box
    BY <1>0, <1>2, <2>1 DEF box, Typed, Window, Open
  <2>2. CASE NoneOpen
    BY <1>0, <1>1, <2>2, NoneOpenTypes
  <2> QED
    BY <2>1, <2>2 DEF Close
<1>4. UNCHANGED <<open, drafts, slow, sends, letters, news, latest, told>> /\ owed' \subseteq owed
  BY DEF Close
<1>5. slips' \subseteq AllSlips
  BY <1>0, SlipTypes DEF Close, Window
<1>6. Typed(v, lastRow)'
  BY <1>1, <1>2, <1>3, <1>4 DEF Typed
<1>7. Window'
  BY <1>0, <1>1, <1>3, <1>4, <1>5 DEF Window
<1> QED
  BY <1>v, <1>1, <1>4, <1>6, <1>7, SameLetters

(* What a box that collapses does to the table (collapseCompose). *)
LEMMA StripTypes ==
  ASSUME NEW v \in Seq(Nat), lastRow \in Nat, Typed(v, lastRow), NEW d \in LetterBox(v, lastRow), Written(d), OneSave(calls), Strip(d)
  PROVE  /\ lastRow' \in Nat /\ lastRow <= lastRow' /\ rows' \in Tables(v, lastRow')
         /\ calls' \in Seq(Calls(v, lastRow')) /\ OneSave(calls')
         /\ collapsed' = TRUE /\ UNCHANGED <<compose, dock, autoRow, saved, fresh>>
<1> DEFINE r == RowOf(d)
<1>1. r \in 0 .. lastRow /\ Text(d) \in TextOf(v) /\ rows \in Tables(v, lastRow)
  BY BoxIs, TextIs DEF Typed
<1>2. SaveDraft(r, Text(d)) /\ calls' = Append(calls, Call("strip", Text(d), SavedRow(r))) /\ collapsed' = TRUE
      /\ UNCHANGED <<compose, dock, autoRow, saved, fresh>>
  BY DEF Strip
<1> HIDE DEF r
<1>3. /\ lastRow' \in Nat /\ lastRow <= lastRow' /\ rows' \in Tables(v, lastRow') /\ SavedRow(r) \in 1 .. lastRow'
  BY <1>1, <1>2, SaveTypes
<1>4. calls \in Seq(Calls(v, lastRow')) /\ Call("strip", Text(d), SavedRow(r)) \in Calls(v, lastRow')
  BY <1>1, <1>3, Same, SetsGrow, Wider, CallTypes DEF Typed
<1> QED
  BY <1>2, <1>3, <1>4, OneMore DEF Call

(* Escape on the box keeps the types. *)
LEMMA DismissTypes == TypeOK /\ Dismiss => TypeOK'
<1> SUFFICES ASSUME TypeOK, Dismiss PROVE TypeOK'
  OBVIOUS
<1>v. PICK v \in Seq(Nat) : v = latest
  BY DEF TypeOK
<1>0. v \in Seq(Nat) /\ Typed(v, lastRow) /\ lastRow \in Nat /\ Window /\ OneSave(calls) /\ Open /\ Written(compose)
  BY <1>v DEF TypeOK, Dismiss
<1>1. compose \in LetterBox(v, lastRow)
  BY <1>0, BoxIs
<1>2. UNCHANGED <<open, drafts, slow, sends, history>> /\ timer' = FALSE
  BY DEF Dismiss
<1>3. slips' \subseteq AllSlips
  BY <1>0, SlipTypes DEF Dismiss, Window
<1>4. CASE BehindSave
  <2>1. waiting' = Append(waiting, Waiter("strip", TRUE)) /\ UNCHANGED <<box, table, calls>>
    BY <1>4 DEF Dismiss
  <2>2. waiting' \in Seq(Waiters(v, lastRow))
    BY <1>0, <2>1, WaitTypes
  <2>3. Typed(v, lastRow)'
    BY <1>0, <1>2, <2>1, <2>2 DEF Typed, box, table, history
  <2>4. Window'
    BY <1>0, <1>2, <1>3, <2>1 DEF Window, Open, box, history
  <2> QED
    BY <1>v, <1>0, <1>2, <2>1, <2>3, <2>4, SameLetters DEF history, table
<1>5. CASE ~BehindSave
  <2>1. Strip(compose) /\ UNCHANGED waiting
    BY <1>5 DEF Dismiss
  <2>2. /\ lastRow' \in Nat /\ lastRow <= lastRow' /\ rows' \in Tables(v, lastRow')
        /\ calls' \in Seq(Calls(v, lastRow')) /\ OneSave(calls')
        /\ collapsed' = TRUE /\ UNCHANGED <<compose, dock, autoRow, saved, fresh>>
    BY <1>0, <1>1, <2>1, StripTypes
  <2>3. Typed(v, lastRow')
    BY <1>0, <2>2, RowsGrow
  <2>4. Typed(v, lastRow)'
    BY <1>2, <2>1, <2>2, <2>3 DEF Typed, history
  <2>5. Window'
    BY <1>0, <1>2, <1>3, <2>2 DEF Window, Open, history
  <2> QED
    BY <1>v, <1>2, <2>2, <2>4, <2>5, SameLetters DEF history
<1> QED
  BY <1>4, <1>5

(* So does the strip when it opens again. *)
LEMMA ExpandTypes == TypeOK /\ Expand => TypeOK'
<1> SUFFICES ASSUME TypeOK, Expand PROVE TypeOK'
  OBVIOUS
<1>1. UNCHANGED <<compose, dock, autoRow, saved, fresh, timer, open, drafts, lines, table, sends, history>> /\ collapsed' = FALSE
  BY DEF Expand
<1>2. slips' \subseteq AllSlips
  BY SlipTypes DEF Expand, Window, TypeOK
<1>3. Typed(latest, lastRow)'
  BY <1>1 DEF TypeOK, Typed, lines, table, history
<1>4. Window'
  BY <1>1, <1>2 DEF TypeOK, Window, Open, history
<1> QED
  BY <1>1, <1>3, <1>4, SameLetters DEF TypeOK, lines, table, history

(* Another box takes the place of this one. *)
LEMMA ReplaceTypes ==
  ASSUME NEW v \in Seq(Nat), NEW k \in Seq(Nat), Grows(v, k), Typed(v, lastRow), lastRow \in Nat, Window,
         lastRow' \in Nat, lastRow <= lastRow', rows' \in Tables(v, lastRow'),
         calls' \in Seq(Calls(v, lastRow')), OneSave(calls'),
         waiting' \in Seq(Waiters(v, lastRow')), timer' \in BOOLEAN, slips' \subseteq AllSlips,
         NEW d \in LetterBox(k, lastRow'), NEW place \in Places, SetBox(d, place),
         slow' \subseteq slow, UNCHANGED <<open, drafts, sends, news, owed, told>>
  PROVE  Typed(k, lastRow)' /\ Window'
<1>1. Typed(k, lastRow')
  BY TypedGrows
<1>2. /\ rows' \in Tables(k, lastRow') /\ calls' \in Seq(Calls(k, lastRow'))
      /\ waiting' \in Seq(Waiters(k, lastRow'))
  BY Same, SetsGrow, Wider
<1>3. /\ compose' \in LetterBox(k, lastRow') \cup {NoBox} /\ autoRow' \in 0 .. lastRow'
      /\ saved' \in [row : 0 .. lastRow', text : TextOf(k) \cup {NoText}]
      /\ dock' \in Places /\ collapsed' \in BOOLEAN /\ fresh' \in BOOLEAN /\ (autoRow' # 0 => Open')
  BY SetBoxTypes
<1>4. Typed(k, lastRow)'
  BY <1>1, <1>2, <1>3 DEF Typed
<1>5. Window'
  BY <1>3 DEF Window
<1> QED
  BY <1>4, <1>5

(* A new box is a box. *)
LEMMA OpenNewTypes ==
  ASSUME TypeOK, NEW place \in Places, OpenNew(place), slips' \subseteq AllSlips,
         UNCHANGED <<open, drafts, slow, sends, news, owed, told>>
  PROVE  TypeOK'
<1>v. PICK v \in Seq(Nat) : v = latest
  BY DEF TypeOK
<1>k. PICK k \in Seq(Nat) : k = Append(v, 0)
  <2>1. Append(v, 0) \in Seq(Nat)
    OBVIOUS
  <2> QED
    BY <2>1
<1>0. Typed(v, lastRow) /\ lastRow \in Nat /\ Window /\ OneSave(calls) /\ letters \in Seq(Places) /\ Len(letters) = Len(v)
  BY <1>v DEF TypeOK
<1>1. /\ lastRow' \in Nat /\ lastRow <= lastRow' /\ rows' \in Tables(v, lastRow')
      /\ calls' \in Seq(Calls(v, lastRow')) /\ OneSave(calls')
      /\ waiting' \in Seq(Waiters(v, lastRow')) /\ timer' \in BOOLEAN
  BY <1>v, ParkTypes DEF OpenNew
<1>2. /\ letters' = Append(letters, place) /\ latest' = Append(latest, 0)
      /\ SetBox([NoBox EXCEPT !.letter = Len(letters')], place)
  BY DEF OpenNew
<1>3. /\ letters' \in Seq(Places) /\ Len(letters') = Len(v) + 1 /\ latest' = k /\ Len(k) = Len(v) + 1
      /\ Len(v) \in Nat /\ k[Len(v) + 1] = 0 /\ \A l \in DOMAIN v : k[l] = v[l] /\ v[l] \in Nat
  BY <1>v, <1>k, <1>0, <1>2
<1>4. [NoBox EXCEPT !.letter = Len(v) + 1] \in LetterBox(k, lastRow')
  <2>1. Len(v) + 1 \in DOMAIN k /\ 0 \in Nat /\ 0 \in 0 .. lastRow' /\ 0 <= k[Len(v) + 1]
    BY <1>1, <1>3
  <2> QED
    BY <2>1 DEF NoBox, LetterBox
<1>5. Grows(v, k)
  BY <1>3 DEF Grows
<1>6. Typed(k, lastRow)' /\ Window'
  BY <1>0, <1>1, <1>2, <1>3, <1>4, <1>5, ReplaceTypes
<1> QED
  BY <1>1, <1>3, <1>6 DEF TypeOK

(* So is a draft that is opened. *)
LEMMA OpenDraftTypes ==
  ASSUME TypeOK, NEW t \in TextOf(latest), NEW r \in 0 .. lastRow, OpenDraft(t, r), slips' \subseteq AllSlips,
         slow' \subseteq slow, UNCHANGED <<open, drafts, sends, letters, latest, news, owed, told>>
  PROVE  TypeOK'
<1>v. PICK v \in Seq(Nat) : v = latest
  BY DEF TypeOK
<1> DEFINE place == IF letters[t.letter] = open THEN open ELSE Panel
           d == [letter |-> t.letter, version |-> t.version, row |-> r]
<1>0. v \in Seq(Nat) /\ Typed(v, lastRow) /\ lastRow \in Nat /\ Window /\ OneSave(calls)
  BY <1>v DEF TypeOK
<1>1. /\ lastRow' \in Nat /\ lastRow <= lastRow' /\ rows' \in Tables(v, lastRow')
      /\ calls' \in Seq(Calls(v, lastRow')) /\ OneSave(calls')
      /\ waiting' \in Seq(Waiters(v, lastRow')) /\ timer' \in BOOLEAN
  <2>1. CASE UNCHANGED <<timer, table, calls, waiting>>
    BY <1>0, <2>1 DEF Typed, Window, table
  <2>2. CASE Park
    BY <1>v, <2>2, ParkTypes
  <2> QED
    BY <2>1, <2>2 DEF OpenDraft
<1>2. SetBox(d, place)
  BY DEF OpenDraft
<1>3. place \in Places
  BY DEF TypeOK, Places, TextOf
<1> HIDE DEF place
<1>4. t.letter \in DOMAIN v /\ t.version \in Nat /\ t.version <= v[t.letter]
  BY <1>v, <1>0, TextIs
<1>5. d \in LetterBox(v, lastRow')
  BY <1>0, <1>1, <1>4 DEF LetterBox
<1> HIDE DEF d
<1>6. Grows(v, v)
  BY Same
<1>7. Typed(v, lastRow)' /\ Window'
  BY <1>0, <1>1, <1>2, <1>3, <1>5, <1>6, ReplaceTypes
<1> QED
  BY <1>v, <1>1, <1>7, SameLetters

(* A row and what is in it. *)
LEMMA RowIs ==
  ASSUME NEW v \in Seq(Nat), NEW m \in Nat, NEW f \in Tables(v, m), NEW r \in DOMAIN f
  PROVE  f[r] \in TextOf(v) /\ r \in 1 .. m /\ r \in 0 .. m /\ r # 0
BY TableIs

(* Every opening of a box keeps the types. *)
LEMMA OpeningTypes ==
  TypeOK /\ (NewMessage \/ Reply \/ \E r \in DOMAIN drafts : FromList(r)) => TypeOK'
<1> SUFFICES ASSUME TypeOK, NewMessage \/ Reply \/ \E r \in DOMAIN drafts : FromList(r) PROVE TypeOK'
  OBVIOUS
<1>0. latest \in Seq(Nat) /\ lastRow \in Nat /\ drafts \in Tables(latest, lastRow) /\ Window /\ slips \subseteq AllSlips
  BY DEF TypeOK, Typed, Window
<1>1. CASE NewMessage
  <2>1. slips' \subseteq AllSlips
    BY <1>0, <1>1, SlipTypes DEF NewMessage
  <2> QED
    BY <1>1, <2>1, OpenNewTypes DEF NewMessage, Places
<1>2. CASE Reply
  <2>1. CASE \E r \in Parked : /\ Slip(DraftSlips(drafts[r], r)) /\ OpenDraft(drafts[r], r) /\ UNCHANGED <<letters, latest>>
    <3>1. PICK r \in DOMAIN drafts : /\ Slip(DraftSlips(drafts[r], r)) /\ OpenDraft(drafts[r], r) /\ UNCHANGED <<letters, latest>>
      BY <2>1 DEF Parked
    <3>2. drafts[r] \in TextOf(latest) /\ r \in 0 .. lastRow
      BY <1>0, RowIs
    <3>3. slips' \subseteq AllSlips
      BY <1>0, <3>1, SlipTypes
    <3> QED
      BY <1>2, <3>1, <3>2, <3>3, OpenDraftTypes DEF Reply
  <2>2. CASE OpenNew(open) /\ \E now : Slip(now)
    <3>1. slips' \subseteq AllSlips
      BY <1>0, <2>2, SlipTypes
    <3>2. open \in Places
      BY <1>0, <1>2 DEF Reply, Window, Places
    <3> QED
      BY <1>2, <2>2, <3>1, <3>2, OpenNewTypes DEF Reply
  <2> QED
    BY <1>2, <2>1, <2>2, Zenon DEF Reply
<1>3. ASSUME NEW r \in DOMAIN drafts, FromList(r) PROVE TypeOK'
  <2>1. drafts[r] \in TextOf(latest) /\ r \in 0 .. lastRow
    BY <1>0, RowIs
  <2>2. slips' \subseteq AllSlips
    BY <1>0, <1>3, SlipTypes DEF FromList
  <2> QED
    BY <1>3, <2>1, <2>2, OpenDraftTypes DEF FromList, history
<1> QED
  BY <1>1, <1>2, <1>3

(* Every step starts from here. *)
LEMMA Start ==
  ASSUME TypeOK
  PROVE  \E v \in Seq(Nat) : /\ v = latest /\ Len(letters) = Len(v) /\ Typed(v, lastRow) /\ lastRow \in Nat
                        /\ Window /\ OneSave(calls) /\ letters \in Seq(Places) /\ latest \in Seq(Nat)
BY DEF TypeOK

(* And ends here. *)
LEMMA Finish ==
  ASSUME NEW v \in Seq(Nat), letters' \in Seq(Places), v = latest', Len(letters') = Len(v),
         lastRow' \in Nat, Typed(v, lastRow)', Window', OneSave(calls')
  PROVE  TypeOK'
BY DEF TypeOK

(* Another answer is on its way. *)
LEMMA CallAdded ==
  ASSUME NEW v \in Seq(Nat), NEW m \in Nat, NEW cs \in Seq(Calls(v, m)), OneSave(cs), NEW e \in Calls(v, m),
         e.kind # "autosave", calls' = Append(cs, e)
  PROVE  calls' \in Seq(Calls(v, m)) /\ OneSave(calls')
BY OneMore

(* A list of the table is a call. *)
LEMMA ListTypes ==
  ASSUME NEW v \in Seq(Nat), NEW m \in Nat, NEW f \in Tables(v, m)
  PROVE  List(f) \in Calls(v, m) /\ List(f).kind # "autosave"
BY CallTypes DEF List

(* A click on a thread keeps the types. *)
LEMMA AskTypes == TypeOK /\ (\E t \in Threads : Ask(t)) => TypeOK'
<1> SUFFICES ASSUME TypeOK, NEW t \in Threads, Ask(t) PROVE TypeOK'
  OBVIOUS
<1>0. PICK v \in Seq(Nat) : /\ v = latest /\ Len(letters) = Len(v) /\ Typed(v, lastRow) /\ lastRow \in Nat
                       /\ Window /\ OneSave(calls) /\ letters \in Seq(Places) /\ latest \in Seq(Nat)
  BY Start
<1> DEFINE e == [Call("get", NoText, 0) EXCEPT !.list = t]
<1>1. calls' = Append(DropGet(calls), e)
      /\ UNCHANGED <<box, timer, open, drafts, waiting, slow, table, sends, history, slips>>
  BY DEF Ask
<1>2. e \in Calls(v, lastRow) /\ e.kind # "autosave"
  BY <1>0, CallTypes DEF Call
<1> HIDE DEF e
<1>3. DropGet(calls) \in Seq(Calls(v, lastRow)) /\ OneSave(DropGet(calls))
  BY <1>0, DropGetKeeps DEF Typed
<1>4. calls' \in Seq(Calls(v, lastRow)) /\ OneSave(calls')
  BY <1>0, <1>1, <1>2, <1>3, CallAdded
<1>5. Typed(v, lastRow)'
  BY <1>0, <1>1, <1>4 DEF Typed, box, table, history
<1>6. Window'
  BY <1>0, <1>1 DEF Window, Open, box, history
<1> QED
  BY <1>0, <1>1, <1>4, <1>5, <1>6, Finish DEF history, table

(* So does what the pane shows next. *)
LEMMA ShowTypes ==
  ASSUME TypeOK, NEW t \in Threads \cup {None}, NEW cs \in Seq(Calls(latest, lastRow)), OneSave(cs), Show(t, cs)
  PROVE  TypeOK'
<1>0. PICK v \in Seq(Nat) : /\ v = latest /\ Len(letters) = Len(v) /\ Typed(v, lastRow) /\ lastRow \in Nat
                       /\ Window /\ OneSave(calls) /\ letters \in Seq(Places) /\ latest \in Seq(Nat)
  BY Start
<1>1. open' = t /\ UNCHANGED <<drafts, slow, sends, history>>
  BY DEF Show
<1>2. CASE Open /\ Inline /\ dock # t
  <2>1. Closing(TRUE, cs) /\ (UNCHANGED box \/ NoneOpen)
        /\ Slip(When(Ending, "again") \cup When(Stripping, "strip"))
    BY <1>2 DEF Show
  <2>2. /\ lastRow' \in Nat /\ lastRow <= lastRow' /\ rows' \in Tables(v, lastRow')
        /\ calls' \in Seq(Calls(v, lastRow')) /\ OneSave(calls')
        /\ waiting' \in Seq(Waiters(v, lastRow')) /\ timer' \in BOOLEAN
    BY <1>0, <1>2, <2>1, ClosingTypes
  <2>3. Typed(v, lastRow')
    BY <1>0, <2>2, RowsGrow
  <2>4. /\ compose' \in LetterBox(v, lastRow') \cup {NoBox} /\ autoRow' \in 0 .. lastRow'
        /\ saved' \in [row : 0 .. lastRow', text : TextOf(v) \cup {NoText}]
        /\ dock' \in Places /\ collapsed' \in BOOLEAN /\ fresh' \in BOOLEAN /\ (autoRow' # 0 => Open')
    <3>1. CASE UNCHANGED box
      BY <1>0, <2>3, <3>1 DEF box, Typed, Window, Open
    <3>2. CASE NoneOpen
      BY <2>2, <3>2, NoneOpenTypes
    <3> QED
      BY <2>1, <3>1, <3>2
  <2>5. slips' \subseteq AllSlips
    BY <1>0, <2>1, SlipTypes DEF Window
  <2>6. Typed(v, lastRow)'
    BY <1>1, <2>2, <2>3, <2>4 DEF Typed, history
  <2>7. Window'
    BY <1>0, <1>1, <2>2, <2>4, <2>5 DEF Window, history
  <2> QED
    BY <1>0, <1>1, <2>2, <2>6, <2>7, Finish DEF history
<1>3. CASE ~(Open /\ Inline /\ dock # t)
  <2>1. calls' = cs /\ UNCHANGED <<box, timer, table, waiting, slips>>
    BY <1>3 DEF Show
  <2>2. cs \in Seq(Calls(v, lastRow))
    BY <1>0
  <2>3. Typed(v, lastRow)'
    BY <1>0, <1>1, <2>1, <2>2 DEF Typed, box, table, history
  <2>4. Window'
    BY <1>0, <1>1, <2>1 DEF Window, Open, box, history
  <2> QED
    BY <1>0, <1>1, <2>1, <2>3, <2>4, Finish DEF history, table
<1> QED
  BY <1>2, <1>3

(* So do a closed thread and one that lands. *)
LEMMA PaneTypes == TypeOK /\ (CloseThread \/ ThreadLands) => TypeOK'
<1> SUFFICES ASSUME TypeOK, CloseThread \/ ThreadLands PROVE TypeOK'
  OBVIOUS
<1>0. PICK v \in Seq(Nat) : /\ v = latest /\ Len(letters) = Len(v) /\ Typed(v, lastRow) /\ lastRow \in Nat
                       /\ Window /\ OneSave(calls) /\ letters \in Seq(Places) /\ latest \in Seq(Nat)
  BY Start
<1>1. calls \in Seq(Calls(v, lastRow))
  BY <1>0 DEF Typed
<1>2. CASE CloseThread
  <2>1. DropGet(calls) \in Seq(Calls(v, lastRow)) /\ OneSave(DropGet(calls))
    BY <1>0, <1>1, DropGetKeeps
  <2> QED
    BY <1>0, <1>2, <2>1, ShowTypes DEF CloseThread
<1>3. CASE ThreadLands
  <2>1. calls # <<>> /\ Head(calls).kind = "get" /\ Show(Head(calls).list, Tail(calls))
    BY <1>3 DEF ThreadLands
  <2>2. Tail(calls) \in Seq(Calls(v, lastRow)) /\ OneSave(Tail(calls)) /\ Head(calls) \in Calls(v, lastRow)
    BY <1>0, <1>1, <2>1, TailRange, OneLess
  <2>3. Head(calls).list \in Threads
    BY <2>1, <2>2 DEF Calls
  <2> QED
    BY <1>0, <2>1, <2>2, <2>3, ShowTypes
<1> QED
  BY <1>2, <1>3

(* A new version of a letter. *)
LEMMA VersionTypes ==
  ASSUME latest \in Seq(Nat), NEW l \in DOMAIN latest, NewVersion(l)
  PROVE  latest' \in Seq(Nat) /\ Len(latest') = Len(latest) /\ latest'[l] = latest[l] + 1
         /\ Grows(latest, latest') /\ l \in DOMAIN latest'
         /\ latest[l] \in Nat
         /\ \A k \in DOMAIN latest : k # l => latest'[k] = latest[k]
BY DEF NewVersion, Grows

(* A text that takes the place of others in what is owed. *)
LEMMA InsteadTypes ==
  ASSUME NEW v, owed \subseteq TextOf(v), NEW t \in TextOf(v)
  PROVE  Instead(t) \subseteq TextOf(v)
BY DEF Instead

(* Typing keeps the types. *)
LEMMA TypeTypes == TypeOK /\ Type => TypeOK'
<1> SUFFICES ASSUME TypeOK, Type PROVE TypeOK'
  OBVIOUS
<1>0. PICK v \in Seq(Nat) : /\ v = latest /\ Len(letters) = Len(v) /\ Typed(v, lastRow) /\ lastRow \in Nat
                            /\ Window /\ OneSave(calls) /\ letters \in Seq(Places) /\ latest \in Seq(Nat)
  BY Start
<1>1. /\ NewVersion(compose.letter) /\ compose' = [compose EXCEPT !.version = latest'[compose.letter]]
      /\ owed' = Instead(Text(compose')) /\ timer' = TRUE /\ Open
      /\ UNCHANGED <<dock, collapsed, autoRow, saved, fresh, open, drafts, lines, table, sends, letters, news, told>>
  BY DEF Type
<1>2. compose \in LetterBox(v, lastRow) /\ compose.letter \in DOMAIN v
  BY <1>0, <1>1, BoxIs, TextIs
<1>3. latest' \in Seq(Nat) /\ Len(latest') = Len(v) /\ Grows(v, latest') /\ latest'[compose.letter] \in Nat \ {0}
      /\ compose.letter \in DOMAIN latest'
  BY <1>0, <1>1, <1>2, VersionTypes
<1>k. PICK k \in Seq(Nat) : k = latest'
  BY <1>3
<1>4. compose' \in LetterBox(k, lastRow) /\ Open' /\ Written(compose')
  BY <1>k, <1>1, <1>2, <1>3 DEF LetterBox, Open, Written
<1>5. Typed(k, lastRow)
  <2>1. Grows(v, k) /\ lastRow <= lastRow
    BY <1>k, <1>0, <1>3
  <2> QED
    BY <1>0, <2>1, TypedGrows
<1>6. owed' \subseteq TextOf(k)
  <2>1. Text(compose)' \in TextOf(k)
    BY <1>0, <1>4, TextIs DEF Text
  <2> QED
    BY <1>1, <1>5, <2>1, InsteadTypes DEF Typed, Text
<1>7. slips' \subseteq AllSlips
  BY <1>0, SlipTypes DEF Type, Window
<1>8. Typed(k, lastRow)'
  BY <1>0, <1>1, <1>4, <1>5, <1>6 DEF Typed, lines, table
<1>9. Window'
  BY <1>0, <1>1, <1>4, <1>7 DEF Window
<1> QED
  BY <1>k, <1>0, <1>1, <1>3, <1>8, <1>9, Finish DEF lines, table

(* The autosave, when it saves. *)
LEMMA AutosaveTypes ==
  ASSUME NEW v \in Seq(Nat), lastRow \in Nat, Typed(v, lastRow), OneSave(calls), ~Saving, Autosave
  PROVE  /\ lastRow' \in Nat /\ lastRow <= lastRow' /\ rows' \in Tables(v, lastRow')
         /\ calls' \in Seq(Calls(v, lastRow')) /\ OneSave(calls') /\ fresh' \in {fresh, TRUE}
<1>1. CASE Open /\ ~collapsed /\ Written(compose) /\ ~Unchanged
  <2> DEFINE r == RowOf(compose)
  <2>1. r \in 0 .. lastRow /\ Text(compose) \in TextOf(v) /\ rows \in Tables(v, lastRow)
    BY <1>1, BoxIs, TextIs DEF Typed
  <2>2. SaveDraft(r, Text(compose)) /\ calls' = Append(calls, Call("autosave", Text(compose), SavedRow(r))) /\ fresh' = TRUE
    BY <1>1 DEF Autosave
  <2> HIDE DEF r
  <2>3. /\ lastRow' \in Nat /\ lastRow <= lastRow' /\ rows' \in Tables(v, lastRow') /\ SavedRow(r) \in 1 .. lastRow'
    BY <2>1, <2>2, SaveTypes
  <2>4. calls \in Seq(Calls(v, lastRow')) /\ Call("autosave", Text(compose), SavedRow(r)) \in Calls(v, lastRow')
    BY <2>1, <2>3, Same, SetsGrow, Wider, CallTypes DEF Typed
  <2>5. \A i \in DOMAIN calls : calls[i].kind # "autosave"
    BY DEF Saving
  <2> QED
    BY <2>2, <2>3, <2>4, <2>5, OneMore
<1>2. CASE ~(Open /\ ~collapsed /\ Written(compose) /\ ~Unchanged)
  <2>1. UNCHANGED <<table, calls, fresh>>
    BY <1>2 DEF Autosave
  <2> QED
    BY <2>1 DEF Typed, table
<1> QED
  BY <1>1, <1>2

(* So does the autosave. *)
LEMMA AutosaveFiresTypes == TypeOK /\ AutosaveFires => TypeOK'
<1> SUFFICES ASSUME TypeOK, AutosaveFires PROVE TypeOK'
  OBVIOUS
<1>0. PICK v \in Seq(Nat) : /\ v = latest /\ Len(letters) = Len(v) /\ Typed(v, lastRow) /\ lastRow \in Nat
                       /\ Window /\ OneSave(calls) /\ letters \in Seq(Places) /\ latest \in Seq(Nat)
  BY Start
<1>1. timer' = FALSE /\ UNCHANGED <<compose, dock, collapsed, autoRow, saved, open, drafts, slow, sends, history, slips>>
  BY DEF AutosaveFires
<1>2. /\ lastRow' \in Nat /\ lastRow <= lastRow' /\ rows' \in Tables(v, lastRow')
      /\ calls' \in Seq(Calls(v, lastRow')) /\ OneSave(calls') /\ fresh' \in {fresh, TRUE}
      /\ waiting' \in Seq(Waiters(v, lastRow'))
  <2>1. CASE Saving
    <3>1. waiting' = Append(waiting, Waiter("autosave", TRUE)) /\ lastRow' = lastRow /\ rows' = rows
          /\ calls' = calls /\ fresh' = fresh
      BY <2>1 DEF AutosaveFires, table
    <3>2. waiting' \in Seq(Waiters(v, lastRow))
      BY <1>0, <3>1, WaitTypes
    <3>3. rows \in Tables(v, lastRow) /\ calls \in Seq(Calls(v, lastRow)) /\ lastRow <= lastRow
      BY <1>0 DEF Typed
    <3>4. waiting' \in Seq(Waiters(v, lastRow')) /\ rows' \in Tables(v, lastRow') /\ calls' \in Seq(Calls(v, lastRow'))
      BY <3>1, <3>2, <3>3
    <3> QED
      BY <1>0, <3>1, <3>3, <3>4
  <2>2. CASE ~Saving
    <3>1. Autosave /\ waiting' = waiting
      BY <2>2 DEF AutosaveFires
    <3>2. /\ lastRow' \in Nat /\ lastRow <= lastRow' /\ rows' \in Tables(v, lastRow')
          /\ calls' \in Seq(Calls(v, lastRow')) /\ OneSave(calls') /\ fresh' \in {fresh, TRUE}
      BY <1>0, <2>2, <3>1, AutosaveTypes
    <3>3. Typed(v, lastRow')
      BY <1>0, <3>2, RowsGrow
    <3>4. waiting' \in Seq(Waiters(v, lastRow'))
      BY <3>1, <3>3 DEF Typed
    <3> QED
      BY <3>2, <3>4
  <2> QED
    BY <2>1, <2>2
<1>3. Typed(v, lastRow')
  BY <1>0, <1>2, RowsGrow
<1>4. Typed(v, lastRow)'
  BY <1>1, <1>2, <1>3 DEF Typed, history
<1>5. Window'
  BY <1>0, <1>1, <1>2 DEF Window, Open, history
<1> QED
  BY <1>0, <1>1, <1>2, <1>4, <1>5, Finish DEF history

(* A letter leaves. *)
LEMMA PostTypes ==
  ASSUME NEW v \in Seq(Nat), lastRow \in Nat, Typed(v, lastRow), NEW d \in LetterBox(v, lastRow), Written(d), Post(d)
  PROVE  lastRow' = lastRow /\ rows' \in Tables(v, lastRow) /\ slow' \subseteq Errands(v, lastRow)
<1>1. RowOf(d) \in 0 .. lastRow /\ Text(d) \in TextOf(v) /\ rows \in Tables(v, lastRow) /\ slow \subseteq Errands(v, lastRow)
  BY BoxIs, TextIs DEF Typed
<1>2. [kind |-> "send", text |-> Text(d), row |-> RowOf(d)] \in Errands(v, lastRow)
  BY <1>1 DEF Errands
<1> QED
  BY <1>1, <1>2, DeleteTypes DEF Post, Detach

(* So does a send. *)
LEMMA SendTypes == TypeOK /\ Send => TypeOK'
<1> SUFFICES ASSUME TypeOK, Send PROVE TypeOK'
  OBVIOUS
<1>0. PICK v \in Seq(Nat) : /\ v = latest /\ Len(letters) = Len(v) /\ Typed(v, lastRow) /\ lastRow \in Nat
                       /\ Window /\ OneSave(calls) /\ letters \in Seq(Places) /\ latest \in Seq(Nat)
  BY Start
<1>1. timer' = FALSE /\ Open /\ Written(compose) /\ UNCHANGED <<box, open, drafts, calls, sends, history>>
  BY DEF Send
<1>2. lastRow' = lastRow /\ rows' \in Tables(v, lastRow) /\ slow' \subseteq Errands(v, lastRow)
      /\ waiting' \in Seq(Waiters(v, lastRow))
  <2>1. CASE BehindSave
    <3>1. waiting' = Append(waiting, Waiter("send", TRUE)) /\ rows' = rows /\ lastRow' = lastRow /\ slow' = slow
      BY <2>1 DEF Send, table
    <3>2. waiting' \in Seq(Waiters(v, lastRow))
      BY <1>0, <1>1, <3>1, WaitTypes
    <3> QED
      BY <1>0, <3>1, <3>2 DEF Typed
  <2>2. CASE ~BehindSave
    <3>1. Post(compose) /\ waiting' = waiting
      BY <2>2 DEF Send
    <3>2. compose \in LetterBox(v, lastRow)
      BY <1>0, <1>1, BoxIs
    <3>3. lastRow' = lastRow /\ rows' \in Tables(v, lastRow) /\ slow' \subseteq Errands(v, lastRow)
      BY <1>0, <1>1, <3>1, <3>2, PostTypes
    <3>4. waiting' \in Seq(Waiters(v, lastRow))
      BY <1>0, <3>1 DEF Typed
    <3> QED
      BY <3>3, <3>4
  <2> QED
    BY <2>1, <2>2
<1>3. slips' \subseteq AllSlips
  BY <1>0, SlipTypes DEF Send, Window
<1>4. Typed(v, lastRow)'
  BY <1>0, <1>1, <1>2 DEF Typed, box, history
<1>5. Window'
  BY <1>0, <1>1, <1>3 DEF Window, Open, box, history
<1> QED
  BY <1>0, <1>1, <1>2, <1>4, <1>5, Finish DEF history

(* An answer of compose:send or of send:undo. *)
LEMMA SentTypes == TypeOK /\ (\E c \in slow : Sent(c)) => TypeOK'
<1> SUFFICES ASSUME TypeOK, NEW c \in slow, Sent(c) PROVE TypeOK'
  OBVIOUS
<1>0. PICK v \in Seq(Nat) : /\ v = latest /\ Len(letters) = Len(v) /\ Typed(v, lastRow) /\ lastRow \in Nat
                       /\ Window /\ OneSave(calls) /\ letters \in Seq(Places) /\ latest \in Seq(Nat)
  BY Start
<1>1. /\ slow' = slow \ {c} /\ sends' = Append(sends, [text |-> c.text, undone |-> FALSE])
      /\ NoneOpen /\ calls' = Append(calls, List(rows))
      /\ UNCHANGED <<timer, open, drafts, waiting, table, history, slips>>
  BY DEF Sent, AfterSend
<1>2. calls' \in Seq(Calls(v, lastRow)) /\ OneSave(calls')
  <2>1. List(rows) \in Calls(v, lastRow) /\ List(rows).kind # "autosave"
    BY <1>0, ListTypes DEF Typed
  <2> QED
    BY <1>0, <1>1, <2>1, CallAdded DEF Typed
<1>3. sends' \in Seq(Messages(v))
  <2>1. c.text \in TextOf(v)
    BY <1>0 DEF Typed, Errands
  <2>2. [text |-> c.text, undone |-> FALSE] \in Messages(v)
    BY <2>1 DEF Messages
  <2>3. sends \in Seq(Messages(v))
    BY <1>0 DEF Typed
  <2> QED
    BY <1>1, <2>2, <2>3
<1>4. /\ compose' \in LetterBox(v, lastRow) \cup {NoBox} /\ autoRow' \in 0 .. lastRow
      /\ saved' \in [row : 0 .. lastRow, text : TextOf(v) \cup {NoText}]
      /\ dock' \in Places /\ collapsed' \in BOOLEAN /\ fresh' \in BOOLEAN /\ (autoRow' # 0 => Open')
  BY <1>0, <1>1, NoneOpenTypes
<1>5. Typed(v, lastRow)'
  BY <1>0, <1>1, <1>2, <1>3, <1>4 DEF Typed, table, history
<1>6. Window'
  BY <1>0, <1>1, <1>4 DEF Window, history
<1> QED
  BY <1>0, <1>1, <1>2, <1>5, <1>6, Finish DEF history, table

(* So does a send that is refused. *)
LEMMA RefusedTypes == TypeOK /\ (\E c \in slow : Refused(c)) => TypeOK'
<1> SUFFICES ASSUME TypeOK, NEW c \in slow, Refused(c) PROVE TypeOK'
  OBVIOUS
<1>0. PICK v \in Seq(Nat) : /\ v = latest /\ Len(letters) = Len(v) /\ Typed(v, lastRow) /\ lastRow \in Nat
                       /\ Window /\ OneSave(calls) /\ letters \in Seq(Places) /\ latest \in Seq(Nat)
  BY Start
<1>1. /\ slow' = slow \ {c} /\ UNCHANGED <<box, timer, open, drafts, waiting, calls, table, sends, history>>
  BY DEF Refused
<1>2. slips' \subseteq AllSlips
  BY <1>0, SlipTypes DEF Refused, Window
<1>3. Typed(v, lastRow)'
  BY <1>0, <1>1 DEF Typed, box, table, history
<1>4. Window'
  BY <1>0, <1>1, <1>2 DEF Window, Open, box, history
<1> QED
  BY <1>0, <1>1, <1>3, <1>4, Finish DEF history, table

(* So does the draft an undo brings back. *)
LEMMA UndoneTypes == TypeOK /\ (\E c \in slow : Undone(c)) => TypeOK'
<1> SUFFICES ASSUME TypeOK, NEW c \in slow, Undone(c) PROVE TypeOK'
  OBVIOUS
<1>0. PICK v \in Seq(Nat) : /\ v = latest /\ Len(letters) = Len(v) /\ Typed(v, lastRow) /\ lastRow \in Nat
                       /\ Window /\ OneSave(calls) /\ letters \in Seq(Places) /\ latest \in Seq(Nat)
  BY Start
<1>1. /\ slow' = slow \ {c} /\ OpenDraft(c.text, c.row) /\ UNCHANGED <<open, drafts, sends, history>>
  BY DEF Undone
<1>2. c.text \in TextOf(latest) /\ c.row \in 0 .. lastRow
  BY <1>0 DEF Typed, Errands
<1>3. slips' \subseteq AllSlips
  BY <1>0, SlipTypes DEF Undone, Window
<1>4. slow' \subseteq slow
  BY <1>1
<1> QED
  BY <1>1, <1>2, <1>3, <1>4, OpenDraftTypes DEF history

(* So does an undo. *)
LEMMA UndoTypes == TypeOK /\ (\E i \in DOMAIN sends : Undo(i)) => TypeOK'
<1> SUFFICES ASSUME TypeOK, NEW i \in DOMAIN sends, Undo(i) PROVE TypeOK'
  OBVIOUS
<1>0. PICK v \in Seq(Nat) : /\ v = latest /\ Len(letters) = Len(v) /\ Typed(v, lastRow) /\ lastRow \in Nat
                       /\ Window /\ OneSave(calls) /\ letters \in Seq(Places) /\ latest \in Seq(Nat)
  BY Start
<1> DEFINE t == sends[i].text
<1>1. /\ sends' = [sends EXCEPT ![i].undone = TRUE]
      /\ SaveDraft(0, t)
      /\ calls' = Append(calls, List(rows'))
      /\ slow' = slow \cup {[kind |-> "undo", text |-> t, row |-> lastRow']}
      /\ UNCHANGED <<box, timer, open, drafts, waiting, history, slips>>
  BY DEF Undo
<1>2. t \in TextOf(v) /\ sends \in Seq(Messages(v))
  <2>1. sends \in Seq(Messages(v))
    BY <1>0 DEF Typed
  <2>2. sends[i] \in Messages(v)
    BY <2>1
  <2> QED
    BY <2>1, <2>2 DEF Messages
<1>3. sends' \in Seq(Messages(v))
  <2> DEFINE e == [sends[i] EXCEPT !.undone = TRUE]
  <2>1. sends' = [sends EXCEPT ![i] = e]
    BY <1>1
  <2>2. e \in Messages(v)
    <3>1. sends[i] \in Messages(v)
      BY <1>2
    <3> QED
      BY <3>1 DEF Messages
  <2> HIDE DEF e
  <2> QED
    BY <1>2, <2>1, <2>2
<1> HIDE DEF t
<1>4. /\ lastRow' \in Nat /\ lastRow <= lastRow' /\ rows' \in Tables(v, lastRow')
  <2>1. rows \in Tables(v, lastRow) /\ 0 \in 0 .. lastRow
    BY <1>0 DEF Typed
  <2> QED
    BY <1>0, <1>1, <1>2, <2>1, SaveTypes
<1>5. Typed(v, lastRow')
  BY <1>0, <1>4, RowsGrow
<1>6. calls' \in Seq(Calls(v, lastRow')) /\ OneSave(calls')
  <2>1. List(rows') \in Calls(v, lastRow') /\ List(rows').kind # "autosave"
    BY <1>4, ListTypes
  <2>2. calls \in Seq(Calls(v, lastRow'))
    BY <1>5 DEF Typed
  <2> QED
    BY <1>0, <1>1, <1>4, <2>1, <2>2, CallAdded
<1>7. slow' \subseteq Errands(v, lastRow')
  <2>1. [kind |-> "undo", text |-> t, row |-> lastRow'] \in Errands(v, lastRow')
    BY <1>2, <1>4 DEF Errands
  <2> QED
    BY <1>1, <1>5, <2>1 DEF Typed
<1>8. Typed(v, lastRow)'
  BY <1>1, <1>3, <1>4, <1>5, <1>6, <1>7 DEF Typed, box, history
<1>9. Window'
  BY <1>0, <1>1 DEF Window, Open, box, history
<1> QED
  BY <1>0, <1>1, <1>4, <1>6, <1>8, <1>9, Finish DEF history

(* So does what waited when it goes on. *)
LEMMA ResumeTypes == TypeOK /\ Resume => TypeOK'
<1> SUFFICES ASSUME TypeOK, Resume PROVE TypeOK'
  OBVIOUS
<1>0. PICK v \in Seq(Nat) : /\ v = latest /\ Len(letters) = Len(v) /\ Typed(v, lastRow) /\ lastRow \in Nat
                       /\ Window /\ OneSave(calls) /\ letters \in Seq(Places) /\ latest \in Seq(Nat)
  BY Start
<1> DEFINE w == Head(waiting)
<1>1. /\ ~Saving /\ waiting # <<>> /\ waiting' = Tail(waiting) /\ GoesOn(w)
      /\ UNCHANGED <<timer, open, drafts, sends, history, slips>>
  BY DEF Resume, Quiet
<1>2. Tail(waiting) \in Seq(Waiters(v, lastRow)) /\ w \in Waiters(v, lastRow)
  BY <1>0, <1>1, TailRange DEF Typed
<1>3. /\ w.kind # "autosave" => w.d \in LetterBox(v, lastRow) /\ w.keep \in BOOLEAN
      /\ w.kind \in {"strip", "send"} => Written(w.d)
  BY <1>2 DEF Waiters
<1> HIDE DEF w
<1> DEFINE Good ==
      /\ lastRow' \in Nat /\ lastRow <= lastRow' /\ rows' \in Tables(v, lastRow')
      /\ calls' \in Seq(Calls(v, lastRow')) /\ OneSave(calls')
      /\ compose' \in LetterBox(v, lastRow') \cup {NoBox} /\ autoRow' \in 0 .. lastRow'
      /\ saved' \in [row : 0 .. lastRow', text : TextOf(v) \cup {NoText}]
      /\ dock' \in Places /\ collapsed' \in BOOLEAN /\ fresh' \in BOOLEAN /\ (autoRow' # 0 => Open')
      /\ slow' \subseteq Errands(v, lastRow')
<1>4. ASSUME w.kind = "autosave" /\ Autosave /\ UNCHANGED <<compose, dock, collapsed, autoRow, saved, slow>>
      PROVE  Good
  <2>1. /\ lastRow' \in Nat /\ lastRow <= lastRow' /\ rows' \in Tables(v, lastRow')
        /\ calls' \in Seq(Calls(v, lastRow')) /\ OneSave(calls') /\ fresh' \in {fresh, TRUE}
    BY <1>0, <1>1, <1>4, AutosaveTypes
  <2>2. Typed(v, lastRow')
    BY <1>0, <2>1, RowsGrow
  <2>3. Good
    BY <1>0, <1>4, <2>1, <2>2 DEF Typed, Window, Open
  <2> QED
    BY <2>3
<1>5. ASSUME w.kind = "close" /\ Keep(w.d, w.keep, calls) /\ NoneOpen /\ UNCHANGED slow
      PROVE  Good
  <2>0. w.d \in LetterBox(v, lastRow) /\ w.keep \in BOOLEAN /\ calls \in Seq(Calls(v, lastRow))
    BY <1>0, <1>3, <1>5 DEF Typed
  <2>1. /\ lastRow' \in Nat /\ lastRow <= lastRow' /\ rows' \in Tables(v, lastRow')
        /\ calls' \in Seq(Calls(v, lastRow')) /\ OneSave(calls')
    BY <1>0, <1>5, <2>0, KeepTypes
  <2>2. Typed(v, lastRow')
    BY <1>0, <2>1, RowsGrow
  <2>3. /\ compose' \in LetterBox(v, lastRow') \cup {NoBox} /\ autoRow' \in 0 .. lastRow'
        /\ saved' \in [row : 0 .. lastRow', text : TextOf(v) \cup {NoText}]
        /\ dock' \in Places /\ collapsed' \in BOOLEAN /\ fresh' \in BOOLEAN /\ (autoRow' # 0 => Open')
    BY <1>5, <2>1, NoneOpenTypes
  <2>4. slow' \subseteq Errands(v, lastRow')
    BY <1>5, <2>2 DEF Typed
  <2> QED
    BY <2>1, <2>3, <2>4
<1>6. ASSUME w.kind = "strip" /\ Strip(w.d) /\ UNCHANGED slow
      PROVE  Good
  <2>0. w.d \in LetterBox(v, lastRow) /\ Written(w.d)
    BY <1>3, <1>6
  <2>1. /\ lastRow' \in Nat /\ lastRow <= lastRow' /\ rows' \in Tables(v, lastRow')
        /\ calls' \in Seq(Calls(v, lastRow')) /\ OneSave(calls')
        /\ collapsed' = TRUE /\ UNCHANGED <<compose, dock, autoRow, saved, fresh>>
    BY <1>0, <1>6, <2>0, StripTypes
  <2>2. Typed(v, lastRow')
    BY <1>0, <2>1, RowsGrow
  <2>3. Good
    BY <1>0, <1>6, <2>1, <2>2 DEF Typed, Window, Open
  <2> QED
    BY <2>3
<1>7. ASSUME w.kind = "send" /\ Post(w.d) /\ UNCHANGED <<box, calls>>
      PROVE  Good
  <2>0. w.d \in LetterBox(v, lastRow) /\ Written(w.d)
    BY <1>3, <1>7
  <2>1. lastRow' = lastRow /\ rows' \in Tables(v, lastRow) /\ slow' \subseteq Errands(v, lastRow)
    BY <1>0, <1>7, <2>0, PostTypes
  <2>2. Good
    BY <1>0, <1>7, <2>1 DEF Typed, Window, Open, box
  <2> QED
    BY <2>2
<1>8. Good
  BY <1>1, <1>4, <1>5, <1>6, <1>7, Zenon DEF GoesOn
<1>9. Typed(v, lastRow')
  BY <1>0, <1>8, RowsGrow
<1>10. waiting' \in Seq(Waiters(v, lastRow'))
  <2>1. Grows(v, v)
    BY Same
  <2> QED
    BY <1>0, <1>1, <1>2, <1>8, <2>1, Same, SetsGrow, Wider
<1>11. Typed(v, lastRow)'
  BY <1>1, <1>8, <1>9, <1>10 DEF Typed, history
<1>12. Window'
  BY <1>0, <1>1, <1>8 DEF Window, history
<1> QED
  BY <1>0, <1>1, <1>8, <1>11, <1>12, Finish DEF history

(* An answer comes from the main process. *)
LEMMA LandsTypes == TypeOK /\ Lands => TypeOK'
<1> SUFFICES ASSUME TypeOK, Lands PROVE TypeOK'
  OBVIOUS
<1>0. PICK v \in Seq(Nat) : /\ v = latest /\ Len(letters) = Len(v) /\ Typed(v, lastRow) /\ lastRow \in Nat
                       /\ Window /\ OneSave(calls) /\ letters \in Seq(Places) /\ latest \in Seq(Nat)
  BY Start
<1> DEFINE c == Head(calls)
           cs == Tail(calls)
<1>1. /\ calls # <<>>
      /\ \/ c.kind = "autosave" /\ AutosaveLands(c, cs)
         \/ c.kind = "keep" /\ KeepLands(c, cs)
         \/ c.kind = "strip" /\ StripLands(c, cs)
         \/ c.kind = "delete" /\ DeleteLands(cs)
         \/ c.kind = "list" /\ ListLands(c, cs)
      /\ UNCHANGED <<waiting, slow, table, sends, letters, news, latest>>
  BY DEF Lands
<1>2. cs \in Seq(Calls(v, lastRow)) /\ OneSave(cs) /\ c \in Calls(v, lastRow)
  BY <1>0, <1>1, TailRange, OneLess DEF Typed
<1>3. /\ c.kind \in {"autosave", "keep", "strip"} => c.text \in TextOf(v) /\ c.row \in 1 .. lastRow
      /\ c.kind = "list" => c.list \in Tables(v, lastRow)
  BY <1>2 DEF Calls
<1> HIDE DEF c, cs
<1>4. lastRow' = lastRow /\ rows' = rows /\ UNCHANGED <<waiting, slow, sends, letters, news, latest>>
  BY <1>1 DEF table
<1>5. rows \in Tables(v, lastRow)
  BY <1>0 DEF Typed
<1>6. calls' = Append(cs, List(rows)) => calls' \in Seq(Calls(v, lastRow)) /\ OneSave(calls')
  BY <1>0, <1>2, <1>5, ListTypes, CallAdded
<1> DEFINE Good ==
      /\ calls' \in Seq(Calls(v, lastRow)) /\ OneSave(calls')
      /\ compose' \in LetterBox(v, lastRow) \cup {NoBox} /\ autoRow' \in 0 .. lastRow /\ (autoRow' # 0 => Open')
      /\ saved' \in [row : 0 .. lastRow, text : TextOf(v) \cup {NoText}]
      /\ dock' \in Places /\ collapsed' \in BOOLEAN /\ fresh' \in BOOLEAN /\ timer' \in BOOLEAN
      /\ open' = open /\ slips' \subseteq AllSlips
      /\ drafts' \in Tables(v, lastRow) /\ owed' \subseteq TextOf(v) /\ told' \in TextOf(v) \cup {NoText}
<1>7. ASSUME c.kind = "autosave", AutosaveLands(c, cs) PROVE Good
  <2>1. /\ saved' = [row |-> c.row, text |-> c.text] /\ autoRow' = (IF Mine THEN c.row ELSE autoRow)
        /\ fresh' = FALSE /\ calls' = Append(cs, List(rows))
        /\ UNCHANGED <<compose, dock, collapsed, timer, open, drafts, owed, told, slips>>
    BY <1>7 DEF AutosaveLands
  <2>2. c.text \in TextOf(v) /\ c.row \in 0 .. lastRow
    BY <1>0, <1>3, <1>7
  <2>3. saved' \in [row : 0 .. lastRow, text : TextOf(v) \cup {NoText}]
    BY <2>1, <2>2
  <2>4. autoRow' \in 0 .. lastRow /\ (autoRow' # 0 => Open')
    BY <1>0, <2>1, <2>2 DEF Mine, Open, Typed, Window
  <2> QED
    BY <1>0, <1>6, <2>1, <2>3, <2>4 DEF Typed, Window
<1>8. ASSUME c.kind = "keep", KeepLands(c, cs) PROVE Good
  <2>1. /\ told' = c.text /\ calls' = Append(cs, List(rows)) /\ UNCHANGED <<box, timer, open, drafts, owed, slips>>
    BY <1>8 DEF KeepLands
  <2> QED
    BY <1>0, <1>3, <1>6, <1>8, <2>1 DEF Typed, Window, Open, box
<1>9. ASSUME c.kind = "strip", StripLands(c, cs) PROVE Good
  <2>1. /\ saved' = [row |-> c.row, text |-> c.text] /\ calls' = Append(cs, List(rows))
        /\ \/ Open /\ compose' = [compose EXCEPT !.row = c.row] /\ autoRow' = 0
           \/ UNCHANGED <<compose, autoRow>>
        /\ UNCHANGED <<dock, collapsed, fresh, timer, open, drafts, owed, told, slips>>
    BY <1>9 DEF StripLands
  <2>2. c.text \in TextOf(v) /\ c.row \in 0 .. lastRow
    BY <1>0, <1>3, <1>9
  <2>3. saved' \in [row : 0 .. lastRow, text : TextOf(v) \cup {NoText}]
    BY <2>1, <2>2
  <2>4. compose' \in LetterBox(v, lastRow) \cup {NoBox} /\ autoRow' \in 0 .. lastRow /\ (autoRow' # 0 => Open')
    <3>1. CASE Open /\ compose' = [compose EXCEPT !.row = c.row] /\ autoRow' = 0
      <4>1. compose \in LetterBox(v, lastRow)
        BY <1>0, <3>1, BoxIs
      <4> QED
        BY <1>0, <2>2, <3>1, <4>1 DEF LetterBox
    <3>2. CASE UNCHANGED <<compose, autoRow>>
      BY <1>0, <3>2 DEF Typed, Window, Open
    <3> QED
      BY <2>1, <3>1, <3>2
  <2> QED
    BY <1>0, <1>6, <2>1, <2>3, <2>4 DEF Typed, Window
<1>10. ASSUME c.kind = "delete", DeleteLands(cs) PROVE Good
  <2>1. calls' = Append(cs, List(rows)) /\ UNCHANGED <<box, timer, open, drafts, owed, told, slips>>
    BY <1>10 DEF DeleteLands
  <2> QED
    BY <1>0, <1>6, <2>1 DEF Typed, Window, Open, box
<1>11. ASSUME c.kind = "list", ListLands(c, cs) PROVE Good
  <2>1. /\ drafts' = c.list /\ calls' = cs
        /\ UNCHANGED <<dock, collapsed, autoRow, fresh, open, told>>
    BY <1>11 DEF ListLands
  <2>2. c.list \in Tables(v, lastRow)
    BY <1>3, <1>11
  <2>3. CASE ChangedElsewhere(c.list)
    <3> DEFINE r == RowOf(compose)
               t == c.list[r]
    <3>1. /\ Slip(When(Text(compose) # saved.text, "adopted"))
          /\ owed' \in {Instead(t), owed}
          /\ compose' = [compose EXCEPT !.letter = t.letter, !.version = t.version]
          /\ saved' = [row |-> r, text |-> t]
          /\ timer' = FALSE
      BY <1>11, <2>3, Zenon DEF ListLands
    <3>2. Open /\ r \in DOMAIN c.list
      BY <2>3 DEF ChangedElsewhere
    <3>3. compose \in LetterBox(v, lastRow)
      BY <1>0, <3>2, BoxIs
    <3>4. t \in TextOf(v) /\ r \in 0 .. lastRow
      BY <1>0, <2>2, <3>2, RowIs
    <3> HIDE DEF r, t
    <3>5. compose' \in LetterBox(v, lastRow) /\ Open'
      <4>1. t.letter \in DOMAIN v /\ t.letter # 0 /\ t.version \in Nat /\ t.version <= v[t.letter]
        BY <1>0, <3>4, TextIs
      <4>2. compose \in [letter : DOMAIN v, version : Nat, row : 0 .. lastRow]
        BY <3>3 DEF LetterBox
      <4>3. /\ compose' \in [letter : DOMAIN v, version : Nat, row : 0 .. lastRow]
            /\ compose'.letter = t.letter /\ compose'.version = t.version
        BY <3>1, <4>1, <4>2
      <4> QED
        BY <4>1, <4>3 DEF LetterBox, Open
    <3>6. saved' \in [row : 0 .. lastRow, text : TextOf(v) \cup {NoText}]
      BY <3>1, <3>4
    <3>7. owed' \subseteq TextOf(v)
      BY <1>0, <3>1, <3>4, InsteadTypes DEF Typed
    <3>8. slips' \subseteq AllSlips
      BY <1>0, <3>1, SlipTypes DEF Window
    <3> QED
      BY <1>0, <1>2, <2>1, <2>2, <3>1, <3>5, <3>6, <3>7, <3>8 DEF Typed, Window
  <2>4. CASE ~ChangedElsewhere(c.list)
    <3>1. UNCHANGED <<compose, saved, timer, slips, owed>>
      BY <1>11, <2>4 DEF ListLands
    <3> QED
      BY <1>0, <1>2, <2>1, <2>2, <3>1 DEF Typed, Window, Open
  <2> QED
    BY <2>3, <2>4
<1>12. Good
  BY <1>1, <1>7, <1>8, <1>9, <1>10, <1>11
<1>13. Typed(v, lastRow)'
  BY <1>0, <1>4, <1>12 DEF Typed
<1>14. Window'
  BY <1>0, <1>4, <1>12 DEF Window
<1> QED
  BY <1>0, <1>4, <1>12, <1>13, <1>14, Finish

(* So does an edit in Gmail. *)
LEMMA GmailTypes == TypeOK /\ (\E r \in DOMAIN rows : GmailEdits(r)) => TypeOK'
<1> SUFFICES ASSUME TypeOK, NEW r \in DOMAIN rows, GmailEdits(r) PROVE TypeOK'
  OBVIOUS
<1>0. PICK v \in Seq(Nat) : /\ v = latest /\ Len(letters) = Len(v) /\ Typed(v, lastRow) /\ lastRow \in Nat
                            /\ Window /\ OneSave(calls) /\ letters \in Seq(Places) /\ latest \in Seq(Nat)
  BY Start
<1> DEFINE l == rows[r].letter
           t == [letter |-> l, version |-> latest'[l]]
<1>1. /\ NewVersion(l)
      /\ rows' = [rows EXCEPT ![r] = t]
      /\ owed' \in {Instead(t), owed}
      /\ news' = news + 1
      /\ calls' = Append(calls, List(rows'))
      /\ UNCHANGED <<box, timer, open, drafts, waiting, slow, lastRow, sends, letters, told, slips>>
  BY Zenon DEF GmailEdits
<1>2. rows[r] \in TextOf(v) /\ l \in DOMAIN v
  BY <1>0, RowIs, TextIs DEF Typed
<1>3. latest' \in Seq(Nat) /\ Len(latest') = Len(v) /\ Grows(v, latest') /\ latest'[l] \in Nat \ {0} /\ l \in DOMAIN latest'
  BY <1>0, <1>1, <1>2, VersionTypes
<1>k. PICK k \in Seq(Nat) : k = latest'
  BY <1>3
<1>4. t \in TextOf(k)
  BY <1>k, <1>2, <1>3 DEF TextOf
<1> HIDE DEF t, l
<1>5. Typed(k, lastRow)
  <2>1. Grows(v, k) /\ lastRow <= lastRow
    BY <1>k, <1>0, <1>3
  <2> QED
    BY <1>0, <2>1, TypedGrows
<1>6. rows' \in Tables(k, lastRow)
  <2>1. rows \in [DOMAIN rows -> TextOf(k)] /\ DOMAIN rows \subseteq 1 .. lastRow
    BY <1>0, <1>5, TableIs DEF Typed
  <2>2. DOMAIN rows' = DOMAIN rows /\ rows' \in [DOMAIN rows -> TextOf(k)]
    BY <1>1, <1>4, <2>1
  <2> QED
    BY <1>0, <2>1, <2>2, TableIs
<1>7. calls' \in Seq(Calls(k, lastRow)) /\ OneSave(calls')
  <2>1. List(rows') \in Calls(k, lastRow) /\ List(rows').kind # "autosave"
    BY <1>0, <1>6, ListTypes
  <2> QED
    BY <1>0, <1>1, <1>5, <2>1, CallAdded DEF Typed
<1>8. owed' \subseteq TextOf(k)
  BY <1>1, <1>4, <1>5, InsteadTypes DEF Typed
<1>9. Typed(k, lastRow)'
  BY <1>0, <1>1, <1>5, <1>6, <1>7, <1>8 DEF Typed, box
<1>10. Window'
  BY <1>0, <1>1 DEF Window, Open, box
<1> QED
  BY <1>k, <1>0, <1>1, <1>3, <1>7, <1>9, <1>10, Finish

(* So does a row that goes. *)
LEMMA RowGoesTypes == TypeOK /\ (\E r \in DOMAIN rows : RowGoes(r)) => TypeOK'
<1> SUFFICES ASSUME TypeOK, NEW r \in DOMAIN rows, RowGoes(r) PROVE TypeOK'
  OBVIOUS
<1>0. PICK v \in Seq(Nat) : /\ v = latest /\ Len(letters) = Len(v) /\ Typed(v, lastRow) /\ lastRow \in Nat
                       /\ Window /\ OneSave(calls) /\ letters \in Seq(Places) /\ latest \in Seq(Nat)
  BY Start
<1>1. /\ owed' = owed \ {rows[r]} /\ DeleteRow(r) /\ calls' = Append(calls, Call("delete", NoText, r))
      /\ UNCHANGED <<box, timer, open, drafts, waiting, slow, sends, letters, news, latest, told>>
  BY DEF RowGoes
<1>2. rows \in Tables(v, lastRow) /\ r \in 1 .. lastRow
  BY <1>0, RowIs DEF Typed
<1>3. lastRow' = lastRow /\ rows' \in Tables(v, lastRow)
  BY <1>0, <1>1, <1>2, DeleteTypes
<1>4. calls' \in Seq(Calls(v, lastRow)) /\ OneSave(calls')
  <2>1. Call("delete", NoText, r) \in Calls(v, lastRow) /\ Call("delete", NoText, r).kind # "autosave"
    BY <1>0, <1>2, CallTypes DEF Call
  <2> QED
    BY <1>0, <1>1, <2>1, CallAdded DEF Typed
<1>5. slips' \subseteq AllSlips
  BY <1>0, SlipTypes DEF RowGoes, Window
<1>6. Typed(v, lastRow)'
  BY <1>0, <1>1, <1>3, <1>4 DEF Typed, box
<1>7. Window'
  BY <1>0, <1>1, <1>5 DEF Window, Open, box
<1> QED
  BY <1>0, <1>1, <1>3, <1>4, <1>6, <1>7, Finish

(* The initial states have the types. *)
LEMMA InitTypes == Init => TypeOK
<1> SUFFICES ASSUME Init PROVE TypeOK
  OBVIOUS
<1> USE DEF Init
<1>1. rows \in Tables(<<>>, 0) /\ drafts \in Tables(<<>>, 0)
  <2>1. <<>> \in [{} -> TextOf(<<>>)] /\ DOMAIN <<>> = {}
    OBVIOUS
  <2>2. <<>> \in Tables(<<>>, 0)
    BY <2>1 DEF Tables
  <2> QED
    BY <2>2
<1>2. Typed(<<>>, 0)
  BY <1>1 DEF Typed
<1>3. Window
  BY DEF Window, Places, AllSlips
<1>4. OneSave(calls)
  BY DEF OneSave
<1> QED
  BY <1>2, <1>3, <1>4 DEF TypeOK

(* Type correctness of the compose box. *)
THEOREM ComposerTypes == Spec => []TypeOK
<1>1. TypeOK /\ [Next]_vars => TypeOK'
  <2> SUFFICES ASSUME TypeOK, [Next]_vars PROVE TypeOK'
    OBVIOUS
  <2>1. CASE UNCHANGED vars
    BY <2>1 DEF vars, TypeOK, Window, Open, Typed, box, lines, table, history
  <2>2. CASE Next
    BY <2>2, CloseTypes, DismissTypes, ExpandTypes, OpeningTypes, AskTypes, PaneTypes, TypeTypes, AutosaveFiresTypes,
       SendTypes, SentTypes, RefusedTypes, UndoneTypes, UndoTypes, ResumeTypes, LandsTypes, GmailTypes, RowGoesTypes DEF Next
  <2> QED
    BY <2>1, <2>2
<1> QED
  BY InitTypes, <1>1, PTL DEF Spec

-----------------------------------------------------------------------------
(* The kinds of steps there are, and that every step is of one of them. *)

(* What is on its way, by kind; the answer the pane waits for is left out. *)
MailOf(cs) == {c \in Range(cs) : c.kind # "get"}
Mail == MailOf(calls)
Saves == {c \in Mail : c.kind = "autosave"}
Strips == {c \in Mail : c.kind = "strip"}
Enders == {w \in Range(waiting) : w.kind # "autosave"}
Sendings == {c \in slow : c.kind = "send"}
Calm == ~Happened({"opened", "strip"})

(* The step is taken at once, for the open box; or it is the oldest that   *)
(* waited.                                                                 *)
Now(d) ==
  /\ Open /\ d = compose /\ ~Saving /\ waiting = <<>> /\ waiting' = <<>> /\ timer' = FALSE
  /\ (Ending => "again" \in slips')
Later(w) ==
  /\ ~Saving /\ waiting # <<>> /\ w = Head(waiting) /\ waiting' = Tail(waiting)
  /\ UNCHANGED <<timer, owed>>

(* What the end of a close does to the table and to what is on its way.    *)
KeepRow(d, keep) ==
  \/ /\ keep /\ Written(d)
     /\ SaveDraft(RowOf(d), Text(d))
     /\ Mail' = Mail \cup {Call("keep", Text(d), SavedRow(RowOf(d)))}
  \/ /\ ~(keep /\ Written(d))
     /\ DeleteRow(RowOf(d))
     /\ Mail' \in {Mail, Mail \cup {Call("delete", NoText, RowOf(d))}}

(* The kinds of steps.                                                     *)
Idles ==
  /\ UNCHANGED <<compose, autoRow, saved, fresh, drafts, slow, table, sends, letters, latest, owed>>
  /\ Mail' = Mail /\ Enders' = Enders /\ timer' \in {timer, FALSE}
  /\ collapsed' = collapsed \/ (~collapsed' /\ Strips = {})
  /\ \/ waiting' = waiting
     \/ timer /\ \E w \in Waiters(latest, lastRow) : w.kind = "autosave" /\ waiting' = Append(waiting, w)
     \/ ~Saving /\ waiting # <<>> /\ Head(waiting).kind = "autosave" /\ waiting' = Tail(waiting)

Waits(w) ==
  /\ Open /\ Saving /\ w.d = compose /\ w \in Waiters(latest, lastRow) /\ w.kind # "autosave"
  /\ waiting' = Append(waiting, w) /\ Enders' = Enders \cup {w} /\ timer' = FALSE /\ Mail' = Mail
  /\ (Ending => "again" \in slips')
  /\ owed' = IF w.keep THEN owed ELSE {t \in owed : t.letter # compose.letter}
  /\ UNCHANGED <<box, drafts, slow, table, sends, letters, latest>>

Closes(d, keep) ==
  /\ d \in LetterBox(latest, lastRow) /\ keep \in BOOLEAN
  /\ KeepRow(d, keep) /\ NoneOpen
  /\ UNCHANGED <<drafts, slow, sends, letters, latest>>
  /\ \/ /\ Now(d) /\ Strips = {}
        /\ owed' = IF keep THEN owed ELSE {t \in owed : t.letter # compose.letter}
     \/ \E w \in Waiters(latest, lastRow) : Later(w) /\ w.kind = "close" /\ w.d = d /\ w.keep = keep

Collapses(d) ==
  /\ d \in LetterBox(latest, lastRow) /\ Written(d) /\ collapsed' = TRUE
  /\ SaveDraft(RowOf(d), Text(d))
  /\ Mail' = Mail \cup {Call("strip", Text(d), SavedRow(RowOf(d)))}
  /\ UNCHANGED <<compose, dock, autoRow, saved, fresh, drafts, slow, sends, letters, latest, owed>>
  /\ \/ Now(d) /\ ~collapsed
     \/ \E w \in Waiters(latest, lastRow) : Later(w) /\ w.kind = "strip" /\ w.d = d

Writes ==
  /\ Open /\ ~collapsed /\ Written(compose) /\ ~Unchanged /\ ~Saving /\ compose \in LetterBox(latest, lastRow)
  /\ SaveDraft(RowOf(compose), Text(compose))
  /\ Mail' = Mail \cup {Call("autosave", Text(compose), SavedRow(RowOf(compose)))}
  /\ fresh' = TRUE /\ Enders' = Enders
  /\ UNCHANGED <<compose, dock, collapsed, autoRow, saved, drafts, slow, sends, letters, latest, owed>>
  /\ \/ timer /\ ~timer' /\ waiting = <<>> /\ waiting' = <<>>
     \/ \E w \in Waiters(latest, lastRow) : Later(w) /\ w.kind = "autosave"

Posts(d) ==
  /\ d \in LetterBox(latest, lastRow) /\ Written(d)
  /\ Post(d) /\ Mail' = Mail
  /\ UNCHANGED <<box, drafts, sends, letters, latest, owed>>
  /\ \/ Now(d) /\ Strips = {}
     \/ \E w \in Waiters(latest, lastRow) : Later(w) /\ w.kind = "send" /\ w.d = d

(* The box is replaced: what was open is parked or was docked.             *)
Parks ==
  \/ /\ UNCHANGED <<timer, table, waiting>> /\ Mail' = Mail
     /\ (Open => Docked /\ (Written(compose) => "over" \in slips'))
  \/ /\ Open /\ compose \in LetterBox(latest, lastRow) /\ KeepRow(compose, TRUE)
     /\ timer' = FALSE /\ UNCHANGED waiting

Starts(place) ==
  /\ ~Ending /\ ~Saving /\ Strips = {} /\ waiting = <<>>
  /\ Parks
  /\ letters' = Append(letters, place) /\ latest' = Append(latest, 0)
  /\ SetBox([NoBox EXCEPT !.letter = Len(letters')], place)
  /\ UNCHANGED <<drafts, slow, sends, owed>>

Reopens(t, r) ==
  /\ t \in TextOf(latest) /\ r \in 0 .. lastRow
  /\ (r \in DOMAIN drafts /\ t = drafts[r]) \/ \E c \in slow : c.text = t /\ c.row = r
  /\ DraftSlips(t, r) \subseteq slips'
  /\ ~Ending /\ ~Saving /\ Strips = {} /\ waiting = <<>>
  /\ Parks
  /\ \E place \in Places : SetBox([letter |-> t.letter, version |-> t.version, row |-> r], place)
  /\ Sendings' = Sendings /\ slow' \subseteq slow
  /\ (slow' = slow \/ \E c \in slow : slow' = slow \ {c} /\ c.text = t)
  /\ UNCHANGED <<drafts, sends, letters, latest, owed>>

Leaves(c) ==
  /\ c \in Sendings /\ slow' = slow \ {c}
  /\ sends' = Append(sends, [text |-> c.text, undone |-> FALSE])
  /\ NoneOpen /\ Mail' = Mail \cup {List(rows)}
  /\ UNCHANGED <<timer, drafts, waiting, table, letters, latest, owed>>

Refuses(c) ==
  /\ c \in Sendings /\ slow' = slow \ {c}
  /\ (c.row # 0 \/ slow # {c} \/ c.text # Text(compose)) => "refused" \in slips'
  /\ UNCHANGED <<box, timer, drafts, waiting, calls, table, sends, letters, latest, owed>>

Returns(i) ==
  /\ i \in DOMAIN sends /\ ~sends[i].undone /\ sends[i].text \in TextOf(latest)
  /\ sends' = [sends EXCEPT ![i].undone = TRUE]
  /\ SaveDraft(0, sends[i].text)
  /\ Mail' = Mail \cup {List(rows')}
  /\ slow' = slow \cup {[kind |-> "undo", text |-> sends[i].text, row |-> lastRow']}
  /\ UNCHANGED <<box, timer, drafts, waiting, letters, latest, owed>>

Hears(c, M) ==
  /\ Mail = M \cup {c} /\ (c \in Saves => \A e \in M : e.kind # "autosave") /\ Quiet
  /\ c \in Calls(latest, lastRow) /\ M \subseteq Calls(latest, lastRow)
  /\ UNCHANGED <<waiting, slow, table, sends, letters, latest, dock, collapsed>>
  /\ \/ /\ c.kind = "autosave"
        /\ saved' = [row |-> c.row, text |-> c.text]
        /\ autoRow' = (IF Mine THEN c.row ELSE autoRow) /\ fresh' = FALSE
        /\ Mail' = M \cup {List(rows)}
        /\ UNCHANGED <<compose, timer, drafts, owed>>
     \/ /\ c.kind \in {"keep", "delete"}
        /\ Mail' = M \cup {List(rows)}
        /\ UNCHANGED <<compose, autoRow, saved, fresh, timer, drafts, owed>>
     \/ /\ c.kind = "strip"
        /\ saved' = [row |-> c.row, text |-> c.text]
        /\ IF Open /\ letters[compose.letter] = letters[c.text.letter]
           THEN compose' = [compose EXCEPT !.row = c.row] /\ autoRow' = 0
           ELSE UNCHANGED <<compose, autoRow>>
        /\ Mail' = M \cup {List(rows)}
        /\ UNCHANGED <<fresh, timer, drafts, owed>>
     \/ /\ c.kind = "list" /\ drafts' = c.list /\ Mail' = M /\ UNCHANGED <<autoRow, fresh>>
        /\ ~ChangedElsewhere(c.list)
        /\ UNCHANGED <<compose, saved, timer, owed>>
     \/ /\ c.kind = "list" /\ drafts' = c.list /\ Mail' = M /\ UNCHANGED <<autoRow, fresh>>
        /\ ChangedElsewhere(c.list)
        /\ LET t == c.list[RowOf(compose)]
           IN  /\ (Text(compose) # saved.text => "adopted" \in slips')
               /\ owed' = (IF Text(compose) = saved.text /\ ~Ending THEN Instead(t) ELSE owed)
               /\ compose' = [compose EXCEPT !.letter = t.letter, !.version = t.version]
               /\ saved' = [row |-> RowOf(compose), text |-> t]
               /\ timer' = FALSE

Edits(r) ==
  /\ r \in DOMAIN rows /\ ~Saving /\ waiting = <<>>
  /\ LET l == rows[r].letter
         t == [letter |-> l, version |-> latest'[l]]
     IN  /\ NewVersion(l)
         /\ rows' = [rows EXCEPT ![r] = t]
         /\ owed' = IF rows[r] \in owed /\ ~Held(r) THEN Instead(t) ELSE owed
  /\ Mail' = Mail \cup {List(rows')}
  /\ UNCHANGED <<box, timer, drafts, waiting, slow, lastRow, sends, letters>>

Goes(r) ==
  /\ r \in DOMAIN rows
  /\ (Held(r) => "gone" \in slips')
  /\ owed' = owed \ {rows[r]}
  /\ DeleteRow(r) /\ Mail' = Mail \cup {Call("delete", NoText, r)}
  /\ UNCHANGED <<box, timer, drafts, waiting, slow, sends, letters, latest>>

(* Every step is of one of these kinds.                                    *)
Kinds ==
  \/ Idles
  \/ \E w \in Waiters(latest, lastRow) : Waits(w)
  \/ \E d \in LetterBox(latest, lastRow), keep \in BOOLEAN : Closes(d, keep)
  \/ \E d \in LetterBox(latest, lastRow) : Collapses(d) \/ Posts(d)
  \/ Writes \/ Type
  \/ \E place \in Places : Starts(place)
  \/ \E t \in TextOf(latest), r \in 0 .. lastRow : Reopens(t, r)
  \/ \E c \in slow : Leaves(c) \/ Refuses(c)
  \/ \E i \in DOMAIN sends : Returns(i)
  \/ \E c \in Calls(latest, lastRow), M \in SUBSET Calls(latest, lastRow) : Hears(c, M)
  \/ \E r \in DOMAIN rows : Edits(r) \/ Goes(r)

-----------------------------------------------------------------------------
(* What a step notes is noted, and nothing noted before is forgotten. *)
LEMMA SlipIs ==
  ASSUME NEW now, Slip(now)
  PROVE  slips \subseteq slips' /\ now \subseteq slips'
BY DEF Slip

(* A calm state had neither of the two slips. *)
LEMMA CalmIs ==
  ASSUME Calm'
  PROVE  "opened" \notin slips' /\ "strip" \notin slips'
BY DEF Calm, Happened

(* The three flags of the window say what is on its way. *)
LEMMA Seen ==
  /\ Saving <=> Saves # {}
  /\ Stripping <=> Strips # {}
  /\ Ending <=> Enders # {} \/ Sendings # {}
BY DEF Saving, Stripping, Ending, Saves, Strips, Enders, Sendings, Mail, MailOf, Range

(* What is on its way after a call was made. *)
LEMMA MailAppend ==
  ASSUME NEW S, NEW cs \in Seq(S), NEW e \in S
  PROVE  /\ e.kind # "get" => MailOf(Append(cs, e)) = MailOf(cs) \cup {e}
         /\ e.kind = "get" => MailOf(Append(cs, e)) = MailOf(cs)
BY AppendRange DEF MailOf

(* What is on its way after an answer came. *)
LEMMA MailTail ==
  ASSUME NEW S, NEW cs \in Seq(S), cs # <<>>
  PROVE  /\ Head(cs).kind # "get" => MailOf(cs) = MailOf(Tail(cs)) \cup {Head(cs)}
         /\ Head(cs).kind = "get" => MailOf(cs) = MailOf(Tail(cs))
BY TailRange DEF MailOf

(* The answer the pane waits for does not count. *)
LEMMA MailDrop ==
  ASSUME NEW S, NEW cs \in Seq(S), OneSave(cs)
  PROVE  MailOf(DropGet(cs)) = MailOf(cs)
BY DropGetKeeps DEF MailOf

(* What the state is made of, in one fact. *)
LEMMA Held0 ==
  ASSUME TypeOK
  PROVE  /\ latest \in Seq(Nat) /\ lastRow \in Nat /\ Typed(latest, lastRow) /\ OneSave(calls) /\ Window
         /\ letters \in Seq(Places) /\ Len(letters) = Len(latest)
         /\ calls \in Seq(Calls(latest, lastRow)) /\ waiting \in Seq(Waiters(latest, lastRow))
         /\ slow \subseteq Errands(latest, lastRow) /\ sends \in Seq(Messages(latest))
         /\ rows \in Tables(latest, lastRow) /\ drafts \in Tables(latest, lastRow)
         /\ Mail \subseteq Calls(latest, lastRow)
         /\ (Open => compose \in LetterBox(latest, lastRow))
<1>1. /\ latest \in Seq(Nat) /\ lastRow \in Nat /\ Typed(latest, lastRow) /\ OneSave(calls) /\ Window
      /\ letters \in Seq(Places) /\ Len(letters) = Len(latest)
  BY DEF TypeOK
<1>2. /\ calls \in Seq(Calls(latest, lastRow)) /\ waiting \in Seq(Waiters(latest, lastRow))
      /\ slow \subseteq Errands(latest, lastRow) /\ sends \in Seq(Messages(latest))
      /\ rows \in Tables(latest, lastRow) /\ drafts \in Tables(latest, lastRow)
  BY <1>1 DEF Typed
<1>3. Mail \subseteq Calls(latest, lastRow)
  BY <1>2, SeqRange DEF Mail, MailOf
<1> QED
  BY <1>1, <1>2, <1>3, BoxIs

(* Who ends a box, after one more waits. *)
LEMMA EndersAppend ==
  ASSUME NEW S, waiting \in Seq(S), NEW w \in S, waiting' = Append(waiting, w)
  PROVE  Enders' = IF w.kind = "autosave" THEN Enders ELSE Enders \cup {w}
BY AppendRange DEF Enders

(* Who ends a box, after the oldest went on. *)
LEMMA EndersTail ==
  ASSUME NEW S, waiting \in Seq(S), waiting # <<>>, waiting' = Tail(waiting)
  PROVE  /\ Head(waiting).kind = "autosave" => Enders' = Enders
         /\ Head(waiting).kind # "autosave" => Head(waiting) \in Enders /\ Enders = Enders' \cup {Head(waiting)}
BY TailRange DEF Enders

(* The end of a close. *)
LEMMA KeepMail ==
  ASSUME TypeOK, NEW d \in LetterBox(latest, lastRow), NEW keep \in BOOLEAN,
         NEW cs \in Seq(Calls(latest, lastRow)), MailOf(cs) = Mail, Keep(d, keep, cs)
  PROVE  KeepRow(d, keep)
<1>0. latest \in Seq(Nat) /\ lastRow \in Nat /\ Typed(latest, lastRow) /\ rows \in Tables(latest, lastRow)
  BY Held0
<1>r. RowOf(d) \in 0 .. lastRow /\ (Written(d) => Text(d) \in TextOf(latest))
  BY <1>0, BoxIs, TextIs
<1>1. CASE keep /\ Written(d)
  <2> DEFINE e == Call("keep", Text(d), SavedRow(RowOf(d)))
  <2>1. SaveDraft(RowOf(d), Text(d)) /\ calls' = Append(cs, e)
    BY <1>1 DEF Keep
  <2>2. lastRow' \in Nat /\ lastRow <= lastRow' /\ SavedRow(RowOf(d)) \in 1 .. lastRow'
    BY <1>0, <1>r, <1>1, <2>1, SaveTypes
  <2>3. e \in Calls(latest, lastRow') /\ e.kind = "keep" /\ cs \in Seq(Calls(latest, lastRow'))
    BY <1>0, <1>r, <1>1, <2>2, CallTypes, Same, SetsGrow, Wider DEF Call
  <2> HIDE DEF e
  <2>4. MailOf(calls') = Mail \cup {e}
    BY <2>1, <2>3, MailAppend
  <2> QED
    BY <1>1, <2>1, <2>4 DEF KeepRow, Mail, e
<1>2. CASE ~(keep /\ Written(d))
  <2>1. DeleteRow(RowOf(d)) /\ calls' = (IF RowOf(d) = 0 THEN cs ELSE Append(cs, Call("delete", NoText, RowOf(d))))
    BY <1>2 DEF Keep
  <2>2. CASE RowOf(d) = 0
    BY <1>2, <2>1, <2>2 DEF KeepRow, Mail
  <2>3. CASE RowOf(d) # 0
    <3> DEFINE e == Call("delete", NoText, RowOf(d))
    <3>1. e \in Calls(latest, lastRow) /\ e.kind = "delete" /\ calls' = Append(cs, e)
      BY <1>0, <1>r, <2>1, <2>3, CallTypes DEF Call
    <3> HIDE DEF e
    <3>2. MailOf(calls') = Mail \cup {e}
      BY <3>1, MailAppend
    <3> QED
      BY <1>2, <2>1, <3>2 DEF KeepRow, Mail, e
  <2> QED
    BY <2>2, <2>3
<1> QED
  BY <1>1, <1>2

(* A close, by the writer or by the pane. *)
LEMMA ClosingIs ==
  ASSUME TypeOK, Open, Quiet, NEW keep \in BOOLEAN, NEW cs \in Seq(Calls(latest, lastRow)), MailOf(cs) = Mail,
         Closing(keep, cs), IF BehindSave THEN UNCHANGED box ELSE NoneOpen,
         Calm', NEW now, Slip(now), Ending => "again" \in now, Stripping => "strip" \in now,
         owed' = (IF keep THEN owed ELSE {t \in owed : t.letter # compose.letter}),
         UNCHANGED <<drafts, slow, sends, letters, latest>>
  PROVE  Kinds
<1>0. waiting \in Seq(Waiters(latest, lastRow)) /\ compose \in LetterBox(latest, lastRow) /\ lastRow \in Nat
      /\ latest \in Seq(Nat) /\ Typed(latest, lastRow)
  BY Held0
<1>1. (Ending => "again" \in slips') /\ Strips = {}
  BY SlipIs, CalmIs, Seen
<1>2. CASE BehindSave
  <2> DEFINE w == Waiter("close", keep)
  <2>1. waiting' = Append(waiting, w) /\ calls' = cs /\ UNCHANGED table /\ timer' = FALSE /\ UNCHANGED box /\ Saving
    BY <1>2 DEF Closing, BehindSave
  <2>2. w \in Waiters(latest, lastRow)
    BY <1>0, WaiterTypes
  <2>3. w.kind = "close" /\ w.keep = keep /\ w.d = compose
    BY DEF Waiter
  <2> HIDE DEF w
  <2>4. Enders' = Enders \cup {w} /\ Mail' = Mail
    BY <1>0, <2>1, <2>2, <2>3, EndersAppend DEF Mail
  <2>5. Waits(w)
    BY <1>1, <2>1, <2>2, <2>3, <2>4 DEF Waits
  <2> QED
    BY <2>2, <2>5 DEF Kinds
<1>3. CASE ~BehindSave
  <2>1. Keep(compose, keep, cs) /\ waiting' = waiting /\ timer' = FALSE /\ NoneOpen /\ ~Saving /\ waiting = <<>>
    BY <1>3 DEF Closing, BehindSave, Quiet
  <2>2. KeepRow(compose, keep)
    BY <1>0, <2>1, KeepMail
  <2>3. Now(compose)
    BY <1>1, <2>1 DEF Now
  <2>4. Closes(compose, keep)
    BY <1>0, <1>1, <2>1, <2>2, <2>3 DEF Closes
  <2> QED
    BY <1>0, <2>4 DEF Kinds
<1> QED
  BY <1>2, <1>3

(* A close is a step that waits or closes. *)
LEMMA CloseKind == TypeOK /\ Calm' /\ (\E keep \in BOOLEAN : Close(keep)) => Kinds
<1> SUFFICES ASSUME TypeOK, Calm', NEW keep \in BOOLEAN, Close(keep) PROVE Kinds
  OBVIOUS
<1> DEFINE now == When(Ending, "again") \cup When(Stripping, "strip")
<1>1. Slip(now) /\ (Ending => "again" \in now) /\ (Stripping => "strip" \in now)
  BY DEF Close, When
<1> HIDE DEF now
<1>2. calls \in Seq(Calls(latest, lastRow)) /\ MailOf(calls) = Mail
  BY Held0 DEF Mail
<1> QED
  BY <1>1, <1>2, ClosingIs DEF Close, Key

(* What the pane shows collapses nothing and writes nothing. *)
LEMMA ShowKind ==
  ASSUME TypeOK, Calm', Quiet, NEW t, NEW cs \in Seq(Calls(latest, lastRow)), MailOf(cs) = Mail, Show(t, cs)
  PROVE  Kinds
<1>1. CASE Open /\ Inline /\ dock # t
  <2> DEFINE now == When(Ending, "again") \cup When(Stripping, "strip")
  <2>1. Slip(now) /\ (Ending => "again" \in now) /\ (Stripping => "strip" \in now)
    BY <1>1 DEF Show, When
  <2> HIDE DEF now
  <2>2. /\ Closing(TRUE, cs) /\ (IF BehindSave THEN UNCHANGED box ELSE NoneOpen)
        /\ UNCHANGED <<drafts, slow, sends, letters, latest>> /\ owed' = owed
    BY <1>1 DEF Show, history
  <2> QED
    BY <1>1, <2>1, <2>2, ClosingIs
<1>2. CASE ~(Open /\ Inline /\ dock # t)
  <2>1. Idles
    BY <1>2 DEF Show, Idles, box, table, history, Mail, Enders
  <2> QED
    BY <2>1 DEF Kinds
<1> QED
  BY <1>1, <1>2

(* So do a closed thread and one that lands. *)
LEMMA PaneKind == TypeOK /\ Calm' /\ (CloseThread \/ ThreadLands) => Kinds
<1> SUFFICES ASSUME TypeOK, Calm', CloseThread \/ ThreadLands PROVE Kinds
  OBVIOUS
<1>0. calls \in Seq(Calls(latest, lastRow)) /\ OneSave(calls)
  BY Held0
<1>1. CASE CloseThread
  <2>1. DropGet(calls) \in Seq(Calls(latest, lastRow)) /\ MailOf(DropGet(calls)) = Mail
    BY <1>0, DropGetKeeps, MailDrop DEF Mail
  <2> QED
    BY <1>1, <2>1, ShowKind DEF CloseThread, Key
<1>2. CASE ThreadLands
  <2>1. Tail(calls) \in Seq(Calls(latest, lastRow)) /\ MailOf(Tail(calls)) = Mail
    BY <1>0, <1>2, TailRange, MailTail DEF Mail, ThreadLands
  <2> QED
    BY <1>2, <2>1, ShowKind DEF ThreadLands
<1> QED
  BY <1>1, <1>2

(* A click on a thread is idle. *)
LEMMA AskKind == TypeOK /\ (\E t \in Threads : Ask(t)) => Kinds
<1> SUFFICES ASSUME TypeOK, NEW t \in Threads, Ask(t) PROVE Kinds
  OBVIOUS
<1>0. calls \in Seq(Calls(latest, lastRow)) /\ OneSave(calls) /\ latest \in Seq(Nat) /\ lastRow \in Nat
  BY Held0
<1> DEFINE e == [Call("get", NoText, 0) EXCEPT !.list = t]
<1>1. e \in Calls(latest, lastRow) /\ e.kind = "get"
  BY <1>0, CallTypes DEF Call
<1>2. calls' = Append(DropGet(calls), e)
  BY DEF Ask
<1> HIDE DEF e
<1>3. Mail' = Mail
  BY <1>0, <1>1, <1>2, DropGetKeeps, MailDrop, MailAppend DEF Mail
<1>4. Idles
  BY <1>3 DEF Ask, Idles, box, table, history, Enders
<1> QED
  BY <1>4 DEF Kinds

(* So is the strip when it opens. *)
LEMMA ExpandKind == TypeOK /\ Calm' /\ Expand => Kinds
<1> SUFFICES ASSUME TypeOK, Calm', Expand PROVE Kinds
  OBVIOUS
<1>1. ~Stripping
  BY SlipIs, CalmIs DEF Expand, When
<1>2. Idles
  BY <1>1, Seen DEF Expand, Idles, lines, table, history, Mail, Enders
<1> QED
  BY <1>2 DEF Kinds

(* Escape is a step that waits or collapses, or idle. *)
LEMMA DismissKind == TypeOK /\ Dismiss => Kinds
<1> SUFFICES ASSUME TypeOK, Dismiss PROVE Kinds
  OBVIOUS
<1>0. waiting \in Seq(Waiters(latest, lastRow)) /\ compose \in LetterBox(latest, lastRow) /\ lastRow \in Nat
      /\ latest \in Seq(Nat) /\ Typed(latest, lastRow) /\ rows \in Tables(latest, lastRow)
      /\ calls \in Seq(Calls(latest, lastRow)) /\ Open /\ Written(compose)
  BY Held0 DEF Dismiss
<1>1. Ending => "again" \in slips'
  BY SlipIs DEF Dismiss, When
<1>2. CASE BehindSave
  <2> DEFINE w == Waiter("strip", TRUE)
  <2>1. waiting' = Append(waiting, w) /\ UNCHANGED <<calls, table>> /\ timer' = FALSE /\ UNCHANGED box /\ Saving
    BY <1>2 DEF Dismiss, BehindSave
  <2>2. w \in Waiters(latest, lastRow)
    BY <1>0, WaiterTypes
  <2>3. w.kind = "strip" /\ w.keep = TRUE /\ w.d = compose
    BY DEF Waiter
  <2> HIDE DEF w
  <2>4. Enders' = Enders \cup {w} /\ Mail' = Mail
    BY <1>0, <2>1, <2>2, <2>3, EndersAppend DEF Mail
  <2>5. Waits(w)
    BY <1>0, <1>1, <2>1, <2>2, <2>3, <2>4 DEF Waits, Dismiss, history
  <2> QED
    BY <2>2, <2>5 DEF Kinds
<1>3. CASE ~BehindSave
  <2> DEFINE e == Call("strip", Text(compose), SavedRow(RowOf(compose)))
  <2>1. /\ collapsed' = TRUE /\ SaveDraft(RowOf(compose), Text(compose)) /\ calls' = Append(calls, e)
        /\ UNCHANGED <<compose, dock, autoRow, saved, fresh>>
        /\ waiting' = waiting /\ timer' = FALSE /\ ~Saving /\ waiting = <<>>
    BY <1>3 DEF Dismiss, Strip, BehindSave, Key, Quiet
  <2>2. RowOf(compose) \in 0 .. lastRow /\ Text(compose) \in TextOf(latest)
    BY <1>0, BoxIs, TextIs
  <2>3. lastRow' \in Nat /\ lastRow <= lastRow' /\ SavedRow(RowOf(compose)) \in 1 .. lastRow'
    BY <1>0, <2>1, <2>2, SaveTypes
  <2>4. e \in Calls(latest, lastRow') /\ e.kind = "strip" /\ calls \in Seq(Calls(latest, lastRow'))
    BY <1>0, <2>2, <2>3, CallTypes, Same, SetsGrow, Wider DEF Call
  <2> HIDE DEF e
  <2>5. Mail' = Mail \cup {e}
    BY <2>1, <2>4, MailAppend DEF Mail
  <2>6. Now(compose)
    BY <1>0, <1>1, <2>1 DEF Now
  <2>7. Collapses(compose)
    BY <1>0, <2>1, <2>5, <2>6 DEF Collapses, Dismiss, history, e
  <2> QED
    BY <1>0, <2>7 DEF Kinds
<1> QED
  BY <1>2, <1>3

(* The two ways a box is replaced. *)
LEMMA ParksIs ==
  ASSUME TypeOK, ~Saving, waiting = <<>>,
         \/ Park /\ ~(Open /\ Docked)
         \/ Docked /\ UNCHANGED <<timer, table, calls, waiting>> /\ (Written(compose) => "over" \in slips')
  PROVE  Parks
<1>0. calls \in Seq(Calls(latest, lastRow)) /\ MailOf(calls) = Mail /\ (Open => compose \in LetterBox(latest, lastRow))
  BY Held0 DEF Mail
<1>1. CASE Park /\ Open
  <2>1. Keep(compose, TRUE, calls) /\ UNCHANGED waiting /\ timer' = FALSE
    BY <1>1 DEF Park, Closing, BehindSave
  <2>2. KeepRow(compose, TRUE)
    BY <1>0, <1>1, <2>1, KeepMail
  <2> QED
    BY <1>0, <1>1, <2>1, <2>2 DEF Parks
<1>2. CASE Park /\ ~Open
  BY <1>2 DEF Park, Parks, Mail
<1>3. CASE Docked /\ UNCHANGED <<timer, table, calls, waiting>> /\ (Written(compose) => "over" \in slips')
  BY <1>3 DEF Parks, Mail
<1> QED
  BY <1>1, <1>2, <1>3

(* A box is opened only when nothing is being saved, closed or sent. *)
LEMMA CalmOpening ==
  ASSUME TypeOK, Calm', Quiet, NEW now, Slip(now),
         Ending \/ Saving => "opened" \in now, Stripping => "strip" \in now
  PROVE  ~Ending /\ ~Saving /\ Strips = {} /\ waiting = <<>>
BY SlipIs, CalmIs, Seen DEF Quiet

(* A new box is of its kind. *)
LEMMA StartsIs ==
  ASSUME TypeOK, Calm', Quiet, NEW now, Slip(now), Ending \/ Saving => "opened" \in now, Stripping => "strip" \in now,
         NEW place \in Places, OpenNew(place), UNCHANGED <<drafts, slow, sends, owed>>,
         ~Docked \/ Park
  PROVE  Kinds
<1>1. ~Ending /\ ~Saving /\ Strips = {} /\ waiting = <<>>
  BY CalmOpening
<1>2. Parks
  <2>0. calls \in Seq(Calls(latest, lastRow)) /\ MailOf(calls) = Mail /\ (Open => compose \in LetterBox(latest, lastRow))
    BY Held0 DEF Mail
  <2>1. CASE Open
    <3>1. Keep(compose, TRUE, calls) /\ UNCHANGED waiting /\ timer' = FALSE
      BY <1>1, <2>1 DEF OpenNew, Park, Closing, BehindSave
    <3>2. KeepRow(compose, TRUE)
      BY <2>0, <2>1, <3>1, KeepMail
    <3> QED
      BY <2>0, <2>1, <3>1, <3>2 DEF Parks
  <2>2. CASE ~Open
    BY <2>2 DEF OpenNew, Park, Parks, Mail
  <2> QED
    BY <2>1, <2>2
<1>3. Starts(place)
  BY <1>1, <1>2 DEF Starts, OpenNew
<1> QED
  BY <1>3 DEF Kinds

(* So is a draft that is opened. *)
LEMMA ReopensIs ==
  ASSUME TypeOK, Calm', Quiet, NEW t \in TextOf(latest), NEW r \in 0 .. lastRow,
         (r \in DOMAIN drafts /\ t = drafts[r]) \/ (\E c \in slow : c.text = t /\ c.row = r),
         Slip(DraftSlips(t, r)), OpenDraft(t, r),
         Sendings' = Sendings, slow' \subseteq slow,
         slow' = slow \/ (\E c \in slow : slow' = slow \ {c} /\ c.text = t),
         UNCHANGED <<drafts, sends, letters, latest, owed>>
  PROVE  Kinds
<1>0. letters \in Seq(Places) /\ latest \in Seq(Nat) /\ Len(letters) = Len(latest)
  BY Held0
<1> DEFINE now == DraftSlips(t, r)
<1>1. /\ Ending \/ Saving => "opened" \in now
      /\ Stripping => "strip" \in now
      /\ Docked /\ Written(compose) => "over" \in now
  BY DEF DraftSlips, When
<1>2. Slip(now)
  OBVIOUS
<1> HIDE DEF now
<1>3. ~Ending /\ ~Saving /\ Strips = {} /\ waiting = <<>>
  BY <1>1, <1>2, CalmOpening
<1>4. Docked /\ Written(compose) => "over" \in slips'
  BY <1>1, <1>2, SlipIs
<1>5. Parks
  <2>1. CASE Docked
    <3>1. UNCHANGED <<timer, table, calls, waiting>>
      BY <2>1 DEF OpenDraft
    <3> QED
      BY <1>3, <1>4, <2>1, <3>1, ParksIs
  <2>2. CASE ~Docked
    <3>1. Park
      BY <2>2 DEF OpenDraft
    <3> QED
      BY <1>3, <2>2, <3>1, ParksIs
  <2> QED
    BY <2>1, <2>2
<1>6. \E place \in Places : SetBox([letter |-> t.letter, version |-> t.version, row |-> r], place)
  <2> DEFINE place == IF letters[t.letter] = open THEN open ELSE Panel
             d == [letter |-> t.letter, version |-> t.version, row |-> r]
  <2>1. t.letter \in DOMAIN letters
    BY <1>0, TextIs, Held0
  <2>2. place \in Places
    BY <1>0, <2>1 DEF Places
  <2>3. SetBox(d, place)
    BY DEF OpenDraft
  <2> HIDE DEF place, d
  <2> QED
    BY <2>2, <2>3 DEF d
<1>7. DraftSlips(t, r) \subseteq slips'
  BY SlipIs
<1>8. Reopens(t, r)
  BY <1>3, <1>5, <1>6, <1>7 DEF Reopens
<1> QED
  BY <1>8 DEF Kinds

(* Every opening is of one of these two kinds. *)
LEMMA OpenKinds == TypeOK /\ Calm' /\ (NewMessage \/ Reply \/ \E r \in DOMAIN drafts : FromList(r)) => Kinds
<1> SUFFICES ASSUME TypeOK, Calm', NewMessage \/ Reply \/ \E r \in DOMAIN drafts : FromList(r) PROVE Kinds
  OBVIOUS
<1>0. latest \in Seq(Nat) /\ lastRow \in Nat /\ drafts \in Tables(latest, lastRow) /\ Window
  BY Held0
<1>1. CASE NewMessage
  <2> DEFINE now == When(Ending \/ Saving, "opened") \cup When(Stripping, "strip")
  <2>1. Slip(now) /\ (Ending \/ Saving => "opened" \in now) /\ (Stripping => "strip" \in now)
    BY <1>1 DEF NewMessage, When
  <2> HIDE DEF now
  <2>2. Quiet /\ OpenNew(Panel) /\ UNCHANGED <<drafts, slow, sends, owed>> /\ Panel \in Places
    BY <1>1 DEF NewMessage, Key, Places
  <2>3. Park
    BY <2>2 DEF OpenNew
  <2> QED
    BY <2>1, <2>2, <2>3, StartsIs
<1>2. CASE Reply
  <2>1. CASE \E r \in Parked : /\ Slip(DraftSlips(drafts[r], r)) /\ OpenDraft(drafts[r], r) /\ UNCHANGED <<letters, latest>>
    <3>1. PICK r \in DOMAIN drafts : /\ Slip(DraftSlips(drafts[r], r)) /\ OpenDraft(drafts[r], r) /\ UNCHANGED <<letters, latest>>
      BY <2>1 DEF Parked
    <3>2. drafts[r] \in TextOf(latest) /\ r \in 0 .. lastRow
      BY <1>0, RowIs
    <3>3. Quiet /\ Sendings' = Sendings /\ slow' = slow /\ UNCHANGED <<drafts, sends, owed>>
      BY <1>2 DEF Reply, Key, Sendings
    <3> QED
      BY <3>1, <3>2, <3>3, ReopensIs
  <2>2. ASSUME NEW now, Slip(now), Ending \/ Saving => "opened" \in now, Stripping => "strip" \in now, OpenNew(open)
        PROVE  Kinds
    <3>1. Quiet /\ open \in Places /\ UNCHANGED <<drafts, slow, sends, owed>> /\ ~Docked
      BY <1>0, <1>2 DEF Reply, Key, Window, Places
    <3> QED
      BY <2>2, <3>1, StartsIs
  <2>3. \/ \E r \in Parked : /\ Slip(DraftSlips(drafts[r], r)) /\ OpenDraft(drafts[r], r) /\ UNCHANGED <<letters, latest>>
        \/ \E now : Slip(now) /\ (Ending \/ Saving => "opened" \in now) /\ (Stripping => "strip" \in now) /\ OpenNew(open)
    <3> DEFINE now == When(Ending \/ Saving, "opened") \cup When(Stripping, "strip")
                  \cup When(\E r \in DOMAIN rows : letters[rows[r].letter] = open, "stale")
                  \cup When(Open /\ letters[compose.letter] = open, "stale")
    <3>1. (Ending \/ Saving => "opened" \in now) /\ (Stripping => "strip" \in now)
      BY DEF When
    <3>2. \/ \E r \in Parked : /\ Slip(DraftSlips(drafts[r], r)) /\ OpenDraft(drafts[r], r) /\ UNCHANGED <<letters, latest>>
          \/ Slip(now) /\ OpenNew(open)
      BY <1>2, Zenon DEF Reply
    <3> HIDE DEF now
    <3> QED
      BY <3>1, <3>2
  <2> QED
    BY <2>1, <2>2, <2>3
<1>3. ASSUME NEW r \in DOMAIN drafts, FromList(r) PROVE Kinds
  <2>1. drafts[r] \in TextOf(latest) /\ r \in 0 .. lastRow
    BY <1>0, RowIs
  <2>2. Quiet /\ Sendings' = Sendings /\ slow' = slow /\ UNCHANGED <<drafts, sends, letters, latest, owed>>
        /\ Slip(DraftSlips(drafts[r], r)) /\ OpenDraft(drafts[r], r)
    BY <1>3 DEF FromList, Key, Sendings, history
  <2> QED
    BY <2>1, <2>2, ReopensIs
<1> QED
  BY <1>1, <1>2, <1>3

(* So is the draft an undo brings back. *)
LEMMA UndoneKind == TypeOK /\ Calm' /\ (\E c \in slow : Undone(c)) => Kinds
<1> SUFFICES ASSUME TypeOK, Calm', NEW c \in slow, Undone(c) PROVE Kinds
  OBVIOUS
<1>0. latest \in Seq(Nat) /\ lastRow \in Nat /\ slow \subseteq Errands(latest, lastRow)
  BY Held0
<1>1. c.text \in TextOf(latest) /\ c.row \in 0 .. lastRow
  BY <1>0 DEF Errands
<1>2. Quiet /\ Sendings' = Sendings /\ slow' = slow \ {c} /\ UNCHANGED <<drafts, sends, letters, latest, owed>>
      /\ Slip(DraftSlips(c.text, c.row)) /\ OpenDraft(c.text, c.row)
  BY DEF Undone, Sendings, history
<1> QED
  BY <1>1, <1>2, ReopensIs

(* A save by the timer, at once or after it waited. *)
LEMMA AutosaveIs ==
  ASSUME TypeOK, ~Saving, Autosave, Enders' = Enders,
         \/ timer /\ ~timer' /\ waiting = <<>> /\ waiting' = <<>>
         \/ \E w \in Waiters(latest, lastRow) : Later(w) /\ w.kind = "autosave",
         timer' \in {timer, FALSE},
         UNCHANGED <<compose, dock, collapsed, autoRow, saved, drafts, slow, sends, letters, latest, owed>>
  PROVE  Kinds
<1>0. latest \in Seq(Nat) /\ lastRow \in Nat /\ Typed(latest, lastRow) /\ rows \in Tables(latest, lastRow)
      /\ calls \in Seq(Calls(latest, lastRow))
  BY Held0
<1>1. CASE Open /\ ~collapsed /\ Written(compose) /\ ~Unchanged
  <2> DEFINE e == Call("autosave", Text(compose), SavedRow(RowOf(compose)))
  <2>1. compose \in LetterBox(latest, lastRow)
    BY <1>1, Held0
  <2>2. SaveDraft(RowOf(compose), Text(compose)) /\ calls' = Append(calls, e) /\ fresh' = TRUE
    BY <1>1 DEF Autosave
  <2>3. RowOf(compose) \in 0 .. lastRow /\ Text(compose) \in TextOf(latest)
    BY <1>0, <1>1, <2>1, BoxIs, TextIs
  <2>4. lastRow' \in Nat /\ lastRow <= lastRow' /\ SavedRow(RowOf(compose)) \in 1 .. lastRow'
    BY <1>0, <2>2, <2>3, SaveTypes
  <2>5. e \in Calls(latest, lastRow') /\ e.kind = "autosave" /\ calls \in Seq(Calls(latest, lastRow'))
    BY <1>0, <2>3, <2>4, CallTypes, Same, SetsGrow, Wider DEF Call
  <2> HIDE DEF e
  <2>6. Mail' = Mail \cup {e}
    BY <2>2, <2>5, MailAppend DEF Mail
  <2>7. Writes
    BY <1>1, <2>1, <2>2, <2>6 DEF Writes, e
  <2> QED
    BY <2>7 DEF Kinds
<1>2. CASE ~(Open /\ ~collapsed /\ Written(compose) /\ ~Unchanged)
  <2>1. UNCHANGED <<table, calls, fresh>>
    BY <1>2 DEF Autosave
  <2>0. \/ waiting' = waiting
        \/ ~Saving /\ waiting # <<>> /\ Head(waiting).kind = "autosave" /\ waiting' = Tail(waiting)
    BY DEF Later
  <2>2. Idles
    BY <2>0, <2>1 DEF Idles, Mail
  <2> QED
    BY <2>2 DEF Kinds
<1> QED
  BY <1>1, <1>2

(* The autosave writes, waits or is idle. *)
LEMMA AutosaveKind == TypeOK /\ AutosaveFires => Kinds
<1> SUFFICES ASSUME TypeOK, AutosaveFires PROVE Kinds
  OBVIOUS
<1>0. waiting \in Seq(Waiters(latest, lastRow)) /\ Typed(latest, lastRow) /\ lastRow \in Nat /\ latest \in Seq(Nat)
  BY Held0
<1>1. timer /\ timer' = FALSE /\ UNCHANGED <<compose, dock, collapsed, autoRow, saved, drafts, slow, sends, letters, latest, owed>>
  BY DEF AutosaveFires, history
<1>2. CASE Saving
  <2> DEFINE w == Waiter("autosave", TRUE)
  <2>1. waiting' = Append(waiting, w) /\ UNCHANGED <<table, calls, fresh>>
    BY <1>2 DEF AutosaveFires
  <2>2. w \in Waiters(latest, lastRow) /\ w.kind = "autosave"
    BY <1>0, WaiterTypes DEF Waiter
  <2> HIDE DEF w
  <2>3. Enders' = Enders
    BY <1>0, <2>1, <2>2, EndersAppend
  <2>4. Idles
    BY <1>1, <2>1, <2>2, <2>3 DEF Idles, Mail
  <2> QED
    BY <2>4 DEF Kinds
<1>3. CASE ~Saving
  <2>1. Autosave /\ waiting' = waiting /\ waiting = <<>>
    BY <1>3 DEF AutosaveFires, Quiet
  <2>2. Enders' = Enders
    BY <2>1 DEF Enders
  <2> QED
    BY <1>1, <1>3, <2>1, <2>2, AutosaveIs
<1> QED
  BY <1>2, <1>3

(* A send waits or is posted. *)
LEMMA SendKind == TypeOK /\ Calm' /\ Send => Kinds
<1> SUFFICES ASSUME TypeOK, Calm', Send PROVE Kinds
  OBVIOUS
<1>0. waiting \in Seq(Waiters(latest, lastRow)) /\ Typed(latest, lastRow) /\ lastRow \in Nat /\ latest \in Seq(Nat)
      /\ compose \in LetterBox(latest, lastRow) /\ Open /\ Written(compose) /\ Quiet
  BY Held0 DEF Send, Key
<1>1. (Ending => "again" \in slips') /\ Strips = {}
  <2>1. (Ending => "again" \in slips') /\ (Stripping => "strip" \in slips')
    BY SlipIs DEF Send, When
  <2> QED
    BY <2>1, CalmIs, Seen
<1>2. timer' = FALSE /\ UNCHANGED <<box, drafts, calls, sends, letters, latest, owed>>
  BY DEF Send, history
<1>3. CASE BehindSave
  <2> DEFINE w == Waiter("send", TRUE)
  <2>1. waiting' = Append(waiting, w) /\ UNCHANGED <<table, slow>> /\ Saving
    BY <1>3 DEF Send, BehindSave
  <2>2. w \in Waiters(latest, lastRow) /\ w.kind = "send" /\ w.keep = TRUE /\ w.d = compose
    BY <1>0, WaiterTypes DEF Waiter
  <2> HIDE DEF w
  <2>3. Enders' = Enders \cup {w}
    BY <1>0, <2>1, <2>2, EndersAppend
  <2>4. Waits(w)
    BY <1>0, <1>1, <1>2, <2>1, <2>2, <2>3 DEF Waits, Mail
  <2> QED
    BY <2>2, <2>4 DEF Kinds
<1>4. CASE ~BehindSave
  <2>1. Post(compose) /\ waiting' = waiting /\ ~Saving /\ waiting = <<>>
    BY <1>0, <1>4 DEF Send, BehindSave, Quiet
  <2>2. Now(compose)
    BY <1>0, <1>1, <1>2, <2>1 DEF Now
  <2>3. Posts(compose)
    BY <1>0, <1>1, <1>2, <2>1, <2>2 DEF Posts, Mail
  <2> QED
    BY <1>0, <2>3 DEF Kinds
<1> QED
  BY <1>3, <1>4

(* The answer to a send is of its kinds. *)
LEMMA AnswerKinds == TypeOK /\ (\E c \in slow : Sent(c) \/ Refused(c)) => Kinds
<1> SUFFICES ASSUME TypeOK, NEW c \in slow, Sent(c) \/ Refused(c) PROVE Kinds
  OBVIOUS
<1>0. latest \in Seq(Nat) /\ lastRow \in Nat /\ rows \in Tables(latest, lastRow) /\ calls \in Seq(Calls(latest, lastRow))
  BY Held0
<1>1. CASE Sent(c)
  <2>1. List(rows) \in Calls(latest, lastRow) /\ List(rows).kind # "get" /\ calls' = Append(calls, List(rows))
    BY <1>0, <1>1, CallTypes DEF Sent, List
  <2>2. Mail' = Mail \cup {List(rows)}
    BY <1>0, <2>1, MailAppend DEF Mail
  <2>3. Leaves(c)
    BY <1>1, <2>2 DEF Leaves, Sent, AfterSend, Sendings, history
  <2> QED
    BY <2>3 DEF Kinds
<1>2. CASE Refused(c)
  <2>1. (c.row # 0 \/ slow # {c} \/ c.text # Text(compose)) => "refused" \in slips'
    BY <1>2, SlipIs DEF Refused, When
  <2>2. Refuses(c)
    BY <1>2, <2>1 DEF Refuses, Refused, Sendings, history
  <2> QED
    BY <2>2 DEF Kinds
<1> QED
  BY <1>1, <1>2

(* An undo is of its kind. *)
LEMMA UndoKind == TypeOK /\ (\E i \in DOMAIN sends : Undo(i)) => Kinds
<1> SUFFICES ASSUME TypeOK, NEW i \in DOMAIN sends, Undo(i) PROVE Kinds
  OBVIOUS
<1>0. latest \in Seq(Nat) /\ lastRow \in Nat /\ rows \in Tables(latest, lastRow) /\ calls \in Seq(Calls(latest, lastRow))
      /\ sends \in Seq(Messages(latest))
  BY Held0
<1>1. sends[i].text \in TextOf(latest)
  <2>1. sends[i] \in Messages(latest)
    BY <1>0
  <2> QED
    BY <2>1 DEF Messages
<1>2. SaveDraft(0, sends[i].text) /\ calls' = Append(calls, List(rows'))
  BY DEF Undo
<1>3. /\ lastRow' \in Nat /\ lastRow <= lastRow' /\ rows' \in Tables(latest, lastRow')
  <2>1. 0 \in 0 .. lastRow
    BY <1>0
  <2> QED
    BY <1>0, <1>1, <1>2, <2>1, SaveTypes
<1>4. List(rows') \in Calls(latest, lastRow') /\ List(rows').kind # "get" /\ calls \in Seq(Calls(latest, lastRow'))
  BY <1>0, <1>3, CallTypes, Same, SetsGrow, Wider DEF List
<1>5. Mail' = Mail \cup {List(rows')}
  BY <1>2, <1>4, MailAppend DEF Mail
<1>6. Returns(i)
  BY <1>1, <1>5 DEF Returns, Undo, history
<1> QED
  BY <1>6 DEF Kinds

(* What waited is of the kind of what it waited for. *)
LEMMA ResumeKind == TypeOK /\ Resume => Kinds
<1> SUFFICES ASSUME TypeOK, Resume PROVE Kinds
  OBVIOUS
<1>0. latest \in Seq(Nat) /\ lastRow \in Nat /\ rows \in Tables(latest, lastRow) /\ calls \in Seq(Calls(latest, lastRow))
      /\ waiting \in Seq(Waiters(latest, lastRow)) /\ Typed(latest, lastRow)
  BY Held0
<1> DEFINE w == Head(waiting)
<1>1. /\ ~Saving /\ waiting # <<>> /\ waiting' = Tail(waiting) /\ GoesOn(w)
      /\ UNCHANGED <<timer, drafts, sends, letters, latest, owed>>
  BY DEF Resume, Quiet, history
<1>2. w \in Waiters(latest, lastRow) /\ Later(w)
  BY <1>0, <1>1, TailRange DEF Later
<1>3. /\ w.kind # "autosave" => w.d \in LetterBox(latest, lastRow) /\ w.keep \in BOOLEAN
      /\ w.kind \in {"strip", "send"} => Written(w.d)
  BY <1>2 DEF Waiters
<1>4. w.kind = "autosave" => Enders' = Enders
  BY <1>0, <1>1, EndersTail
<1> HIDE DEF w
<1>5. ASSUME w.kind = "autosave", Autosave, UNCHANGED <<compose, dock, collapsed, autoRow, saved, slow>> PROVE Kinds
  <2>1. timer' \in {timer, FALSE}
    BY <1>1
  <2> QED
    BY <1>1, <1>2, <1>4, <1>5, <2>1, AutosaveIs
<1>6. ASSUME w.kind = "close", Keep(w.d, w.keep, calls), NoneOpen, UNCHANGED slow PROVE Kinds
  <2>1. KeepRow(w.d, w.keep)
    BY <1>0, <1>3, <1>6, KeepMail DEF Mail
  <2>2. Closes(w.d, w.keep)
    BY <1>1, <1>2, <1>3, <1>6, <2>1 DEF Closes
  <2> QED
    BY <1>3, <1>6, <2>2 DEF Kinds
<1>7. ASSUME w.kind = "strip", Strip(w.d), UNCHANGED slow PROVE Kinds
  <2> DEFINE d == w.d
  <2> DEFINE e == Call("strip", Text(d), SavedRow(RowOf(d)))
  <2>0. d \in LetterBox(latest, lastRow) /\ Written(d)
    BY <1>3, <1>7
  <2>1. /\ collapsed' = TRUE /\ SaveDraft(RowOf(d), Text(d)) /\ calls' = Append(calls, e)
        /\ UNCHANGED <<compose, dock, autoRow, saved, fresh>>
    BY <1>7 DEF Strip
  <2>9. w.d = d
    OBVIOUS
  <2> HIDE DEF d
  <2>2. RowOf(d) \in 0 .. lastRow /\ Text(d) \in TextOf(latest)
    BY <1>0, <2>0, BoxIs, TextIs
  <2>3. lastRow' \in Nat /\ lastRow <= lastRow' /\ SavedRow(RowOf(d)) \in 1 .. lastRow'
    BY <1>0, <2>1, <2>2, SaveTypes
  <2>4. e \in Calls(latest, lastRow') /\ e.kind = "strip" /\ calls \in Seq(Calls(latest, lastRow'))
    BY <1>0, <2>2, <2>3, CallTypes, Same, SetsGrow, Wider DEF Call
  <2> HIDE DEF e
  <2>5. Mail' = Mail \cup {e}
    BY <2>1, <2>4, MailAppend DEF Mail
  <2>6. Collapses(d)
    BY <1>1, <1>2, <1>7, <2>0, <2>1, <2>5, <2>9 DEF Collapses, e
  <2> QED
    BY <2>0, <2>6 DEF Kinds
<1>8. ASSUME w.kind = "send", Post(w.d), UNCHANGED <<box, calls>> PROVE Kinds
  <2>1. Posts(w.d)
    BY <1>1, <1>2, <1>3, <1>8 DEF Posts, Mail
  <2> QED
    BY <1>3, <1>8, <2>1 DEF Kinds
<1> QED
  BY <1>1, <1>5, <1>6, <1>7, <1>8, Zenon DEF GoesOn

(* An answer of the store is idle or heard. *)
LEMMA LandsKind == TypeOK /\ Lands => Kinds
<1> SUFFICES ASSUME TypeOK, Lands PROVE Kinds
  OBVIOUS
<1>0. latest \in Seq(Nat) /\ lastRow \in Nat /\ rows \in Tables(latest, lastRow) /\ calls \in Seq(Calls(latest, lastRow))
      /\ OneSave(calls)
  BY Held0
<1> DEFINE c == Head(calls)
           cs == Tail(calls)
           M == MailOf(cs)
<1>1. /\ calls # <<>> /\ Quiet
      /\ \/ c.kind = "autosave" /\ AutosaveLands(c, cs)
         \/ c.kind = "keep" /\ KeepLands(c, cs)
         \/ c.kind = "strip" /\ StripLands(c, cs)
         \/ c.kind = "delete" /\ DeleteLands(cs)
         \/ c.kind = "list" /\ ListLands(c, cs)
      /\ UNCHANGED <<waiting, slow, table, sends, letters, news, latest>>
  BY DEF Lands
<1>2. cs \in Seq(Calls(latest, lastRow)) /\ c \in Calls(latest, lastRow)
  BY <1>0, <1>1, TailRange
<1>3. c.kind # "get" => Mail = M \cup {c}
  BY <1>0, <1>1, MailTail DEF Mail
<1>4. c \in Saves => \A e \in M : e.kind # "autosave"
  <2>1. Head(calls).kind = "autosave" => \A i \in DOMAIN cs : cs[i].kind # "autosave"
    BY <1>0, <1>1, OneLess
  <2> SUFFICES ASSUME c \in Saves, NEW e \in M PROVE e.kind # "autosave"
    OBVIOUS
  <2>2. PICK i \in DOMAIN cs : cs[i] = e
    BY DEF MailOf, Range
  <2> QED
    BY <2>1, <2>2 DEF Saves
<1>5. M \subseteq Calls(latest, lastRow)
  BY <1>2, SeqRange DEF MailOf
<1>6. calls' = Append(cs, List(rows)) => Mail' = M \cup {List(rows)}
  <2>1. List(rows) \in Calls(latest, lastRow) /\ List(rows).kind # "get"
    BY <1>0, CallTypes DEF List
  <2> HIDE DEF cs
  <2>2. MailOf(Append(cs, List(rows))) = MailOf(cs) \cup {List(rows)}
    BY <1>2, <2>1, MailAppend
  <2> QED
    BY <2>2 DEF Mail
<1>7. calls' = cs => Mail' = M
  BY DEF Mail
<1> HIDE DEF c, cs, M
<1>8. c.kind \in {"autosave", "keep", "strip", "delete", "list"}
  BY <1>1
<1>9. Hears(c, M)
  <2>1. CASE c.kind = "autosave" /\ AutosaveLands(c, cs)
    BY <1>1, <1>2, <1>3, <1>4, <1>5, <1>6, <2>1 DEF Hears, AutosaveLands
  <2>2. CASE c.kind = "keep" /\ KeepLands(c, cs)
    BY <1>1, <1>2, <1>3, <1>4, <1>5, <1>6, <2>2 DEF Hears, KeepLands, box
  <2>3. CASE c.kind = "strip" /\ StripLands(c, cs)
    BY <1>1, <1>2, <1>3, <1>4, <1>5, <1>6, <2>3 DEF Hears, StripLands
  <2>4. CASE c.kind = "delete" /\ DeleteLands(cs)
    BY <1>1, <1>2, <1>3, <1>4, <1>5, <1>6, <2>4 DEF Hears, DeleteLands, box
  <2>5. CASE c.kind = "list" /\ ListLands(c, cs)
    <3>1. CASE ~ChangedElsewhere(c.list)
      BY <1>1, <1>2, <1>3, <1>4, <1>5, <1>7, <2>5, <3>1 DEF Hears, ListLands
    <3>2. CASE ChangedElsewhere(c.list)
      <4> DEFINE t == c.list[RowOf(compose)]
      <4>1. /\ Slip(When(Text(compose) # saved.text, "adopted"))
            /\ owed' = (IF Text(compose) = saved.text /\ ~Ending THEN Instead(t) ELSE owed)
            /\ compose' = [compose EXCEPT !.letter = t.letter, !.version = t.version]
            /\ saved' = [row |-> RowOf(compose), text |-> t]
            /\ timer' = FALSE
        BY <2>5, <3>2 DEF ListLands
      <4>2. Text(compose) # saved.text => "adopted" \in slips'
        BY <4>1, SlipIs DEF When
      <4>3. drafts' = c.list /\ calls' = cs /\ UNCHANGED <<dock, collapsed, autoRow, fresh, open, told>>
        BY <2>5 DEF ListLands
      <4> QED
        BY <1>1, <1>2, <1>3, <1>4, <1>5, <1>7, <2>5, <3>2, <4>1, <4>2, <4>3 DEF Hears
    <3> QED
      BY <3>1, <3>2
  <2> QED
    BY <1>1, <2>1, <2>2, <2>3, <2>4, <2>5
<1> QED
  BY <1>2, <1>5, <1>9 DEF Kinds

(* What happens to a row elsewhere is of its kinds. *)
LEMMA TableKinds == TypeOK /\ (\E r \in DOMAIN rows : GmailEdits(r) \/ RowGoes(r)) => Kinds
<1> SUFFICES ASSUME TypeOK, NEW r \in DOMAIN rows, GmailEdits(r) \/ RowGoes(r) PROVE Kinds
  OBVIOUS
<1>0. latest \in Seq(Nat) /\ lastRow \in Nat /\ rows \in Tables(latest, lastRow) /\ calls \in Seq(Calls(latest, lastRow))
  BY Held0
<1>1. CASE GmailEdits(r)
  <2>1. TypeOK' /\ calls' = Append(calls, List(rows')) /\ lastRow' = lastRow
    BY <1>1, GmailTypes DEF GmailEdits
  <2>2. List(rows') \in Calls(latest', lastRow) /\ List(rows').kind # "get" /\ calls \in Seq(Calls(latest', lastRow))
    <3>1. rows[r].letter \in DOMAIN latest /\ latest \in Seq(Nat)
      BY <1>0, RowIs, TextIs
    <3>2. NewVersion(rows[r].letter)
      BY <1>1 DEF GmailEdits
    <3>3. latest' \in Seq(Nat) /\ Grows(latest, latest')
      BY <3>1, <3>2, VersionTypes
    <3>4. rows' \in Tables(latest', lastRow)
      BY <2>1 DEF TypeOK, Typed
    <3>5. lastRow <= lastRow
      BY <1>0
    <3>6. calls \in Seq(Calls(latest', lastRow))
      BY <1>0, <3>3, <3>5, SetsGrow, Wider
    <3> QED
      BY <1>0, <3>3, <3>4, <3>6, CallTypes DEF List
  <2>3. Mail' = Mail \cup {List(rows')}
    BY <2>1, <2>2, MailAppend DEF Mail
  <2>4. Edits(r)
    BY <1>1, <2>3 DEF Edits, GmailEdits, Key, Quiet
  <2> QED
    BY <2>4 DEF Kinds
<1>2. CASE RowGoes(r)
  <2> DEFINE e == Call("delete", NoText, r)
  <2>1. r \in 1 .. lastRow /\ calls' = Append(calls, e)
    BY <1>0, <1>2, RowIs DEF RowGoes
  <2>2. e \in Calls(latest, lastRow) /\ e.kind = "delete"
    BY <1>0, <2>1, CallTypes DEF Call
  <2> HIDE DEF e
  <2>3. Mail' = Mail \cup {e}
    BY <1>0, <2>1, <2>2, MailAppend DEF Mail
  <2>4. Held(r) => "gone" \in slips'
    BY <1>2, SlipIs DEF RowGoes, When
  <2>5. Goes(r)
    BY <1>2, <2>3, <2>4 DEF Goes, RowGoes, e
  <2> QED
    BY <2>5 DEF Kinds
<1> QED
  BY <1>1, <1>2

(* Every step that opens no second box and strips no reply twice is of one *)
(* of the kinds.                                                           *)
LEMMA Steps == TypeOK /\ Calm' /\ Next => Kinds
<1> SUFFICES ASSUME TypeOK, Calm', Next PROVE Kinds
  OBVIOUS
<1>1. Type => Kinds
  BY DEF Kinds
<1> QED
  BY <1>1, CloseKind, DismissKind, ExpandKind, OpenKinds, AskKind, PaneKind, AutosaveKind, SendKind, AnswerKinds,
     UndoneKind, UndoKind, ResumeKind, LandsKind, TableKinds DEF Next

(* Nothing that happened is forgotten. *)
LEMMA SlipsGrow == Next => slips \subseteq slips'
BY SlipIs DEF Next, Close, Dismiss, Expand, NewMessage, Reply, FromList, Ask, CloseThread, Show, Type, AutosaveFires, Send,
   Sent, Refused, Undone, Undo, Resume, Lands, ThreadLands, AutosaveLands, KeepLands, StripLands, DeleteLands, ListLands,
   GmailEdits, RowGoes

-----------------------------------------------------------------------------
(* Base: every row, and everything on its way to one, is of one letter. *)

(* L gives each row the letter it is of.                                   *)
Fits(L, r, l) == r # 0 => L[r] = l
TableFits(L, f) == \A r \in DOMAIN f : L[r] = f[r].letter
MailFits(L, M) ==
  \A c \in M : /\ c.kind = "list" => TableFits(L, c.list)
               /\ c.kind \in {"autosave", "strip"} => L[c.row] = c.text.letter

Names(L) ==
  /\ TableFits(L, rows) /\ TableFits(L, drafts) /\ MailFits(L, Mail)
  /\ \A c \in slow : Fits(L, c.row, c.text.letter)
  /\ \A w \in Enders : Fits(L, w.d.row, w.d.letter)
  /\ (Open => Fits(L, compose.row, compose.letter) /\ Fits(L, autoRow, compose.letter))

(* What is being saved, closed or sent while a box is open is that box.    *)
Boxed ==
  Open =>
    /\ \A c \in Saves \cup Strips : c.text.letter = compose.letter /\ (RowOf(compose) # 0 => c.row = RowOf(compose))
    /\ \A c, e \in Saves \cup Strips : c.row = e.row
    /\ \A w \in Enders : w.d.letter = compose.letter /\ w.d.row = compose.row
    /\ \A c \in Sendings : c.text.letter = compose.letter
    /\ (Saves # {} => fresh)
    /\ (Strips # {} => collapsed /\ Saves = {})
    /\ (Enders # {} => RowOf(compose) # 0 \/ Saving)

Named == \E L \in [Nat -> Nat] : Names(L)
Base == Calm => Boxed /\ Named

(* Only the letters of rows that were given out count. *)
LEMMA NamesAgree ==
  ASSUME TypeOK, NEW L, Names(L), NEW K, \A r \in 0 .. lastRow : K[r] = L[r]
  PROVE  Names(K)
<1>0. latest \in Seq(Nat) /\ lastRow \in Nat /\ rows \in Tables(latest, lastRow) /\ drafts \in Tables(latest, lastRow)
      /\ Mail \subseteq Calls(latest, lastRow) /\ slow \subseteq Errands(latest, lastRow)
      /\ waiting \in Seq(Waiters(latest, lastRow)) /\ (Open => compose \in LetterBox(latest, lastRow))
      /\ Typed(latest, lastRow)
  BY Held0
<1>1. ASSUME NEW f \in Tables(latest, lastRow), TableFits(L, f) PROVE TableFits(K, f)
  <2>1. \A r \in DOMAIN f : r \in 0 .. lastRow
    BY <1>0, RowIs
  <2> QED
    BY <1>1, <2>1 DEF TableFits
<1>2. MailFits(K, Mail)
  <2> SUFFICES ASSUME NEW c \in Mail
               PROVE  /\ c.kind = "list" => TableFits(K, c.list)
                      /\ c.kind \in {"autosave", "strip"} => K[c.row] = c.text.letter
    BY DEF MailFits
  <2>1. /\ c.kind = "list" => TableFits(L, c.list) /\ c.list \in Tables(latest, lastRow)
        /\ c.kind \in {"autosave", "strip"} => L[c.row] = c.text.letter /\ c.row \in 0 .. lastRow
    BY <1>0 DEF Names, MailFits, Calls
  <2> QED
    BY <1>1, <2>1
<1>3. \A c \in slow : Fits(K, c.row, c.text.letter)
  <2>1. \A c \in slow : c.row \in 0 .. lastRow
    BY <1>0 DEF Errands
  <2> QED
    BY <2>1 DEF Names, Fits
<1>4. \A w \in Enders : Fits(K, w.d.row, w.d.letter)
  <2>1. ASSUME NEW w \in Enders PROVE w.d \in LetterBox(latest, lastRow)
    <3>1. w \in Waiters(latest, lastRow) /\ w.kind # "autosave"
      BY <1>0, SeqRange DEF Enders
    <3> QED
      BY <3>1 DEF Waiters
  <2>2. \A w \in Enders : w.d.row \in 0 .. lastRow
    BY <1>0, <2>1, TextIs
  <2> QED
    BY <2>2 DEF Names, Fits
<1>5. Open => Fits(K, compose.row, compose.letter) /\ Fits(K, autoRow, compose.letter)
  <2>1. Open => compose.row \in 0 .. lastRow /\ autoRow \in 0 .. lastRow
    BY <1>0, TextIs DEF Typed
  <2> QED
    BY <2>1 DEF Names, Fits
<1> QED
  BY <1>0, <1>1, <1>2, <1>3, <1>4, <1>5 DEF Names

(* A row that is written is given its letter. *)
LEMMA SaveNames ==
  ASSUME TypeOK, NEW L \in [Nat -> Nat], Names(L), NEW r \in 0 .. lastRow, NEW t \in TextOf(latest),
         Fits(L, r, t.letter), SaveDraft(r, t)
  PROVE  \E K \in [Nat -> Nat] : /\ Names(K) /\ TableFits(K, rows') /\ K[SavedRow(r)] = t.letter
                                 /\ \A q \in 0 .. lastRow : K[q] = L[q]
<1>0. latest \in Seq(Nat) /\ lastRow \in Nat /\ rows \in Tables(latest, lastRow)
  BY Held0
<1>t. t.letter \in Nat
  <2>1. t.letter \in DOMAIN latest
    BY <1>0, TextIs
  <2>2. DOMAIN latest = 1 .. Len(latest) /\ Len(latest) \in Nat
    BY <1>0
  <2> QED
    BY <2>1, <2>2
<1>d. \A q \in DOMAIN rows : q \in 0 .. lastRow
  BY <1>0, RowIs
<1>1. CASE r = 0
  <2> DEFINE m == lastRow + 1
             K == [L EXCEPT ![m] = t.letter]
  <2>1. rows' = With(rows, m, t) /\ SavedRow(r) = m
    BY <1>1 DEF SaveDraft, SavedRow
  <2>2. m \in Nat /\ \A q \in 0 .. lastRow : q # m
    BY <1>0
  <2>3. K \in [Nat -> Nat] /\ K[m] = t.letter /\ \A q \in 0 .. lastRow : K[q] = L[q]
    BY <1>t, <2>2
  <2> HIDE DEF K, m
  <2>4. Names(K)
    BY <2>3, NamesAgree
  <2>5. TableFits(K, rows')
    BY <1>d, <2>1, <2>3, <2>4 DEF TableFits, With, Names
  <2> QED
    BY <2>1, <2>3, <2>4, <2>5
<1>2. CASE r # 0
  <2>1. rows' = (IF r \in DOMAIN rows THEN [rows EXCEPT ![r] = t] ELSE rows) /\ SavedRow(r) = r
    BY <1>2 DEF SaveDraft, SavedRow
  <2>2. TableFits(L, rows')
    BY <1>2, <2>1 DEF TableFits, Names, Fits
  <2> QED
    BY <1>2, <2>1, <2>2 DEF Fits
<1> QED
  BY <1>1, <1>2

(* A row that goes leaves the letters of the others. *)
LEMMA DeleteNames ==
  ASSUME NEW L, TableFits(L, rows), NEW r, DeleteRow(r)
  PROVE  TableFits(L, rows')
BY DEF TableFits, DeleteRow, Without, Restrict

(* The row of the box, and of what is closed, folded or sent. *)
LEMMA RowFits ==
  ASSUME TypeOK, Boxed, NEW L, Names(L), NEW d, (Open /\ d = compose) \/ \E w \in Enders : w.d = d
  PROVE  Fits(L, RowOf(d), d.letter)
<1>1. autoRow # 0 => Open
  BY Held0 DEF Window
<1> QED
  BY <1>1 DEF Names, Fits, RowOf, Or, Boxed

(* One more call that fits. *)
LEMMA MailMore ==
  ASSUME NEW L, NEW M, MailFits(L, M), NEW e,
         e.kind = "list" => TableFits(L, e.list), e.kind \in {"autosave", "strip"} => L[e.row] = e.text.letter
  PROVE  MailFits(L, M \cup {e})
BY DEF MailFits

(* The end of a close. *)
LEMMA KeepNames ==
  ASSUME TypeOK, NEW L \in [Nat -> Nat], Names(L), NEW d \in LetterBox(latest, lastRow), NEW keep, KeepRow(d, keep),
         Fits(L, RowOf(d), d.letter)
  PROVE  \E K \in [Nat -> Nat] : Names(K) /\ TableFits(K, rows') /\ MailFits(K, Mail')
<1>0. latest \in Seq(Nat) /\ lastRow \in Nat /\ Typed(latest, lastRow)
  BY Held0
<1>1. CASE keep /\ Written(d) /\ SaveDraft(RowOf(d), Text(d)) /\ Mail' = Mail \cup {Call("keep", Text(d), SavedRow(RowOf(d)))}
  <2>0. RowOf(d) \in 0 .. lastRow
    BY <1>0, BoxIs
  <2>1. Text(d) \in TextOf(latest) /\ Text(d).letter = d.letter
    BY <1>0, <1>1, TextIs
  <2>2. PICK K \in [Nat -> Nat] : Names(K) /\ TableFits(K, rows')
    BY <1>1, <2>0, <2>1, SaveNames
  <2>3. MailFits(K, Mail')
    BY <1>1, <2>2, MailMore DEF Names, Call
  <2> QED
    BY <2>2, <2>3
<1>2. CASE DeleteRow(RowOf(d)) /\ Mail' \in {Mail, Mail \cup {Call("delete", NoText, RowOf(d))}}
  <2>1. TableFits(L, rows')
    BY <1>2, DeleteNames DEF Names
  <2>2. MailFits(L, Mail \cup {Call("delete", NoText, RowOf(d))}) /\ MailFits(L, Mail)
    BY MailMore DEF Names, Call
  <2> QED
    BY <1>2, <2>1, <2>2
<1> QED
  BY <1>1, <1>2 DEF KeepRow

(* A box that is replaced leaves names for what it writes. *)
LEMMA ParksNames ==
  ASSUME TypeOK, Boxed, NEW L \in [Nat -> Nat], Names(L), Parks
  PROVE  \E K \in [Nat -> Nat] : Names(K) /\ TableFits(K, rows') /\ MailFits(K, Mail')
<1>1. CASE UNCHANGED table /\ Mail' = Mail
  BY <1>1 DEF Names, table
<1>2. CASE Open /\ compose \in LetterBox(latest, lastRow) /\ KeepRow(compose, TRUE)
  <2>1. Fits(L, RowOf(compose), compose.letter)
    BY <1>2, RowFits
  <2> QED
    BY <1>2, <2>1, KeepNames
<1> QED
  BY <1>1, <1>2 DEF Parks

(* The flag of a save, after a step. *)
LEMMA SeenNext == Saving' <=> Saves' # {}
BY DEF Saving, Saves, Mail, MailOf, Range

(* What a step adds to what is on its way.                                 *)
LEMMA MailSame ==
  ASSUME Mail' = Mail
  PROVE  Saves' = Saves /\ Strips' = Strips /\ (Saving' <=> Saving)
<1>1. Saves' = Saves /\ Strips' = Strips
  BY DEF Saves, Strips
<1> QED
  BY <1>1, Seen, SeenNext

(* Saves and strips, after one more call. *)
LEMMA MailAdds ==
  ASSUME NEW e, Mail' = Mail \cup {e}
  PROVE  /\ Saves' = (IF e.kind = "autosave" THEN Saves \cup {e} ELSE Saves)
         /\ Strips' = (IF e.kind = "strip" THEN Strips \cup {e} ELSE Strips)
BY DEF Saves, Strips

(* Who ends a box, after the oldest went on. *)
LEMMA LaterIs ==
  ASSUME TypeOK, NEW w \in Waiters(latest, lastRow), Later(w)
  PROVE  /\ w.kind # "autosave" => w \in Enders /\ Enders = Enders' \cup {w}
         /\ w.kind = "autosave" => Enders' = Enders
         /\ Enders' \subseteq Enders
BY Held0, EndersTail DEF Later

(* What is done at once finds nobody waiting. *)
LEMMA NowIs == ASSUME NEW d, Now(d) PROVE Enders' = {} /\ Enders = {}
BY DEF Now, Enders, Range

(* The parts that make names of the next state. *)
LEMMA NamesAre ==
  ASSUME NEW L, TableFits(L, rows'), TableFits(L, drafts'), MailFits(L, Mail'),
         \A c \in slow' : Fits(L, c.row, c.text.letter),
         \A w \in Enders' : Fits(L, w.d.row, w.d.letter),
         Open' => Fits(L, compose'.row, compose'.letter) /\ Fits(L, autoRow', compose'.letter)
  PROVE  Names(L)'
BY DEF Names, TableFits, MailFits, Fits

(* A step that moves nothing of the letters keeps the base. *)
LEMMA IdlesBase ==
  ASSUME TypeOK, Boxed, NEW L \in [Nat -> Nat], Names(L), Idles
  PROVE  Boxed' /\ Named'
<1>1. /\ Saves' = Saves /\ Strips' = Strips /\ Sendings' = Sendings /\ (Open' <=> Open) /\ (Saving' <=> Saving)
      /\ RowOf(compose)' = RowOf(compose)
  BY MailSame DEF Idles, Sendings, Open, RowOf
<1>2. Boxed'
  BY <1>1 DEF Boxed, Idles
<1>3. Names(L)'
  BY <1>1, NamesAre DEF Idles, Names, table
<1> QED
  BY <1>2, <1>3 DEF Named

(* One more that waits keeps the base. *)
LEMMA WaitsBase ==
  ASSUME TypeOK, Boxed, NEW L \in [Nat -> Nat], Names(L), NEW w \in Waiters(latest, lastRow), Waits(w)
  PROVE  Boxed' /\ Named'
<1>1. /\ Saves' = Saves /\ Strips' = Strips /\ Sendings' = Sendings /\ (Open' <=> Open) /\ Saving'
      /\ RowOf(compose)' = RowOf(compose)
  BY MailSame DEF Waits, Sendings, Open, RowOf, box
<1>2. Boxed'
  BY <1>1 DEF Boxed, Waits, box
<1>3. Names(L)'
  BY <1>1, NamesAre DEF Waits, Names, table, box
<1> QED
  BY <1>2, <1>3 DEF Named

(* A box that closes keeps the base. *)
LEMMA ClosesBase ==
  ASSUME TypeOK, Boxed, NEW L \in [Nat -> Nat], Names(L), NEW d \in LetterBox(latest, lastRow), NEW keep \in BOOLEAN,
         Closes(d, keep)
  PROVE  Boxed' /\ Named'
<1>1. ~Open'
  BY DEF Closes, NoneOpen, Open, NoBox
<1>2. Enders' \subseteq Enders /\ ((Open /\ d = compose) \/ \E w \in Enders : w.d = d)
  <2>1. CASE Now(d)
    BY <2>1, NowIs DEF Now
  <2>2. CASE \E w \in Waiters(latest, lastRow) : Later(w) /\ w.kind = "close" /\ w.d = d /\ w.keep = keep
    BY <2>2, LaterIs
  <2> QED
    BY <2>1, <2>2 DEF Closes
<1>3. PICK K \in [Nat -> Nat] : Names(K) /\ TableFits(K, rows') /\ MailFits(K, Mail')
  BY <1>2, RowFits, KeepNames DEF Closes
<1>4. Names(K)'
  BY <1>1, <1>2, <1>3, NamesAre DEF Closes, Names
<1> QED
  BY <1>1, <1>4 DEF Named, Boxed

(* A box that collapses into its strip keeps the base. *)
LEMMA CollapsesBase ==
  ASSUME TypeOK, Boxed, NEW L \in [Nat -> Nat], Names(L), NEW d \in LetterBox(latest, lastRow), Collapses(d)
  PROVE  Boxed' /\ Named'
<1> DEFINE e == Call("strip", Text(d), SavedRow(RowOf(d)))
<1>0. latest \in Seq(Nat) /\ lastRow \in Nat /\ Typed(latest, lastRow)
  BY Held0
<1>1. e.kind = "strip" /\ e.text = Text(d) /\ e.row = SavedRow(RowOf(d)) /\ Mail' = Mail \cup {e}
  BY DEF Collapses, Call
<1> HIDE DEF e
<1>2. /\ Saves' = Saves /\ Strips' = Strips \cup {e} /\ Sendings' = Sendings /\ (Open' <=> Open)
      /\ RowOf(compose)' = RowOf(compose) /\ ~Saving /\ Saves = {}
  BY <1>1, MailAdds, Seen DEF Collapses, Sendings, Open, RowOf, Now, Later
<1>3. e.text.letter = d.letter
  BY <1>1 DEF Text
<1>4. /\ Enders' \subseteq Enders /\ ((Open /\ d = compose) \/ \E w \in Enders : w.d = d)
      /\ (Open => /\ d.letter = compose.letter
                  /\ (RowOf(compose) # 0 => e.row = RowOf(compose))
                  /\ (Strips = {} \/ RowOf(compose) # 0))
  <2>1. CASE Now(d) /\ ~collapsed
    BY <1>1, <2>1, NowIs DEF Now, Boxed, SavedRow
  <2>2. ASSUME NEW w \in Waiters(latest, lastRow), Later(w), w.kind = "strip", w.d = d
        PROVE  /\ w \in Enders /\ Enders' \subseteq Enders
               /\ (Open => d.letter = compose.letter /\ RowOf(compose) # 0 /\ e.row = RowOf(compose))
    <3>1. w \in Enders /\ Enders' \subseteq Enders
      BY <2>2, LaterIs
    <3>2. Open => d.letter = compose.letter /\ RowOf(compose) # 0 /\ RowOf(d) = RowOf(compose)
      BY <1>2, <2>2, <3>1 DEF Boxed, RowOf
    <3> QED
      BY <1>1, <3>1, <3>2 DEF SavedRow
  <2> QED
    BY <2>1, <2>2 DEF Collapses, Now
<1>5. Boxed'
  <2> SUFFICES ASSUME Open PROVE Boxed'
    BY <1>2 DEF Boxed
  <2>1. /\ compose' = compose /\ collapsed' = TRUE
    BY DEF Collapses
  <2>2. \A c \in Strips \cup {e} : c.text.letter = compose.letter /\ (RowOf(compose) # 0 => c.row = RowOf(compose))
    BY <1>3, <1>4 DEF Boxed
  <2>3. \A b, c \in Strips \cup {e} : b.row = c.row
    BY <1>4, <2>2
  <2>4. \A w \in Enders' : w.d.letter = compose.letter /\ w.d.row = compose.row
    BY <1>4 DEF Boxed
  <2>5. Enders' # {} => RowOf(compose) # 0
    BY <1>2, <1>4 DEF Boxed
  <2> QED
    BY <1>2, <2>1, <2>2, <2>3, <2>4, <2>5 DEF Boxed
<1>6. RowOf(d) \in 0 .. lastRow
  BY <1>0, BoxIs
<1>7. Text(d) \in TextOf(latest) /\ Text(d).letter = d.letter
  <2>1. Written(d)
    BY DEF Collapses
  <2> QED
    BY <1>0, <2>1, TextIs
<1>8. SaveDraft(RowOf(d), Text(d)) /\ Fits(L, RowOf(d), d.letter)
  BY <1>4, RowFits DEF Collapses
<1>9. PICK K \in [Nat -> Nat] : Names(K) /\ TableFits(K, rows') /\ K[SavedRow(RowOf(d))] = d.letter
  BY <1>6, <1>7, <1>8, SaveNames
<1>10. MailFits(K, Mail')
  BY <1>1, <1>3, <1>9, MailMore DEF Names
<1>11. Names(K)'
  BY <1>2, <1>4, <1>9, <1>10, NamesAre DEF Collapses, Names
<1> QED
  BY <1>5, <1>11 DEF Named

(* An autosave keeps the base. *)
LEMMA WritesBase ==
  ASSUME TypeOK, Boxed, NEW L \in [Nat -> Nat], Names(L), Writes
  PROVE  Boxed' /\ Named'
<1> DEFINE e == Call("autosave", Text(compose), SavedRow(RowOf(compose)))
<1>0. latest \in Seq(Nat) /\ lastRow \in Nat /\ Typed(latest, lastRow)
  BY Held0
<1>1. e.kind = "autosave" /\ e.text = Text(compose) /\ e.row = SavedRow(RowOf(compose)) /\ Mail' = Mail \cup {e}
  BY DEF Writes, Call
<1> HIDE DEF e
<1>2. /\ Strips = {} /\ Saves = {} /\ Saves' = {e} /\ Strips' = {} /\ Sendings' = Sendings /\ Open /\ (Open' <=> Open)
      /\ RowOf(compose)' = RowOf(compose)
  BY <1>1, MailAdds, Seen DEF Writes, Sendings, Open, RowOf, Boxed
<1>3. e.text.letter = compose.letter /\ (RowOf(compose) # 0 => e.row = RowOf(compose))
  BY <1>1 DEF Text, SavedRow
<1>4. Saving'
  BY <1>2, SeenNext
<1>5. Boxed'
  BY <1>2, <1>3, <1>4 DEF Boxed, Writes
<1>6. RowOf(compose) \in 0 .. lastRow
  BY <1>0, BoxIs
<1>7. Text(compose) \in TextOf(latest) /\ Text(compose).letter = compose.letter
  <2>1. Written(compose) /\ compose \in LetterBox(latest, lastRow)
    BY DEF Writes
  <2>2. \A d \in LetterBox(latest, lastRow) :
          (Written(d) => Text(d) \in TextOf(latest)) /\ Text(d).letter = d.letter
    BY <1>0, TextIs
  <2> QED
    BY <2>1, <2>2
<1>8. SaveDraft(RowOf(compose), Text(compose)) /\ Fits(L, RowOf(compose), compose.letter)
  BY <1>2, RowFits DEF Writes
<1>9. PICK K \in [Nat -> Nat] : Names(K) /\ TableFits(K, rows') /\ K[SavedRow(RowOf(compose))] = compose.letter
  BY <1>6, <1>7, <1>8, SaveNames
<1>10. MailFits(K, Mail')
  BY <1>1, <1>3, <1>9, MailMore DEF Names
<1>11. Names(K)'
  BY <1>2, <1>9, <1>10, NamesAre DEF Writes, Names
<1> QED
  BY <1>5, <1>11 DEF Named

(* A message handed to the queue keeps the base. *)
LEMMA PostsBase ==
  ASSUME TypeOK, Boxed, NEW L \in [Nat -> Nat], Names(L), NEW d \in LetterBox(latest, lastRow), Posts(d)
  PROVE  Boxed' /\ Named'
<1> DEFINE s == [kind |-> "send", text |-> Text(d), row |-> RowOf(d)]
<1>1. /\ s.text.letter = d.letter /\ s.row = RowOf(d) /\ slow' = slow \cup {s} /\ DeleteRow(RowOf(d)) /\ s.kind = "send"
      /\ Mail' = Mail
  BY DEF Posts, Post, Detach, Text
<1> HIDE DEF s
<1>2. /\ Saves' = Saves /\ Strips' = Strips /\ Sendings' = Sendings \cup {s} /\ (Open' <=> Open) /\ (Saving' <=> Saving)
      /\ RowOf(compose)' = RowOf(compose)
  BY <1>1, MailSame DEF Posts, Sendings, Open, RowOf, box
<1>3. /\ Enders' \subseteq Enders /\ ((Open /\ d = compose) \/ \E w \in Enders : w.d = d)
  <2>1. CASE Now(d)
    BY <2>1, NowIs DEF Now
  <2>2. CASE \E w \in Waiters(latest, lastRow) : Later(w) /\ w.kind = "send" /\ w.d = d
    BY <2>2, LaterIs
  <2> QED
    BY <2>1, <2>2 DEF Posts
<1>4. Boxed'
  BY <1>1, <1>2, <1>3 DEF Boxed, Posts, box
<1>5. Fits(L, RowOf(d), d.letter)
  BY <1>3, RowFits
<1>6. TableFits(L, rows')
  BY <1>1, DeleteNames DEF Names
<1>7. Names(L)'
  BY <1>1, <1>2, <1>3, <1>5, <1>6, NamesAre DEF Posts, box, Names
<1> QED
  BY <1>4, <1>7 DEF Named

(* A box that is replaced saves or deletes its row, and nothing of it      *)
(* waits.                                                                  *)
LEMMA ParksMail ==
  ASSUME Parks, Saves = {}, Strips = {}
  PROVE  Saves' = {} /\ Strips' = {} /\ waiting' = waiting
<1>1. CASE Mail' = Mail /\ UNCHANGED waiting
  BY <1>1, MailSame
<1>2. CASE KeepRow(compose, TRUE) /\ UNCHANGED waiting
  <2>1. CASE Mail' = Mail
    BY <1>2, <2>1, MailSame
  <2>2. ASSUME NEW e, Mail' = Mail \cup {e}, e.kind \in {"keep", "delete"} PROVE Saves' = {} /\ Strips' = {}
    BY <2>2, MailAdds
  <2> QED
    BY <1>2, <2>1, <2>2 DEF KeepRow, Call
<1> QED
  BY <1>1, <1>2 DEF Parks

(* A new box keeps the base. *)
LEMMA StartsBase ==
  ASSUME TypeOK, Boxed, NEW L \in [Nat -> Nat], Names(L), NEW place, Starts(place)
  PROVE  Boxed' /\ Named'
<1>1. Saves = {} /\ Strips = {} /\ Enders = {} /\ Sendings = {} /\ Parks
  BY Seen DEF Starts
<1>2. Saves' = {} /\ Strips' = {} /\ Enders' = {} /\ Sendings' = {}
  BY <1>1, ParksMail DEF Enders, Sendings, Starts
<1>3. Boxed'
  BY <1>2 DEF Boxed
<1>4. PICK K \in [Nat -> Nat] : Names(K) /\ TableFits(K, rows') /\ MailFits(K, Mail')
  BY <1>1, ParksNames
<1>5. autoRow' = 0 /\ compose'.row = 0
  BY DEF Starts, SetBox, NoBox
<1>6. Names(K)'
  BY <1>2, <1>4, <1>5, NamesAre DEF Starts, Names, Fits
<1> QED
  BY <1>3, <1>6 DEF Named

(* A draft that is opened keeps the base. *)
LEMMA ReopensBase ==
  ASSUME TypeOK, Boxed, NEW L \in [Nat -> Nat], Names(L), NEW t, NEW r, Reopens(t, r)
  PROVE  Boxed' /\ Named'
<1>1. Saves = {} /\ Strips = {} /\ Enders = {} /\ Sendings = {} /\ Parks
  BY Seen DEF Reopens
<1>2. Saves' = {} /\ Strips' = {} /\ Enders' = {} /\ Sendings' = {}
  BY <1>1, ParksMail DEF Enders, Reopens
<1>3. Boxed'
  BY <1>2 DEF Boxed
<1>4. PICK K \in [Nat -> Nat] : Names(K) /\ TableFits(K, rows') /\ MailFits(K, Mail')
  BY <1>1, ParksNames
<1>5. autoRow' = 0 /\ compose'.row = r /\ compose'.letter = t.letter
  BY DEF Reopens, SetBox
<1>6. Fits(K, r, t.letter)
  BY <1>4 DEF Reopens, Names, Fits, TableFits
<1>7. slow' \subseteq slow /\ drafts' = drafts
  BY DEF Reopens
<1>8. Fits(K, autoRow', compose'.letter)
  BY <1>5 DEF Fits
<1>9. Names(K)'
  BY <1>2, <1>4, <1>5, <1>6, <1>7, <1>8, NamesAre DEF Names
<1> QED
  BY <1>3, <1>9 DEF Named

(* A message the queue took keeps the base. *)
LEMMA LeavesBase ==
  ASSUME TypeOK, Boxed, NEW L \in [Nat -> Nat], Names(L), NEW c, Leaves(c)
  PROVE  Boxed' /\ Named'
<1>1. ~Open' /\ Enders' = Enders
  BY DEF Leaves, NoneOpen, Open, NoBox, Enders
<1>2. MailFits(L, Mail')
  BY MailMore DEF Leaves, List, Names
<1>3. Names(L)'
  BY <1>1, <1>2, NamesAre DEF Leaves, Names, table
<1> QED
  BY <1>1, <1>3 DEF Named, Boxed

(* A message the queue refused keeps the base. *)
LEMMA RefusesBase ==
  ASSUME TypeOK, Boxed, NEW L \in [Nat -> Nat], Names(L), NEW c, Refuses(c)
  PROVE  Boxed' /\ Named'
<1>1. /\ Saves' = Saves /\ Strips' = Strips /\ Sendings' \subseteq Sendings /\ (Open' <=> Open) /\ (Saving' <=> Saving)
      /\ RowOf(compose)' = RowOf(compose) /\ Enders' = Enders /\ Mail' = Mail
  <2>1. Mail' = Mail /\ Enders' = Enders
    BY DEF Refuses, Mail, MailOf, Enders
  <2> QED
    BY <2>1, MailSame DEF Refuses, Sendings, Open, RowOf, box
<1>2. Boxed'
  BY <1>1 DEF Boxed, Refuses, box
<1>3. Names(L)'
  BY <1>1, NamesAre DEF Refuses, Names, table, box
<1> QED
  BY <1>2, <1>3 DEF Named

(* An undo keeps the base. *)
LEMMA ReturnsBase ==
  ASSUME TypeOK, Boxed, NEW L \in [Nat -> Nat], Names(L), NEW i, Returns(i)
  PROVE  Boxed' /\ Named'
<1> DEFINE e == List(rows')
           u == [kind |-> "undo", text |-> sends[i].text, row |-> lastRow']
<1>0. 0 \in 0 .. lastRow
  BY Held0
<1>1. /\ e.kind = "list" /\ e.list = rows' /\ Mail' = Mail \cup {e}
      /\ u.kind = "undo" /\ u.text = sends[i].text /\ u.row = lastRow' /\ slow' = slow \cup {u}
  BY DEF Returns, List
<1> HIDE DEF e, u
<1>2. /\ Saves' = Saves /\ Strips' = Strips /\ Sendings' = Sendings /\ (Open' <=> Open) /\ (Saving' <=> Saving)
      /\ RowOf(compose)' = RowOf(compose) /\ Enders' = Enders
  <2>1. Saves' = Saves /\ Strips' = Strips
    BY <1>1, MailAdds
  <2> QED
    BY <1>1, <2>1, Seen, SeenNext DEF Returns, Sendings, Open, RowOf, box, Enders
<1>3. Boxed'
  BY <1>2 DEF Boxed, Returns, box
<1>4. PICK K \in [Nat -> Nat] : Names(K) /\ TableFits(K, rows') /\ K[SavedRow(0)] = sends[i].text.letter
  <2>1. sends[i].text \in TextOf(latest) /\ SaveDraft(0, sends[i].text) /\ Fits(L, 0, sends[i].text.letter)
    BY DEF Returns, Fits
  <2> QED
    BY <1>0, <2>1, SaveNames
<1>5. lastRow' = SavedRow(0)
  BY DEF Returns, SaveDraft, SavedRow
<1>6. MailFits(K, Mail')
  BY <1>1, <1>4, MailMore DEF Names
<1>7. Fits(K, u.row, u.text.letter)
  BY <1>1, <1>4, <1>5 DEF Fits
<1>8. Names(K)'
  BY <1>1, <1>2, <1>4, <1>6, <1>7, NamesAre DEF Returns, Names, box
<1> QED
  BY <1>3, <1>8 DEF Named

(* Typing keeps the base. *)
LEMMA TypeBase ==
  ASSUME TypeOK, Boxed, NEW L \in [Nat -> Nat], Names(L), Type
  PROVE  Boxed' /\ Named'
<1>0. compose \in LetterBox(latest, lastRow)
  BY Held0 DEF Type
<1>1. compose'.letter = compose.letter /\ compose'.row = compose.row
  BY <1>0 DEF Type, LetterBox
<1>2. /\ Mail' = Mail /\ Enders' = Enders /\ slow' = slow /\ autoRow' = autoRow /\ fresh' = fresh /\ collapsed' = collapsed
      /\ rows' = rows /\ drafts' = drafts
  BY DEF Type, lines, table, Mail, MailOf, Enders
<1>3. /\ Saves' = Saves /\ Strips' = Strips /\ Sendings' = Sendings /\ (Open' <=> Open) /\ (Saving' <=> Saving)
      /\ RowOf(compose)' = RowOf(compose)
  BY <1>1, <1>2, MailSame DEF Sendings, Open, RowOf
<1>4. Boxed'
  BY <1>1, <1>2, <1>3 DEF Boxed
<1>5. Names(L)'
  BY <1>1, <1>2, <1>3, NamesAre DEF Names
<1> QED
  BY <1>4, <1>5 DEF Named

(* A step that leaves the box alone and adds an answer of no concern.      *)
LEMMA AsideBase ==
  ASSUME TypeOK, Boxed, NEW L \in [Nat -> Nat], Names(L), TableFits(L, rows'), NEW e, Mail' = Mail \cup {e},
         e.kind = "delete" \/ (e.kind = "list" /\ e.list = rows'), UNCHANGED <<box, drafts, waiting, slow>>
  PROVE  Boxed' /\ Named'
<1>1. /\ Saves' = Saves /\ Strips' = Strips /\ Sendings' = Sendings /\ (Open' <=> Open) /\ (Saving' <=> Saving)
      /\ RowOf(compose)' = RowOf(compose) /\ Enders' = Enders
  <2>1. Saves' = Saves /\ Strips' = Strips
    BY MailAdds
  <2> QED
    BY <2>1, Seen, SeenNext DEF Sendings, Open, RowOf, box, Enders
<1>2. Boxed'
  BY <1>1 DEF Boxed, box
<1>3. MailFits(L, Mail')
  BY MailMore DEF Names
<1>4. Names(L)'
  BY <1>1, <1>3, NamesAre DEF Names, box
<1> QED
  BY <1>2, <1>4 DEF Named

(* What happens to a row elsewhere keeps the base. *)
LEMMA TableBase ==
  ASSUME TypeOK, Boxed, NEW L \in [Nat -> Nat], Names(L), NEW r \in DOMAIN rows, Edits(r) \/ Goes(r)
  PROVE  Boxed' /\ Named'
<1>1. CASE Edits(r)
  <2>1. \A q \in DOMAIN rows : rows[q].letter = L[q]
    BY DEF Names, TableFits
  <2>2. TableFits(L, rows')
    BY <1>1, <2>1 DEF TableFits, Edits
  <2>3. Mail' = Mail \cup {List(rows')} /\ UNCHANGED <<box, drafts, waiting, slow>>
    BY <1>1 DEF Edits
  <2> QED
    BY <2>2, <2>3, AsideBase DEF List
<1>2. CASE Goes(r)
  <2>1. TableFits(L, rows')
    BY <1>2, DeleteNames DEF Names, Goes
  <2>2. Mail' = Mail \cup {Call("delete", NoText, r)} /\ UNCHANGED <<box, drafts, waiting, slow>>
    BY <1>2 DEF Goes
  <2> QED
    BY <2>1, <2>2, AsideBase DEF Call
<1> QED
  BY <1>1, <1>2

(* An answer of the store keeps the base. *)
LEMMA HearsBase ==
  ASSUME TypeOK, Boxed, NEW L \in [Nat -> Nat], Names(L),
         NEW c \in Calls(latest, lastRow), NEW M \in SUBSET Calls(latest, lastRow), Hears(c, M)
  PROVE  Boxed' /\ Named'
<1>0. /\ Mail = M \cup {c} /\ (c \in Saves => \A e \in M : e.kind # "autosave") /\ Quiet
      /\ UNCHANGED <<waiting, slow, table, sends, letters, latest, dock, collapsed>>
  BY DEF Hears
<1>1. Enders' = Enders /\ Sendings' = Sendings /\ rows' = rows /\ slow' = slow
  BY <1>0 DEF Enders, Sendings, table
<1>2. /\ MailFits(L, M) /\ MailFits(L, M \cup {List(rows)})
  BY <1>0, MailMore DEF Names, MailFits, List
<1>3. /\ Saves = {e \in M \cup {c} : e.kind = "autosave"} /\ Strips = {e \in M \cup {c} : e.kind = "strip"}
      /\ Mail' \in {M, M \cup {List(rows)}} =>
           Saves' = {e \in M : e.kind = "autosave"} /\ Strips' = {e \in M : e.kind = "strip"}
  BY <1>0 DEF Saves, Strips, List
<1>4. CASE c.kind = "autosave"
  <2>1. /\ autoRow' = (IF Mine THEN c.row ELSE autoRow) /\ Mail' = M \cup {List(rows)}
        /\ UNCHANGED <<compose, drafts>>
    BY <1>4 DEF Hears
  <2>2. c \in Saves /\ c \in Mail /\ c.row # 0
    BY <1>0, <1>3, <1>4 DEF Calls
  <2>3. Saves' = {} /\ Strips' \subseteq Strips /\ (Open' <=> Open)
    BY <1>0, <1>3, <2>1, <2>2 DEF Open
  <2>4. Open => Strips' = {} /\ c.text.letter = compose.letter /\ autoRow' = c.row /\ RowOf(compose)' # 0
    BY <2>1, <2>2, <2>3 DEF Boxed, Mine, RowOf, Or
  <2>5. Boxed'
    BY <1>1, <2>1, <2>3, <2>4 DEF Boxed
  <2>6. Open => Fits(L, autoRow', compose.letter)
    BY <1>4, <2>2, <2>4 DEF Names, MailFits, Fits
  <2>7. Names(L)'
    BY <1>1, <1>2, <2>1, <2>3, <2>6, NamesAre DEF Names
  <2> QED
    BY <2>5, <2>7 DEF Named
<1>5. CASE c.kind \in {"keep", "delete"}
  <2>1. Mail' = M \cup {List(rows)} /\ UNCHANGED <<compose, autoRow, saved, fresh, drafts>>
    BY <1>5 DEF Hears
  <2>2. /\ Saves' = Saves /\ Strips' = Strips /\ (Open' <=> Open) /\ (Saving' <=> Saving) /\ RowOf(compose)' = RowOf(compose)
    BY <1>3, <1>5, <2>1, Seen, SeenNext DEF Open, RowOf
  <2>3. Boxed'
    BY <1>0, <1>1, <2>1, <2>2 DEF Boxed
  <2>4. Names(L)'
    BY <1>1, <1>2, <2>1, <2>2, NamesAre DEF Names
  <2> QED
    BY <2>3, <2>4 DEF Named
<1>6. CASE c.kind = "strip"
  <2>1. /\ IF Open /\ letters[compose.letter] = letters[c.text.letter]
           THEN compose' = [compose EXCEPT !.row = c.row] /\ autoRow' = 0
           ELSE UNCHANGED <<compose, autoRow>>
        /\ Mail' = M \cup {List(rows)} /\ UNCHANGED <<fresh, drafts>>
    BY <1>6 DEF Hears
  <2>2. c \in Strips /\ c \in Mail /\ c.row # 0
    BY <1>0, <1>3, <1>6 DEF Calls
  <2>3. Strips' \subseteq Strips /\ Saves' = Saves
    BY <1>3, <1>6, <2>1
  <2>4. ASSUME Open
        PROVE  /\ compose'.row = c.row /\ compose'.letter = compose.letter /\ autoRow' = 0 /\ RowOf(compose)' = c.row
               /\ c.text.letter = compose.letter /\ Saves = {} /\ Enders = {} /\ collapsed
    <3>1. c.text.letter = compose.letter /\ Saves = {} /\ collapsed
      BY <2>2, <2>4 DEF Boxed
    <3>2. compose' = [compose EXCEPT !.row = c.row] /\ autoRow' = 0
      BY <2>1, <2>4, <3>1
    <3>3. compose \in LetterBox(latest, lastRow)
      BY <2>4, Held0
    <3>4. compose'.row = c.row /\ compose'.letter = compose.letter
      BY <3>2, <3>3 DEF LetterBox
    <3>5. Enders = {}
      BY <1>0, <3>1, Seen DEF Quiet, Enders, Range
    <3> QED
      BY <2>2, <3>1, <3>2, <3>4, <3>5 DEF RowOf, Or
  <2>5. ~Open => ~Open'
    BY <2>1 DEF Open
  <2>6. Open => \A e \in Strips' : e.text.letter = compose.letter /\ e.row = c.row
    BY <2>2, <2>3 DEF Boxed
  <2>7. Boxed'
    BY <1>0, <1>1, <2>3, <2>4, <2>5, <2>6 DEF Boxed
  <2>8. L[c.row] = c.text.letter
    BY <1>6, <2>2 DEF Names, MailFits
  <2>9. Names(L)'
    BY <1>1, <1>2, <2>1, <2>4, <2>5, <2>8, NamesAre DEF Names, Fits
  <2> QED
    BY <2>7, <2>9 DEF Named
<1>7. CASE c.kind = "list"
  <2>1. Mail' = M /\ drafts' = c.list /\ UNCHANGED <<autoRow, fresh>>
    BY <1>7 DEF Hears
  <2>2. TableFits(L, drafts')
    BY <1>0, <1>7, <2>1 DEF Names, MailFits
  <2>3. compose'.letter = compose.letter /\ compose'.row = compose.row
    <3>1. CASE compose' = compose
      BY <3>1
    <3>2. CASE ChangedElsewhere(c.list) /\ compose' = [compose EXCEPT !.letter = c.list[RowOf(compose)].letter, !.version = c.list[RowOf(compose)].version]
      <4>1. Open /\ RowOf(compose) # 0 /\ RowOf(compose) \in DOMAIN c.list
        BY <3>2 DEF ChangedElsewhere
      <4>2. c.list[RowOf(compose)].letter = compose.letter
        BY <2>1, <2>2, <4>1, RowFits DEF TableFits, Fits
      <4>3. compose \in LetterBox(latest, lastRow)
        BY <4>1, Held0
      <4> QED
        BY <3>2, <4>2, <4>3 DEF LetterBox
    <3> QED
      BY <1>7, <3>1, <3>2 DEF Hears
  <2>4. /\ Saves' = Saves /\ Strips' = Strips /\ (Open' <=> Open) /\ (Saving' <=> Saving) /\ RowOf(compose)' = RowOf(compose)
    BY <1>3, <1>7, <2>1, <2>3, Seen, SeenNext DEF Open, RowOf
  <2>5. Boxed'
    BY <1>0, <1>1, <2>1, <2>3, <2>4 DEF Boxed
  <2>6. Names(L)'
    BY <1>1, <1>2, <2>1, <2>2, <2>3, <2>4, NamesAre DEF Names
  <2> QED
    BY <2>5, <2>6 DEF Named
<1> QED
  BY <1>4, <1>5, <1>6, <1>7 DEF Hears

(* Nothing is on its way at first. *)
LEMMA InitBase == Init => Base
<1> SUFFICES ASSUME Init PROVE Boxed /\ Named
  BY DEF Base
<1>1. ~Open /\ Mail = {} /\ Enders = {} /\ slow = {} /\ DOMAIN rows = {} /\ DOMAIN drafts = {}
  BY DEF Init, Open, NoBox, Mail, MailOf, Enders, Range
<1>2. [r \in Nat |-> 0] \in [Nat -> Nat]
  OBVIOUS
<1>3. Names([r \in Nat |-> 0])
  BY <1>1 DEF Names, TableFits, MailFits
<1> QED
  BY <1>1, <1>2, <1>3 DEF Boxed, Named

(* A calm state comes from a calm one. *)
LEMMA CalmBefore == Calm' /\ [Next]_vars => Calm
<1>1. Next => slips \subseteq slips'
  BY SlipsGrow
<1> QED
  BY <1>1 DEF Calm, Happened, vars

(* Every step keeps the base. *)
LEMMA StepBase == TypeOK /\ Base /\ [Next]_vars => Base'
<1> SUFFICES ASSUME TypeOK, Base, [Next]_vars, Calm' PROVE Boxed' /\ Named'
  BY DEF Base
<1>0. Calm /\ Boxed /\ Named
  BY CalmBefore DEF Base
<1>1. PICK L \in [Nat -> Nat] : Names(L)
  BY <1>0 DEF Named
<1>2. CASE UNCHANGED vars
  <2>1. Mail' = Mail /\ Enders' = Enders
    BY <1>2 DEF vars, lines, Mail, MailOf, Enders
  <2>2. Idles
    <3>1. timer' \in {timer, FALSE} /\ collapsed' = collapsed
      BY <1>2 DEF vars, box
    <3> QED
      BY <1>2, <2>1, <3>1 DEF Idles, vars, box, lines, table, history
  <2> QED
    BY <1>0, <1>1, <2>2, IdlesBase
<1>3. CASE Next
  <2>1. Kinds
    BY <1>3, Steps
  <2> QED
    BY <1>0, <1>1, <2>1, IdlesBase, WaitsBase, ClosesBase, CollapsesBase, WritesBase, PostsBase, StartsBase, ReopensBase,
       LeavesBase, RefusesBase, ReturnsBase, TypeBase, TableBase, HearsBase DEF Kinds
<1> QED
  BY <1>2, <1>3

(* Base holds. *)
THEOREM ComposerBase == Spec => []Base
<1>1. TypeOK /\ TypeOK' /\ Base /\ [Next]_vars => Base'
  BY StepBase
<1> QED
  BY InitBase, ComposerTypes, <1>1, PTL DEF Spec

(* A save on a row writes the letter of the row. *)
LEMMA SavedStays ==
  ASSUME NEW L, TableFits(L, rows), NEW r, NEW t, Fits(L, r, t.letter), SaveDraft(r, t), TypeOK
  PROVE  \A q \in DOMAIN rows \cap DOMAIN rows' : rows'[q].letter = rows[q].letter
<1>1. \A q \in DOMAIN rows : q # lastRow + 1
  BY Held0, RowIs
<1>2. CASE r = 0
  BY <1>1, <1>2 DEF SaveDraft, With
<1>3. CASE r # 0
  BY <1>3 DEF SaveDraft, TableFits, Fits
<1> QED
  BY <1>2, <1>3

(* A row that goes leaves the others as they are. *)
LEMMA DeletedStays ==
  ASSUME NEW r, DeleteRow(r)
  PROVE  \A q \in DOMAIN rows \cap DOMAIN rows' : rows'[q].letter = rows[q].letter
BY DEF DeleteRow, Without, Restrict

(* What a slip does to the table: at most what the box itself does to it.  *)
Touches ==
  \/ UNCHANGED rows
  \/ Open /\ SaveDraft(RowOf(compose), Text(compose))
  \/ DeleteRow(RowOf(compose))

(* A close writes the row of the box or none. *)
LEMMA ClosingTouches ==
  ASSUME NEW keep, NEW cs, Open, Closing(keep, cs)
  PROVE  Touches
BY DEF Closing, Keep, Touches, table

(* So does a box that is parked. *)
LEMMA ParkTouches == Park => Touches
BY ClosingTouches DEF Park, Touches, table

(* A step writes the row of the open box or none, or has only slips that   *)
(* do not matter here.                                                     *)
LEMMA Slipping ==
  Next => Touches \/ slips' \subseteq slips \cup {"typed", "again", "gone", "adopted", "refused"}
<1> SUFFICES ASSUME Next, ~(slips' \subseteq slips \cup {"typed", "again", "gone", "adopted", "refused"}) PROVE Touches
  OBVIOUS
<1>1. ASSUME NEW keep, Close(keep) PROVE Touches
  BY <1>1, ClosingTouches DEF Close
<1>2. Dismiss => slips' \subseteq slips \cup {"again"}
  BY DEF Dismiss, Slip, When
<1>3. Expand => Touches
  BY DEF Expand, Touches, table
<1>4. NewMessage => Touches
  BY ParkTouches DEF NewMessage, OpenNew
<1>5. ASSUME NEW t, NEW r, OpenDraft(t, r) PROVE Touches
  BY <1>5, ParkTouches DEF OpenDraft, Touches, table
<1>6. Reply => Touches
  BY <1>5, ParkTouches DEF Reply, OpenNew
<1>7. ASSUME NEW r, FromList(r) PROVE Touches
  BY <1>5, <1>7 DEF FromList
<1>8. ASSUME NEW t, Ask(t) PROVE Touches
  BY <1>8 DEF Ask, Touches, table
<1>9. ASSUME NEW t, NEW cs, Show(t, cs) PROVE Touches
  <2>1. Open \/ UNCHANGED table
    BY <1>9 DEF Show
  <2> QED
    BY <1>9, <2>1, ClosingTouches DEF Show, Touches, table
<1>10. CloseThread \/ ThreadLands => Touches
  BY <1>9 DEF CloseThread, ThreadLands
<1>11. Type => slips' \subseteq slips \cup {"typed"}
  BY DEF Type, Slip, When
<1>12. AutosaveFires \/ Resume => slips' = slips
  BY DEF AutosaveFires, Resume
<1>13. Send => Touches
  BY DEF Send, Post, Detach, Touches, table
<1>14. ASSUME NEW c, Sent(c) \/ Refused(c) PROVE slips' \subseteq slips \cup {"refused"}
  BY <1>14 DEF Sent, Refused, Slip, When
<1>15. ASSUME NEW c, Undone(c) PROVE Touches
  BY <1>5, <1>15 DEF Undone
<1>16. ASSUME NEW i, Undo(i) PROVE slips' = slips
  BY <1>16 DEF Undo
<1>17. Lands => slips' \subseteq slips \cup {"adopted"}
  BY DEF Lands, AutosaveLands, KeepLands, StripLands, DeleteLands, ListLands, Slip, When
<1>18. ASSUME NEW r, GmailEdits(r) \/ RowGoes(r) PROVE slips' \subseteq slips \cup {"gone"}
  BY <1>18 DEF GmailEdits, RowGoes, Slip, When
<1> QED
  BY <1>1, <1>2, <1>3, <1>4, <1>6, <1>7, <1>8, <1>10, <1>11, <1>12, <1>13, <1>14, <1>15, <1>16, <1>17, <1>18 DEF Next

(* The letters of the rows that are there before and after.                *)
Stay == \A r \in DOMAIN rows \cap DOMAIN rows' : rows'[r].letter = rows[r].letter

(* A row that the open box writes was of its letter. *)
LEMMA TouchesStay == TypeOK /\ Boxed /\ Named /\ Touches => Stay
<1> SUFFICES ASSUME TypeOK, Boxed, Named, Touches PROVE Stay
  OBVIOUS
<1>1. PICK L \in [Nat -> Nat] : Names(L)
  BY DEF Named
<1>2. CASE Open /\ SaveDraft(RowOf(compose), Text(compose))
  <2>1. Text(compose).letter = compose.letter /\ Fits(L, RowOf(compose), compose.letter) /\ TableFits(L, rows)
    BY <1>1, <1>2, RowFits DEF Text, Names
  <2> QED
    BY <1>2, <2>1, SavedStays DEF Stay
<1>3. CASE DeleteRow(RowOf(compose))
  BY <1>3, DeletedStays DEF Stay
<1> QED
  BY <1>2, <1>3 DEF Touches, Stay

(* So was one that a closed box writes. *)
LEMMA KeepStay ==
  ASSUME TypeOK, Boxed, NEW L \in [Nat -> Nat], Names(L), NEW d, NEW keep, KeepRow(d, keep),
         (Open /\ d = compose) \/ \E w \in Enders : w.d = d
  PROVE  Stay
<1>1. Text(d).letter = d.letter /\ Fits(L, RowOf(d), d.letter) /\ TableFits(L, rows)
  BY RowFits DEF Text, Names
<1> QED
  BY <1>1, SavedStays, DeletedStays DEF KeepRow, Stay

(* No step of any kind changes the letter of a row. *)
LEMMA KindStay == TypeOK /\ Boxed /\ Named /\ Kinds => Stay
<1> SUFFICES ASSUME TypeOK, Boxed, Named, Kinds PROVE Stay
  OBVIOUS
<1>1. PICK L \in [Nat -> Nat] : Names(L)
  BY DEF Named
<1>a. UNCHANGED rows => Stay
  BY DEF Stay
<1>b. ASSUME NEW d, SaveDraft(RowOf(d), Text(d)), (Open /\ d = compose) \/ \E w \in Enders : w.d = d PROVE Stay
  <2>1. Text(d).letter = d.letter /\ Fits(L, RowOf(d), d.letter) /\ TableFits(L, rows)
    BY <1>1, <1>b, RowFits DEF Text, Names
  <2> QED
    BY <1>b, <2>1, SavedStays DEF Stay
<1>2. Idles => UNCHANGED rows
  BY DEF Idles, table
<1>3. ASSUME NEW w, Waits(w) PROVE UNCHANGED rows
  BY <1>3 DEF Waits, table
<1>4. ASSUME NEW d, NEW keep, Closes(d, keep) PROVE Stay
  <2>1. (Open /\ d = compose) \/ \E w \in Enders : w.d = d
    BY <1>4, LaterIs DEF Closes, Now
  <2> QED
    BY <1>1, <1>4, <2>1, KeepStay DEF Closes
<1>5. ASSUME NEW d, Collapses(d) PROVE Stay
  <2>1. (Open /\ d = compose) \/ \E w \in Enders : w.d = d
    BY <1>5, LaterIs DEF Collapses, Now
  <2> QED
    BY <1>5, <1>b, <2>1 DEF Collapses
<1>6. ASSUME NEW d, Posts(d) PROVE Stay
  BY <1>6, DeletedStays DEF Posts, Post, Detach, Stay
<1>7. Writes => Stay
  BY <1>b DEF Writes
<1>8. Type => UNCHANGED rows
  BY DEF Type, table
<1>9. Parks => Stay
  BY <1>1, <1>a, KeepStay DEF Parks, table
<1>10. ASSUME NEW place, Starts(place) PROVE Stay
  BY <1>9, <1>10 DEF Starts
<1>11. ASSUME NEW t, NEW r, Reopens(t, r) PROVE Stay
  BY <1>9, <1>11 DEF Reopens
<1>12. ASSUME NEW c, Leaves(c) \/ Refuses(c) PROVE UNCHANGED rows
  BY <1>12 DEF Leaves, Refuses, table
<1>13. ASSUME NEW i, Returns(i) PROVE Stay
  <2>1. SaveDraft(0, sends[i].text) /\ Fits(L, 0, sends[i].text.letter) /\ TableFits(L, rows)
    BY <1>1, <1>13 DEF Returns, Fits, Names
  <2> QED
    BY <2>1, SavedStays DEF Stay
<1>14. ASSUME NEW c, NEW M, Hears(c, M) PROVE UNCHANGED rows
  BY <1>14 DEF Hears, table
<1>15. ASSUME NEW r \in DOMAIN rows, Edits(r) \/ Goes(r) PROVE Stay
  <2>1. CASE Edits(r)
    BY <2>1 DEF Edits, Stay
  <2>2. CASE Goes(r)
    BY <2>2, DeletedStays DEF Goes, Stay
  <2> QED
    BY <1>15, <2>1, <2>2
<1> QED
  BY <1>a, <1>2, <1>3, <1>4, <1>5, <1>6, <1>7, <1>8, <1>10, <1>11, <1>12, <1>13, <1>14, <1>15 DEF Kinds

(* No step changes the letter of a row but after a slip. *)
LEMMA StepStay == TypeOK /\ Base /\ [Next]_vars => Stay \/ Happened({"opened", "strip"})
<1> SUFFICES ASSUME TypeOK, Base, [Next]_vars, Calm PROVE Stay
  BY DEF Calm
<1>0. Boxed /\ Named
  BY DEF Base
<1>1. CASE UNCHANGED vars
  BY <1>1 DEF vars, table, Stay
<1>2. CASE Next /\ Calm'
  BY <1>0, <1>2, Steps, KindStay
<1>3. CASE Next /\ ~Calm'
  <2>1. ~(slips' \subseteq slips \cup {"typed", "again", "gone", "adopted", "refused"})
    BY <1>3 DEF Calm, Happened
  <2> QED
    BY <1>0, <1>3, <2>1, Slipping, TouchesStay
<1> QED
  BY <1>1, <1>2, <1>3

(* As long as no box was opened while another is saved, closed or sent,    *)
(* and none reopened or closed while the save of its strip was on its way, *)
(* a row is of one letter for good: a new box forgets the row of the one   *)
(* before, and no save of it finds that row.                               *)
THEOREM ComposerRows == Spec => RowsStayTheirs
<1>1. TypeOK /\ Base /\ [Next]_vars
        => [\A r \in DOMAIN rows \cap DOMAIN rows' : rows'[r].letter = rows[r].letter \/ Happened({"opened", "strip"})]_vars
  BY StepStay DEF Stay
<1> QED
  BY ComposerTypes, ComposerBase, <1>1, PTL DEF Spec, RowsStayTheirs

-----------------------------------------------------------------------------
(* Alone: a letter is one row, one message, or one thing being sent. *)

Single == ~Happened({"typed", "opened", "again", "strip", "stale"})
Unundone == {i \in DOMAIN sends : ~sends[i].undone}

(* The rows that are the box's own.                                        *)
InBox(r) == r # 0 /\ (r = RowOf(compose) \/ \E c \in Saves \cup Strips : c.row = r)

(* No row, no message and nothing being sent is of the letter.             *)
Unused(l) ==
  /\ \A r \in DOMAIN rows : rows[r].letter # l
  /\ \A i \in Unundone : sends[i].text.letter # l
  /\ \A c \in Sendings : c.text.letter # l

(* A letter is one row, or one message, or one thing being sent.           *)
Sole ==
  /\ \A q, r \in DOMAIN rows : rows[q].letter = rows[r].letter => q = r
  /\ \A r \in DOMAIN rows : \A i \in Unundone : rows[r].letter # sends[i].text.letter
  /\ \A r \in DOMAIN rows : \A c \in Sendings : rows[r].letter # c.text.letter
Outside ==
  /\ \A i, j \in Unundone : sends[i].text.letter = sends[j].text.letter => i = j
  /\ \A b, c \in Sendings : b = c
  /\ \A i \in Unundone : \A c \in Sendings : sends[i].text.letter # c.text.letter
BoxAlone ==
  Open => /\ \A r \in DOMAIN rows : rows[r].letter = compose.letter => InBox(r)
          /\ \A i \in Unundone : sends[i].text.letter # compose.letter

(* One end of a box at a time, and the last thing that is done with it.    *)
Turns ==
  /\ (Enders # {} \/ Sendings # {} => Open /\ ~timer)
  /\ (Sendings # {} => waiting = <<>> /\ Saves = {})
  /\ \A i \in DOMAIN waiting : waiting[i].kind # "autosave" => i = Len(waiting)

Alone == Sole /\ Outside /\ BoxAlone /\ Turns

(* A state in which a letter is single had none of five slips. *)
LEMMA SingleIs ==
  ASSUME Single'
  PROVE  /\ "typed" \notin slips' /\ "opened" \notin slips' /\ "again" \notin slips' /\ "strip" \notin slips'
         /\ "stale" \notin slips' /\ Calm'
BY DEF Single, Calm, Happened

(* The letters of the table after a save. *)
LEMMA SavedLetters ==
  ASSUME TypeOK, NEW L, TableFits(L, rows), NEW r, NEW t, Fits(L, r, t.letter), SaveDraft(r, t)
  PROVE  /\ \A q \in DOMAIN rows' : q # SavedRow(r) => q \in DOMAIN rows /\ rows'[q].letter = rows[q].letter
         /\ \A q \in DOMAIN rows' : q = SavedRow(r) => rows'[q].letter = t.letter
         /\ r # 0 => \A q \in DOMAIN rows' : q \in DOMAIN rows /\ rows'[q].letter = rows[q].letter
<1>1. \A q \in DOMAIN rows : q # lastRow + 1
  BY Held0, RowIs
<1>2. CASE r = 0
  BY <1>1, <1>2 DEF SaveDraft, With, SavedRow
<1>3. CASE r # 0
  BY <1>3 DEF SaveDraft, SavedRow, TableFits, Fits
<1> QED
  BY <1>2, <1>3

(* A save on the row of a letter leaves one row to each. *)
LEMMA SoleSave ==
  ASSUME TypeOK, Sole, NEW L, TableFits(L, rows), NEW r, NEW t, Fits(L, r, t.letter), SaveDraft(r, t),
         r = 0 => Unused(t.letter), Unundone' \subseteq Unundone, \A i \in Unundone' : sends'[i] = sends[i],
         Sendings' \subseteq Sendings
  PROVE  Sole'
<1>0. /\ \A q \in DOMAIN rows' : q # SavedRow(r) => q \in DOMAIN rows /\ rows'[q].letter = rows[q].letter
      /\ \A q \in DOMAIN rows' : q = SavedRow(r) => rows'[q].letter = t.letter
      /\ r # 0 => \A q \in DOMAIN rows' : q \in DOMAIN rows /\ rows'[q].letter = rows[q].letter
  BY SavedLetters
<1>1. CASE r # 0
  BY <1>0, <1>1 DEF Sole
<1>2. CASE r = 0
  <2>1. \A q, p \in DOMAIN rows' : rows'[q].letter = rows'[p].letter => q = p
    BY <1>0, <1>2 DEF Sole, Unused
  <2>2. \A q \in DOMAIN rows' : \A i \in Unundone' : rows'[q].letter # sends'[i].text.letter
    BY <1>0, <1>2 DEF Sole, Unused
  <2>3. \A q \in DOMAIN rows' : \A c \in Sendings' : rows'[q].letter # c.text.letter
    BY <1>0, <1>2 DEF Sole, Unused
  <2> QED
    BY <2>1, <2>2, <2>3 DEF Sole
<1> QED
  BY <1>1, <1>2

(* So does a row that goes. *)
LEMMA SoleDelete ==
  ASSUME Sole, NEW r, DeleteRow(r), Unundone' = Unundone, sends' = sends, Sendings' \subseteq Sendings
  PROVE  /\ Sole' /\ r \notin DOMAIN rows'
         /\ \A q \in DOMAIN rows' : q \in DOMAIN rows /\ rows'[q] = rows[q]
<1>1. /\ r \notin DOMAIN rows' /\ \A q \in DOMAIN rows' : q \in DOMAIN rows /\ rows'[q] = rows[q]
  BY DEF DeleteRow, Without, Restrict
<1> QED
  BY <1>1 DEF Sole

(* The end of a close. *)
LEMMA SoleKeep ==
  ASSUME TypeOK, Sole, NEW L, TableFits(L, rows), NEW d, NEW keep, KeepRow(d, keep),
         Fits(L, RowOf(d), d.letter), RowOf(d) = 0 => Unused(d.letter), sends' = sends, Sendings' \subseteq Sendings
  PROVE  Sole'
<1>1. Unundone' = Unundone
  BY DEF Unundone
<1>2. CASE SaveDraft(RowOf(d), Text(d))
  <2>1. Text(d).letter = d.letter
    BY DEF Text
  <2> QED
    BY <1>1, <1>2, <2>1, SoleSave
<1>3. CASE DeleteRow(RowOf(d))
  BY <1>1, <1>3, SoleDelete
<1> QED
  BY <1>2, <1>3 DEF KeepRow

(* A box without a row has no row and no message. *)
LEMMA UnusedBox ==
  ASSUME Open, BoxAlone, Saves = {}, Strips = {}, Sendings = {}, RowOf(compose) = 0
  PROVE  Unused(compose.letter)
BY DEF BoxAlone, InBox, Unused

(* One row at most is the box's own. *)
LEMMA BoxRowIs ==
  ASSUME Open, Boxed
  PROVE  /\ \A q, r : InBox(q) /\ InBox(r) => q = r
         /\ RowOf(compose) # 0 => InBox(RowOf(compose))
BY DEF Boxed, InBox

(* A step at once ends nothing that has begun; the last that waits is the  *)
(* one that ends the box.                                                  *)
LEMMA NowFirst ==
  ASSUME Single', NEW d, Now(d)
  PROVE  Enders = {} /\ Sendings = {} /\ Saves = {} /\ Open /\ d = compose /\ waiting' = <<>> /\ timer' = FALSE
BY SingleIs, Seen DEF Now

(* What waited and ends the box was the last to wait. *)
LEMMA LaterLast ==
  ASSUME TypeOK, Boxed, Turns, NEW w \in Waiters(latest, lastRow), Later(w)
  PROVE  /\ Sendings = {} /\ Saves = {} /\ timer' = timer
         /\ w.kind # "autosave" =>
              /\ waiting' = <<>> /\ Enders' = {} /\ Open /\ ~timer
              /\ w.d.letter = compose.letter /\ w.d.row = compose.row /\ RowOf(w.d) = RowOf(compose) /\ RowOf(compose) # 0
         /\ \A i \in DOMAIN waiting' : waiting'[i].kind # "autosave" => i = Len(waiting')
<1>0. waiting \in Seq(Waiters(latest, lastRow)) /\ waiting # <<>> /\ w = Head(waiting) /\ waiting' = Tail(waiting)
      /\ ~Saving /\ UNCHANGED timer
  BY Held0 DEF Later
<1>1. Sendings = {} /\ Saves = {} /\ timer' = timer
  BY <1>0, Seen DEF Turns
<1>2. ASSUME w.kind # "autosave"
      PROVE  /\ waiting' = <<>> /\ Enders' = {} /\ Open /\ ~timer
             /\ w.d.letter = compose.letter /\ w.d.row = compose.row /\ RowOf(w.d) = RowOf(compose) /\ RowOf(compose) # 0
  <2>1. w \in Enders
    BY <1>2, LaterIs
  <2>0. 1 \in DOMAIN waiting /\ waiting[1] = w
    BY <1>0
  <2>2. Len(waiting) = 1
    BY <1>2, <2>0 DEF Turns
  <2>3. waiting' = <<>>
    BY <1>0, <2>2
  <2>4. Enders' = {}
    BY <2>3 DEF Enders, Range
  <2> QED
    BY <1>1, <2>1, <2>3, <2>4, Seen DEF Turns, Boxed, RowOf
<1>3. \A i \in DOMAIN waiting' : waiting'[i].kind # "autosave" => i = Len(waiting')
  BY <1>0 DEF Turns
<1> QED
  BY <1>1, <1>2, <1>3

(* A step that moves nothing of the letters keeps each letter alone. *)
LEMMA IdlesAlone ==
  ASSUME TypeOK, Boxed, Alone, Idles
  PROVE  Alone'
<1>0. /\ Saves' = Saves /\ Strips' = Strips /\ Sendings' = Sendings /\ (Open' <=> Open) /\ Unundone' = Unundone
      /\ RowOf(compose)' = RowOf(compose) /\ Enders' = Enders
      /\ rows' = rows /\ sends' = sends /\ compose' = compose
  BY MailSame DEF Idles, Sendings, Open, RowOf, Unundone, table
<1>t. timer' => timer
  <2>1. timer' \in {timer, FALSE}
    BY DEF Idles
  <2> QED
    BY <2>1
<1>1. Sole' /\ Outside'
  BY <1>0 DEF Alone, Sole, Outside
<1>2. BoxAlone'
  BY <1>0 DEF Alone, BoxAlone, InBox
<1>3. waiting \in Seq(Waiters(latest, lastRow)) /\ Turns
  BY Held0 DEF Alone
<1>4. /\ (Sendings # {} => waiting' = <<>>)
      /\ \A i \in DOMAIN waiting' : waiting'[i].kind # "autosave" => i = Len(waiting')
  <2>1. CASE waiting' = waiting
    BY <1>3, <2>1 DEF Turns
  <2>2. ASSUME timer, NEW w \in Waiters(latest, lastRow), w.kind = "autosave", waiting' = Append(waiting, w)
        PROVE  /\ Sendings = {}
               /\ \A i \in DOMAIN waiting' : waiting'[i].kind # "autosave" => i = Len(waiting')
    <3>1. Sendings = {} /\ Enders = {}
      BY <1>3, <2>2 DEF Turns
    <3>2. \A i \in DOMAIN waiting : waiting[i].kind = "autosave"
      BY <3>1 DEF Enders, Range
    <3> QED
      BY <1>3, <2>2, <3>1, <3>2
  <2>3. ASSUME ~Saving, waiting # <<>>, Head(waiting).kind = "autosave", waiting' = Tail(waiting)
        PROVE  /\ Sendings = {}
               /\ \A i \in DOMAIN waiting' : waiting'[i].kind # "autosave" => i = Len(waiting')
    BY <1>3, <2>3 DEF Turns
  <2> QED
    BY <2>1, <2>2, <2>3 DEF Idles
<1>5. Turns'
  BY <1>0, <1>t, <1>3, <1>4 DEF Turns
<1> QED
  BY <1>1, <1>2, <1>5 DEF Alone

(* One more that waits keeps each letter alone. *)
LEMMA WaitsAlone ==
  ASSUME TypeOK, Boxed, Alone, Single', NEW w \in Waiters(latest, lastRow), Waits(w)
  PROVE  Alone'
<1>0. /\ Saves' = Saves /\ Strips' = Strips /\ Sendings' = Sendings /\ Open /\ Open' /\ Unundone' = Unundone
      /\ RowOf(compose)' = RowOf(compose) /\ rows' = rows /\ sends' = sends /\ compose' = compose /\ timer' = FALSE
  BY MailSame DEF Waits, Sendings, Open, RowOf, Unundone, table, box
<1>1. Sole' /\ Outside'
  BY <1>0 DEF Alone, Sole, Outside
<1>2. BoxAlone'
  BY <1>0 DEF Alone, BoxAlone, InBox
<1>3. Enders = {} /\ Sendings = {} /\ waiting \in Seq(Waiters(latest, lastRow)) /\ waiting' = Append(waiting, w)
  BY SingleIs, Seen, Held0 DEF Waits
<1>4. \A i \in DOMAIN waiting : waiting[i].kind = "autosave"
  BY <1>3 DEF Enders, Range
<1>5. \A i \in DOMAIN waiting' : waiting'[i].kind # "autosave" => i = Len(waiting')
  BY <1>3, <1>4
<1>6. Turns'
  BY <1>0, <1>3, <1>5 DEF Turns
<1> QED
  BY <1>1, <1>2, <1>6 DEF Alone

(* A box that closes keeps each letter alone. *)
LEMMA ClosesAlone ==
  ASSUME TypeOK, Boxed, NEW L, Names(L), Alone, Single', NEW d, NEW keep, Closes(d, keep)
  PROVE  Alone'
<1>0. ~Open' /\ Sendings' = Sendings /\ Unundone' = Unundone /\ sends' = sends
  BY DEF Closes, NoneOpen, NoBox, Open, Sendings, Unundone
<1>1. /\ Sendings = {} /\ waiting' = <<>> /\ (RowOf(d) = 0 => Unused(d.letter))
      /\ ((Open /\ d = compose) \/ \E w \in Enders : w.d = d)
  <2>1. CASE Now(d) /\ Strips = {}
    BY <2>1, NowFirst, UnusedBox DEF Alone
  <2>2. ASSUME NEW w \in Waiters(latest, lastRow), Later(w), w.kind = "close", w.d = d
        PROVE  Sendings = {} /\ waiting' = <<>> /\ RowOf(d) # 0 /\ w \in Enders
    BY <2>2, LaterLast, LaterIs DEF Alone
  <2> QED
    BY <2>1, <2>2, NowFirst DEF Closes
<1>2. Fits(L, RowOf(d), d.letter) /\ KeepRow(d, keep) /\ TableFits(L, rows)
  BY <1>1, RowFits DEF Closes, Names
<1>3. Sole'
  BY <1>0, <1>1, <1>2, SoleKeep DEF Alone
<1>4. Outside'
  BY <1>0 DEF Alone, Outside
<1>5. Enders' = {}
  BY <1>1 DEF Enders, Range
<1>6. Turns'
  BY <1>0, <1>1, <1>5 DEF Turns
<1> QED
  BY <1>0, <1>3, <1>4, <1>6 DEF Alone, BoxAlone

(* A box that collapses into its strip keeps each letter alone. *)
LEMMA CollapsesAlone ==
  ASSUME TypeOK, Boxed, NEW L, Names(L), Alone, Single', NEW d, Collapses(d)
  PROVE  Alone'
<1> DEFINE e == Call("strip", Text(d), SavedRow(RowOf(d)))
<1>0. e.kind = "strip" /\ e.row = SavedRow(RowOf(d)) /\ Mail' = Mail \cup {e}
  BY DEF Collapses, Call
<1> HIDE DEF e
<1>1. /\ Sendings' = Sendings /\ Unundone' = Unundone /\ sends' = sends /\ (Open' <=> Open) /\ compose' = compose
      /\ RowOf(compose)' = RowOf(compose) /\ Saves' = Saves /\ Strips' = Strips \cup {e} /\ SaveDraft(RowOf(d), Text(d))
  BY <1>0, MailAdds DEF Collapses, Open, Sendings, Unundone, RowOf
<1>2. /\ Sendings = {} /\ Saves = {} /\ waiting' = <<>> /\ (RowOf(d) = 0 => Unused(d.letter)) /\ Open /\ d.letter = compose.letter
      /\ ((Open /\ d = compose) \/ \E w \in Enders : w.d = d) /\ (timer' => timer)
  <2>1. CASE Now(d) /\ ~collapsed
    <3>1. Strips = {}
      BY <2>1 DEF Now, Boxed
    <3> QED
      BY <2>1, <3>1, NowFirst, UnusedBox DEF Alone
  <2>2. ASSUME NEW w \in Waiters(latest, lastRow), Later(w), w.kind = "strip", w.d = d
        PROVE  /\ Sendings = {} /\ Saves = {} /\ waiting' = <<>> /\ RowOf(d) # 0 /\ w \in Enders /\ (timer' => timer) /\ Open
               /\ d.letter = compose.letter
    BY <2>2, LaterLast, LaterIs DEF Alone
  <2> QED
    BY <2>1, <2>2, NowFirst DEF Collapses
<1>3. Fits(L, RowOf(d), d.letter) /\ TableFits(L, rows) /\ Text(d).letter = d.letter
  BY <1>2, RowFits DEF Names, Text
<1>4. Sole'
  BY <1>1, <1>2, <1>3, SoleSave DEF Alone
<1>5. Outside'
  BY <1>1 DEF Alone, Outside
<1>r. RowOf(d) \in Nat
  BY Held0, BoxIs DEF Collapses
<1>6. BoxAlone'
  <2>1. \A q \in DOMAIN rows' : q # SavedRow(RowOf(d)) => q \in DOMAIN rows /\ rows'[q].letter = rows[q].letter
    BY <1>1, <1>3, SavedLetters
  <2>2. \A q : InBox(q) => InBox(q)'
    BY <1>1 DEF InBox
  <2>3. PICK m \in Nat : m = SavedRow(RowOf(d)) /\ m # 0
    <3>1. RowOf(d) \in Nat
      BY <1>r
    <3> QED
      BY <3>1, Held0 DEF SavedRow
  <2>4. InBox(m)'
    BY <1>0, <1>1, <2>3 DEF InBox
  <2>5. \A q \in DOMAIN rows' : rows'[q].letter = compose.letter => InBox(q)'
    BY <1>2, <2>1, <2>2, <2>3, <2>4 DEF Alone, BoxAlone
  <2> QED
    BY <1>1, <1>2, <2>5 DEF Alone, BoxAlone
<1>7. Enders' = {}
  BY <1>2 DEF Enders, Range
<1>8. Turns'
  BY <1>1, <1>2, <1>7 DEF Turns
<1> QED
  BY <1>4, <1>5, <1>6, <1>8 DEF Alone

(* An autosave keeps each letter alone. *)
LEMMA WritesAlone ==
  ASSUME TypeOK, Boxed, NEW L, Names(L), Alone, Writes
  PROVE  Alone'
<1> DEFINE e == Call("autosave", Text(compose), SavedRow(RowOf(compose)))
<1>0. e.kind = "autosave" /\ e.row = SavedRow(RowOf(compose)) /\ Mail' = Mail \cup {e}
  BY DEF Writes, Call
<1> HIDE DEF e
<1>1. /\ Sendings' = Sendings /\ Unundone' = Unundone /\ sends' = sends /\ Open' /\ Open /\ compose' = compose /\ Enders' = Enders
      /\ RowOf(compose)' = RowOf(compose) /\ Saves = {} /\ Strips = {} /\ Saves' = Saves \cup {e} /\ Strips' = Strips
      /\ SaveDraft(RowOf(compose), Text(compose))
  BY <1>0, MailAdds, Seen DEF Writes, Open, Sendings, Unundone, RowOf, Boxed
<1>2. /\ Sendings = {} /\ (timer' => timer)
      /\ \A i \in DOMAIN waiting' : waiting'[i].kind # "autosave" => i = Len(waiting')
  <2>1. CASE timer /\ ~timer' /\ waiting = <<>> /\ waiting' = <<>>
    BY <2>1 DEF Alone, Turns
  <2>2. CASE \E w \in Waiters(latest, lastRow) : Later(w) /\ w.kind = "autosave"
    BY <2>2, LaterLast DEF Alone
  <2> QED
    BY <2>1, <2>2 DEF Writes
<1>3. Fits(L, RowOf(compose), compose.letter) /\ TableFits(L, rows) /\ Text(compose).letter = compose.letter
      /\ (RowOf(compose) = 0 => Unused(compose.letter))
  BY <1>1, <1>2, RowFits, UnusedBox DEF Names, Text, Alone
<1>4. Sole'
  BY <1>1, <1>2, <1>3, SoleSave DEF Alone
<1>5. Outside'
  BY <1>1 DEF Alone, Outside
<1>r. RowOf(compose) \in Nat
  BY Held0, BoxIs
<1>6. BoxAlone'
  <2>1. \A q \in DOMAIN rows' : q # SavedRow(RowOf(compose)) => q \in DOMAIN rows /\ rows'[q].letter = rows[q].letter
    BY <1>1, <1>3, SavedLetters
  <2>2. \A q : InBox(q) => InBox(q)'
    BY <1>1 DEF InBox
  <2>3. PICK m \in Nat : m = SavedRow(RowOf(compose)) /\ m # 0
    <3>1. RowOf(compose) \in Nat
      BY <1>r
    <3> QED
      BY <3>1, Held0 DEF SavedRow
  <2>4. InBox(m)'
    BY <1>0, <1>1, <2>3 DEF InBox
  <2>5. \A q \in DOMAIN rows' : rows'[q].letter = compose.letter => InBox(q)'
    BY <1>1, <2>1, <2>2, <2>3, <2>4 DEF Alone, BoxAlone
  <2> QED
    BY <1>1, <2>5 DEF Alone, BoxAlone
<1>7. Turns'
  BY <1>1, <1>2 DEF Alone, Turns
<1> QED
  BY <1>4, <1>5, <1>6, <1>7 DEF Alone

(* A message handed to the queue keeps each letter alone. *)
LEMMA PostsAlone ==
  ASSUME TypeOK, Boxed, NEW L, Names(L), Alone, Single', NEW d, Posts(d)
  PROVE  Alone'
<1> DEFINE s == [kind |-> "send", text |-> Text(d), row |-> RowOf(d)]
<1>0. s.kind = "send" /\ s.text.letter = d.letter /\ slow' = slow \cup {s} /\ DeleteRow(RowOf(d)) /\ Mail' = Mail
  BY DEF Posts, Post, Detach, Text
<1> HIDE DEF s
<1>1. /\ Sendings' = Sendings \cup {s} /\ Unundone' = Unundone /\ sends' = sends /\ (Open' <=> Open) /\ compose' = compose
      /\ RowOf(compose)' = RowOf(compose) /\ Saves' = Saves /\ Strips' = Strips
  BY <1>0, MailSame DEF Posts, Open, Sendings, Unundone, RowOf, box
<1>2. /\ Sendings = {} /\ Saves = {} /\ waiting' = <<>> /\ Open /\ d.letter = compose.letter /\ RowOf(d) = RowOf(compose)
      /\ timer' = FALSE /\ \A q : InBox(q) => q = RowOf(d)
  <2>1. CASE Now(d) /\ Strips = {}
    BY <2>1, NowFirst DEF InBox
  <2>2. ASSUME NEW w \in Waiters(latest, lastRow), Later(w), w.kind = "send", w.d = d
        PROVE  /\ Sendings = {} /\ Saves = {} /\ waiting' = <<>> /\ Open /\ d.letter = compose.letter
               /\ RowOf(d) = RowOf(compose) /\ timer' = FALSE /\ RowOf(compose) # 0
    <3>1. timer \in BOOLEAN
      BY Held0 DEF Window
    <3> QED
      BY <2>2, <3>1, LaterLast DEF Alone
  <2> QED
    BY <2>1, <2>2, NowFirst, BoxRowIs DEF Posts
<1>3. \A q \in DOMAIN rows' : q \in DOMAIN rows /\ rows'[q] = rows[q] /\ q # RowOf(d)
  BY <1>0 DEF DeleteRow, Without, Restrict
<1>4. \A q \in DOMAIN rows' : rows'[q].letter # d.letter
  BY <1>2, <1>3 DEF Alone, BoxAlone
<1>5. Sole'
  BY <1>0, <1>1, <1>2, <1>3, <1>4 DEF Alone, Sole
<1>6. Outside'
  BY <1>0, <1>1, <1>2 DEF Alone, Outside, BoxAlone
<1>7. BoxAlone'
  BY <1>1, <1>2, <1>4 DEF Alone, BoxAlone
<1>8. Enders' = {}
  BY <1>2 DEF Enders, Range
<1>9. Turns'
  BY <1>1, <1>2, <1>8 DEF Turns
<1> QED
  BY <1>5, <1>6, <1>7, <1>9 DEF Alone

(* A box is opened when nothing is going on.                               *)
LEMMA ParksAlone ==
  ASSUME TypeOK, Boxed, NEW L, Names(L), Alone, Saves = {}, Strips = {}, Sendings = {}, Parks,
         sends' = sends, Sendings' = Sendings
  PROVE  Sole'
<1>1. CASE UNCHANGED table
  BY <1>1 DEF Sole, table, Alone, Unundone
<1>2. CASE Open /\ KeepRow(compose, TRUE)
  <2>1. Fits(L, RowOf(compose), compose.letter) /\ TableFits(L, rows) /\ (RowOf(compose) = 0 => Unused(compose.letter))
    BY <1>2, RowFits, UnusedBox DEF Names, Alone
  <2> QED
    BY <1>2, <2>1, SoleKeep DEF Alone
<1> QED
  BY <1>1, <1>2 DEF Parks

(* What is parked leaves every other row as it was.                        *)
LEMMA ParksRows ==
  ASSUME TypeOK, Boxed, NEW L, Names(L), Parks
  PROVE  /\ \A r \in DOMAIN rows : r # RowOf(compose) => r \in DOMAIN rows' /\ rows'[r] = rows[r]
         /\ \A r \in DOMAIN rows' : r \in DOMAIN rows \/ (Open /\ rows'[r].letter = compose.letter)
         /\ \A r \in DOMAIN rows' : r \in DOMAIN rows => rows'[r].letter = rows[r].letter
<1>1. CASE UNCHANGED table
  BY <1>1 DEF table
<1>2. CASE Open /\ SaveDraft(RowOf(compose), Text(compose))
  <2>1. Text(compose).letter = compose.letter /\ TableFits(L, rows) /\ Fits(L, RowOf(compose), compose.letter)
    BY <1>2, RowFits DEF Text, Names
  <2>2. \A q \in DOMAIN rows : q # lastRow + 1
    BY Held0, RowIs
  <2> QED
    BY <1>2, <2>1, <2>2 DEF SaveDraft, With, TableFits, Fits
<1>3. CASE DeleteRow(RowOf(compose))
  BY <1>3 DEF DeleteRow, Without, Restrict
<1> QED
  BY <1>1, <1>2, <1>3 DEF Parks, KeepRow

(* A new letter is none of those there are. *)
LEMMA LetterIsOld ==
  ASSUME TypeOK
  PROVE  /\ Open => compose.letter \in DOMAIN latest
         /\ \A r \in DOMAIN rows : rows[r].letter \in DOMAIN latest
         /\ \A i \in DOMAIN sends : sends[i].text.letter \in DOMAIN latest
         /\ Len(letters) + 1 \notin DOMAIN latest
<1>0. /\ latest \in Seq(Nat) /\ lastRow \in Nat /\ rows \in Tables(latest, lastRow) /\ sends \in Seq(Messages(latest))
      /\ (Open => compose \in LetterBox(latest, lastRow)) /\ Len(letters) = Len(latest)
  BY Held0
<1>1. Open => compose.letter \in DOMAIN latest
  BY <1>0, TextIs
<1>2. \A r \in DOMAIN rows : rows[r].letter \in DOMAIN latest
  BY <1>0, RowIs, TextIs
<1>3. ASSUME NEW i \in DOMAIN sends PROVE sends[i].text.letter \in DOMAIN latest
  <2>1. sends[i] \in Messages(latest)
    BY <1>0
  <2> QED
    BY <1>0, <2>1, TextIs DEF Messages
<1>4. Len(letters) + 1 \notin DOMAIN latest
  BY <1>0
<1> QED
  BY <1>1, <1>2, <1>3, <1>4

(* A new box keeps each letter alone. *)
LEMMA StartsAlone ==
  ASSUME TypeOK, Boxed, NEW L, Names(L), Alone, NEW place \in Places, Starts(place)
  PROVE  Alone'
<1>1. Saves = {} /\ Strips = {} /\ Enders = {} /\ Sendings = {} /\ Parks /\ waiting = <<>>
  BY Seen DEF Starts
<1>2. Saves' = {} /\ Strips' = {} /\ Enders' = {} /\ Sendings' = {} /\ waiting' = <<>> /\ sends' = sends /\ Unundone' = Unundone
  BY <1>1, ParksMail DEF Enders, Sendings, Starts, Unundone, Range
<1>3. compose'.letter = Len(letters) + 1
  <2>1. letters' = Append(letters, place) /\ letters \in Seq(Places) /\ place \in Places
    BY Held0 DEF Starts
  <2>2. compose' = [NoBox EXCEPT !.letter = Len(letters')]
    BY DEF Starts, SetBox
  <2>3. compose'.letter = Len(letters')
    BY <2>2 DEF NoBox
  <2> QED
    BY <2>1, <2>3
<1>4. Sole'
  BY <1>1, <1>2, ParksAlone
<1>5. Outside'
  BY <1>2 DEF Alone, Outside
<1>6. BoxAlone'
  <2>1. \A r \in DOMAIN rows' : rows'[r].letter \in DOMAIN latest
    BY <1>1, ParksRows, LetterIsOld
  <2>2. \A i \in Unundone' : sends'[i].text.letter \in DOMAIN latest
    BY <1>2, LetterIsOld DEF Unundone
  <2> QED
    BY <1>3, <2>1, <2>2, LetterIsOld DEF BoxAlone
<1>7. Turns'
  BY <1>2 DEF Turns
<1> QED
  BY <1>4, <1>5, <1>6, <1>7 DEF Alone

(* A draft that is opened keeps each letter alone. *)
LEMMA ReopensAlone ==
  ASSUME TypeOK, Boxed, NEW L, Names(L), Alone, Single', NEW t, NEW r, Reopens(t, r)
  PROVE  Alone'
<1>1. Saves = {} /\ Strips = {} /\ Enders = {} /\ Sendings = {} /\ Parks /\ waiting = <<>>
  BY Seen DEF Reopens
<1>2. Saves' = {} /\ Strips' = {} /\ Enders' = {} /\ Sendings' = {} /\ waiting' = <<>> /\ sends' = sends /\ Unundone' = Unundone
  BY <1>1, ParksMail DEF Enders, Sendings, Reopens, Unundone, Range
<1>3. autoRow' = 0 /\ compose'.row = r /\ compose'.letter = t.letter
  BY DEF Reopens, SetBox
<1>4. r \in DOMAIN rows /\ rows[r] = t /\ RowOf(compose) # r
  <2>1. DraftSlips(t, r) \subseteq slips'
    BY DEF Reopens
  <2> QED
    BY <2>1, SingleIs DEF DraftSlips, When
<1>5. Sole'
  BY <1>1, <1>2, ParksAlone
<1>6. Outside'
  BY <1>2 DEF Alone, Outside
<1>7. r \in DOMAIN rows' /\ rows'[r] = t /\ r # 0
  <2>1. r # 0
    BY <1>4, Held0, RowIs
  <2> QED
    BY <1>1, <1>4, <2>1, ParksRows
<1>8. BoxAlone'
  <2>1. RowOf(compose)' = r
    BY <1>3, <1>7 DEF RowOf, Or
  <2>2. InBox(r)'
    BY <1>7, <2>1 DEF InBox
  <2> QED
    BY <1>3, <1>5, <1>7, <2>2 DEF BoxAlone, Sole
<1>9. Turns'
  BY <1>2 DEF Turns
<1> QED
  BY <1>5, <1>6, <1>8, <1>9 DEF Alone

(* A message the queue took keeps each letter alone. *)
LEMMA LeavesAlone ==
  ASSUME TypeOK, Alone, NEW c, Leaves(c)
  PROVE  Alone'
<1>1. /\ ~Open' /\ rows' = rows /\ Sendings' = Sendings \ {c} /\ c \in Sendings /\ waiting' = waiting
      /\ sends' = Append(sends, [text |-> c.text, undone |-> FALSE])
  BY DEF Leaves, NoneOpen, NoBox, Open, table, Sendings
<1>2. Sendings' = {} /\ waiting' = <<>> /\ Enders' = {}
  BY <1>1 DEF Alone, Outside, Turns, Enders, Range
<1>3. PICK n \in Nat : n = Len(sends) + 1 /\ sends' = Append(sends, [text |-> c.text, undone |-> FALSE])
                       /\ DOMAIN sends' = DOMAIN sends \cup {n} /\ n \notin DOMAIN sends
                       /\ sends'[n] = [text |-> c.text, undone |-> FALSE] /\ \A i \in DOMAIN sends : sends'[i] = sends[i]
  <2>1. sends \in Seq(Messages(latest)) /\ c \in slow /\ slow \subseteq Errands(latest, lastRow)
    BY <1>1, Held0 DEF Sendings
  <2>2. [text |-> c.text, undone |-> FALSE] \in Messages(latest)
    BY <2>1 DEF Messages, Errands
  <2> QED
    BY <1>1, <2>1, <2>2
<1>4. Unundone' = Unundone \cup {n} /\ sends'[n].text = c.text /\ \A i \in Unundone : sends'[i] = sends[i] /\ i # n
  BY <1>3 DEF Unundone
<1>a. \A j \in Unundone' : \/ j = n /\ sends'[j].text.letter = c.text.letter
                           \/ j \in Unundone /\ sends'[j].text.letter = sends[j].text.letter
  BY <1>4
<1>b. \A j \in Unundone : sends[j].text.letter # c.text.letter
  BY <1>1 DEF Alone, Outside
<1>c. \A r \in DOMAIN rows : rows[r].letter # c.text.letter
  BY <1>1 DEF Alone, Sole
<1>5. Sole'
  <2>1. \A q \in DOMAIN rows' : \A j \in Unundone' : rows'[q].letter # sends'[j].text.letter
    <3>1. \A q \in DOMAIN rows : \A j \in Unundone : rows[q].letter # sends[j].text.letter
      BY DEF Alone, Sole
    <3>2. rows' = rows
      BY <1>1
    <3> QED
      BY <1>a, <1>c, <3>1, <3>2
  <2>2. \A q, r \in DOMAIN rows' : rows'[q].letter = rows'[r].letter => q = r
    BY <1>1 DEF Alone, Sole
  <2> QED
    BY <1>2, <2>1, <2>2 DEF Sole
<1>6. Outside'
  <2>1. \A i, j \in Unundone' : sends'[i].text.letter = sends'[j].text.letter => i = j
    BY <1>a, <1>b DEF Alone, Outside
  <2> QED
    BY <1>2, <2>1 DEF Outside
<1> QED
  BY <1>1, <1>2, <1>5, <1>6 DEF Alone, BoxAlone, Turns

(* A message the queue refused keeps each letter alone. *)
LEMMA RefusesAlone ==
  ASSUME TypeOK, Alone, NEW c, Refuses(c)
  PROVE  Alone'
<1>1. /\ Saves' = Saves /\ Strips' = Strips /\ Sendings' \subseteq Sendings /\ (Open' <=> Open) /\ Unundone' = Unundone
      /\ RowOf(compose)' = RowOf(compose) /\ Enders' = Enders /\ rows' = rows /\ sends' = sends /\ compose' = compose
      /\ waiting' = waiting /\ timer' = timer
  <2>1. Mail' = Mail /\ Enders' = Enders
    BY DEF Refuses, Mail, MailOf, Enders
  <2> QED
    BY <2>1, MailSame DEF Refuses, Sendings, Open, RowOf, box, table, Unundone
<1>2. Sole' /\ Outside'
  BY <1>1 DEF Alone, Sole, Outside
<1>3. BoxAlone'
  BY <1>1 DEF Alone, BoxAlone, InBox
<1>4. Turns'
  BY <1>1 DEF Alone, Turns
<1> QED
  BY <1>2, <1>3, <1>4 DEF Alone

(* A step that leaves the box and its letters alone.                       *)
LEMMA AsideAlone ==
  ASSUME TypeOK, Alone, NEW e, Mail' = Mail \cup {e}, e.kind \in {"delete", "list"},
         UNCHANGED <<box, waiting, timer, slow, sends>>,
         \A r \in DOMAIN rows' : r \in DOMAIN rows /\ rows'[r].letter = rows[r].letter
  PROVE  Alone'
<1>1. /\ Saves' = Saves /\ Strips' = Strips /\ Sendings' = Sendings /\ (Open' <=> Open) /\ Unundone' = Unundone
      /\ RowOf(compose)' = RowOf(compose) /\ Enders' = Enders /\ compose' = compose
  BY MailAdds DEF Sendings, Open, Unundone, RowOf, Enders, box
<1>2. Sole' /\ Outside'
  BY <1>1 DEF Alone, Sole, Outside
<1>3. BoxAlone'
  BY <1>1 DEF Alone, BoxAlone, InBox
<1>4. Turns'
  BY <1>1 DEF Alone, Turns
<1> QED
  BY <1>2, <1>3, <1>4 DEF Alone

(* What happens to a row elsewhere keeps each letter alone. *)
LEMMA TableAlone ==
  ASSUME TypeOK, Alone, NEW r \in DOMAIN rows, Edits(r) \/ Goes(r)
  PROVE  Alone'
<1>1. CASE Edits(r)
  <2>1. \A q \in DOMAIN rows' : q \in DOMAIN rows /\ rows'[q].letter = rows[q].letter
    BY <1>1 DEF Edits
  <2>2. Mail' = Mail \cup {List(rows')} /\ UNCHANGED <<box, waiting, timer, slow, sends>> /\ List(rows').kind = "list"
    BY <1>1 DEF Edits, List
  <2> QED
    BY <2>1, <2>2, AsideAlone
<1>2. CASE Goes(r)
  <2>1. \A q \in DOMAIN rows' : q \in DOMAIN rows /\ rows'[q].letter = rows[q].letter
    BY <1>2 DEF Goes, DeleteRow, Without, Restrict
  <2>2. /\ Mail' = Mail \cup {Call("delete", NoText, r)} /\ UNCHANGED <<box, waiting, timer, slow, sends>>
        /\ Call("delete", NoText, r).kind = "delete"
    BY <1>2 DEF Goes, Call
  <2> QED
    BY <2>1, <2>2, AsideAlone
<1> QED
  BY <1>1, <1>2

(* An undo keeps each letter alone. *)
LEMMA ReturnsAlone ==
  ASSUME TypeOK, Alone, NEW i, Returns(i)
  PROVE  Alone'
<1> DEFINE e == List(rows')
           u == [kind |-> "undo", text |-> sends[i].text, row |-> lastRow']
<1>0. /\ e.kind = "list" /\ Mail' = Mail \cup {e} /\ u.kind = "undo" /\ slow' = slow \cup {u}
      /\ i \in Unundone /\ sends' = [sends EXCEPT ![i].undone = TRUE]
  BY DEF Returns, List, Unundone
<1> HIDE DEF e, u
<1>1. /\ Saves' = Saves /\ Strips' = Strips /\ Sendings' = Sendings /\ (Open' <=> Open) /\ compose' = compose
      /\ RowOf(compose)' = RowOf(compose) /\ Enders' = Enders /\ waiting' = waiting /\ timer' = timer
  BY <1>0, MailAdds DEF Sendings, Open, RowOf, Enders, box, Returns
<1>2. Unundone' = Unundone \ {i} /\ \A j \in Unundone' : sends'[j] = sends[j]
  <2>1. sends \in Seq(Messages(latest)) /\ i \in DOMAIN sends
    BY <1>0, Held0 DEF Unundone
  <2>2. sends[i] \in Messages(latest)
    BY <2>1
  <2>3. sends'[i].undone = TRUE /\ \A j \in DOMAIN sends : j # i => sends'[j] = sends[j]
    BY <1>0, <2>1, <2>2 DEF Messages
  <2>4. DOMAIN sends' = DOMAIN sends
    BY <1>0
  <2> QED
    BY <2>3, <2>4 DEF Unundone
<1>3. rows' = With(rows, lastRow + 1, sends[i].text)
  BY DEF Returns, SaveDraft
<1>4. \A q \in DOMAIN rows' : (q = lastRow + 1 /\ rows'[q].letter = sends[i].text.letter) \/ (q \in DOMAIN rows /\ rows'[q] = rows[q])
  BY <1>3 DEF With
<1>5. Sole'
  BY <1>0, <1>1, <1>2, <1>4 DEF Alone, Sole, Outside
<1>6. Outside'
  BY <1>1, <1>2 DEF Alone, Outside
<1>7. BoxAlone'
  BY <1>0, <1>1, <1>2, <1>4 DEF Alone, BoxAlone, InBox
<1>8. Turns'
  BY <1>1 DEF Alone, Turns
<1> QED
  BY <1>5, <1>6, <1>7, <1>8 DEF Alone

(* Typing keeps each letter alone. *)
LEMMA TypeAlone ==
  ASSUME TypeOK, Alone, Single', Type
  PROVE  Alone'
<1>0. compose \in LetterBox(latest, lastRow)
  BY Held0 DEF Type
<1>1. compose'.letter = compose.letter /\ compose'.row = compose.row
  BY <1>0 DEF Type, LetterBox
<1>2. /\ Mail' = Mail /\ Enders' = Enders /\ slow' = slow /\ autoRow' = autoRow /\ waiting' = waiting
      /\ rows' = rows /\ sends' = sends
  BY DEF Type, lines, table, Mail, MailOf, Enders
<1>3. /\ Saves' = Saves /\ Strips' = Strips /\ Sendings' = Sendings /\ (Open' <=> Open) /\ Unundone' = Unundone
      /\ RowOf(compose)' = RowOf(compose)
  BY <1>1, <1>2, MailSame DEF Sendings, Open, RowOf, Unundone
<1>4. Enders = {} /\ Sendings = {}
  <2>1. Ending => "typed" \in slips'
    BY DEF Type, Slip, When
  <2> QED
    BY <2>1, SingleIs, Seen
<1>5. Sole' /\ Outside'
  BY <1>2, <1>3 DEF Alone, Sole, Outside
<1>6. BoxAlone'
  BY <1>1, <1>2, <1>3 DEF Alone, BoxAlone, InBox
<1>7. Turns'
  BY <1>2, <1>3, <1>4 DEF Alone, Turns
<1> QED
  BY <1>5, <1>6, <1>7 DEF Alone

(* An answer of the store keeps each letter alone. *)
LEMMA HearsAlone ==
  ASSUME TypeOK, Boxed, NEW L, Names(L), Alone,
         NEW c \in Calls(latest, lastRow), NEW M \in SUBSET Calls(latest, lastRow), Hears(c, M)
  PROVE  Alone'
<1>0. /\ Mail = M \cup {c} /\ Quiet
      /\ UNCHANGED <<waiting, slow, table, sends, letters, latest, dock, collapsed>>
  BY DEF Hears
<1>1. Enders' = Enders /\ Sendings' = Sendings /\ rows' = rows /\ sends' = sends /\ Unundone' = Unundone /\ waiting' = waiting
  BY <1>0 DEF Enders, Sendings, table, Unundone
<1>2. Sole' /\ Outside'
  BY <1>1 DEF Alone, Sole, Outside
<1>3. timer' => timer
  BY DEF Hears
<1>4. /\ Saves = {e \in M \cup {c} : e.kind = "autosave"} /\ Strips = {e \in M \cup {c} : e.kind = "strip"}
      /\ Mail' \in {M, M \cup {List(rows)}} =>
           Saves' = {e \in M : e.kind = "autosave"} /\ Strips' = {e \in M : e.kind = "strip"}
  BY <1>0 DEF Saves, Strips, List
<1>5. Saves' \subseteq Saves /\ Strips' \subseteq Strips
  <2>1. Mail' \in {M, M \cup {List(rows)}}
    BY DEF Hears
  <2> QED
    BY <1>4, <2>1
<1>6. (Open' => Open /\ compose'.letter = compose.letter) /\ \A r : Open /\ InBox(r) => InBox(r)'
  <2>1. CASE c.kind = "autosave"
    <3>1. /\ autoRow' = (IF Mine THEN c.row ELSE autoRow) /\ UNCHANGED compose
      BY <2>1 DEF Hears
    <3>2. c \in Saves /\ c.row # 0
      BY <1>4, <2>1 DEF Calls
    <3>3. Open => RowOf(compose)' = c.row
      BY <3>1, <3>2 DEF Boxed, Mine, RowOf, Or
    <3>4. ASSUME NEW r, Open, InBox(r) PROVE r = c.row
      BY <3>2, <3>4 DEF Boxed, InBox
    <3>5. \A r : Open /\ InBox(r) => InBox(r)'
      BY <3>2, <3>3, <3>4 DEF InBox
    <3> QED
      BY <3>1, <3>5 DEF Open
  <2>2. CASE c.kind \in {"keep", "delete"}
    <3>1. Mail' = M \cup {List(rows)} /\ UNCHANGED <<compose, autoRow>>
      BY <2>2 DEF Hears
    <3>2. Saves' = Saves /\ Strips' = Strips /\ RowOf(compose)' = RowOf(compose)
      BY <1>4, <2>2, <3>1 DEF RowOf
    <3> QED
      BY <3>1, <3>2 DEF InBox, Open
  <2>3. CASE c.kind = "strip"
    <3>1. IF Open /\ letters[compose.letter] = letters[c.text.letter]
          THEN compose' = [compose EXCEPT !.row = c.row] /\ autoRow' = 0
          ELSE UNCHANGED <<compose, autoRow>>
      BY <2>3 DEF Hears
    <3>2. c \in Strips /\ c.row # 0
      BY <1>4, <2>3 DEF Calls
    <3>3. Open => RowOf(compose)' = c.row /\ compose'.letter = compose.letter
      <4>1. ASSUME Open PROVE compose' = [compose EXCEPT !.row = c.row] /\ autoRow' = 0 /\ compose \in LetterBox(latest, lastRow)
        BY <3>1, <3>2, <4>1, Held0 DEF Boxed
      <4>2. Open => compose'.row = c.row /\ compose'.letter = compose.letter /\ autoRow' = 0
        BY <4>1 DEF LetterBox
      <4> QED
        BY <3>2, <4>2 DEF RowOf, Or
    <3>4. ASSUME NEW r, Open, InBox(r) PROVE r = c.row
      BY <3>2, <3>4 DEF Boxed, InBox
    <3>5. \A r : Open /\ InBox(r) => InBox(r)'
      BY <3>2, <3>3, <3>4 DEF InBox
    <3> QED
      BY <3>1, <3>3, <3>5 DEF Open
  <2>4. CASE c.kind = "list"
    <3>1. Mail' = M /\ UNCHANGED autoRow
      BY <2>4 DEF Hears
    <3>2. compose'.letter = compose.letter /\ compose'.row = compose.row
      <4>1. CASE compose' = compose
        BY <4>1
      <4>2. CASE ChangedElsewhere(c.list) /\ compose' = [compose EXCEPT !.letter = c.list[RowOf(compose)].letter, !.version = c.list[RowOf(compose)].version]
        <5>1. Open /\ RowOf(compose) # 0 /\ RowOf(compose) \in DOMAIN c.list
          BY <4>2 DEF ChangedElsewhere
        <5>2. TableFits(L, c.list)
          BY <1>0, <2>4 DEF Names, MailFits
        <5>3. c.list[RowOf(compose)].letter = compose.letter
          BY <5>1, <5>2, RowFits DEF TableFits, Fits
        <5>4. compose \in LetterBox(latest, lastRow)
          BY <5>1, Held0
        <5> QED
          BY <4>2, <5>3, <5>4 DEF LetterBox
      <4> QED
        BY <2>4, <4>1, <4>2 DEF Hears
    <3>3. Saves' = Saves /\ Strips' = Strips /\ RowOf(compose)' = RowOf(compose) /\ (Open' <=> Open)
      BY <1>4, <2>4, <3>1, <3>2 DEF RowOf, Open
    <3> QED
      BY <3>2, <3>3 DEF InBox
  <2> QED
    BY <2>1, <2>2, <2>3, <2>4 DEF Hears
<1>7. Open => Open'
  <2>1. ASSUME Open, ~Open' PROVE FALSE
    <3>1. compose \in LetterBox(latest, lastRow) /\ compose' # compose
      BY <2>1, Held0 DEF Open
    <3>2. CASE compose' = [compose EXCEPT !.row = c.row]
      BY <2>1, <3>1, <3>2 DEF LetterBox, Open
    <3>3. CASE c.kind = "list" /\ ChangedElsewhere(c.list) /\ compose' = [compose EXCEPT !.letter = c.list[RowOf(compose)].letter, !.version = c.list[RowOf(compose)].version]
      <4>1. RowOf(compose) \in DOMAIN c.list /\ c.list \in Tables(latest, lastRow)
        BY <3>3 DEF ChangedElsewhere, Calls
      <4>2. c.list[RowOf(compose)].letter # 0
        <5>1. c.list[RowOf(compose)].letter \in DOMAIN latest /\ latest \in Seq(Nat)
          BY <4>1, Held0, RowIs, TextIs
        <5>2. 0 \notin DOMAIN latest
          BY <5>1
        <5> QED
          BY <5>1, <5>2
      <4> QED
        BY <2>1, <3>1, <3>3, <4>2 DEF LetterBox, Open
    <3> QED
      BY <3>1, <3>2, <3>3 DEF Hears
  <2> QED
    BY <2>1
<1>8. BoxAlone'
  BY <1>1, <1>6 DEF Alone, BoxAlone
<1>9. Turns'
  BY <1>1, <1>3, <1>5, <1>7 DEF Alone, Turns
<1> QED
  BY <1>2, <1>8, <1>9 DEF Alone

(* Nothing is there twice at first. *)
LEMMA InitAlone == Init => Alone
<1> SUFFICES ASSUME Init PROVE Alone
  OBVIOUS
<1>1. DOMAIN rows = {} /\ DOMAIN sends = {} /\ slow = {} /\ ~Open /\ DOMAIN waiting = {}
  BY DEF Init, Open, NoBox
<1>2. Sendings = {} /\ Enders = {} /\ Unundone = {}
  BY <1>1 DEF Sendings, Enders, Unundone, Range
<1> QED
  BY <1>1, <1>2 DEF Alone, Sole, Outside, BoxAlone, Turns

(* A single state comes from a single one. *)
LEMMA SingleBefore == Single' /\ [Next]_vars => Single
<1>1. Next => slips \subseteq slips'
  BY SlipsGrow
<1> QED
  BY <1>1 DEF Single, Happened, vars

(* A step that changes nothing is idle. *)
LEMMA StutterIdles == UNCHANGED vars => Idles
<1> SUFFICES ASSUME UNCHANGED vars PROVE Idles
  OBVIOUS
<1>1. Mail' = Mail /\ Enders' = Enders
  BY DEF vars, lines, Mail, MailOf, Enders
<1>2. timer' \in {timer, FALSE} /\ collapsed' = collapsed
  BY DEF vars, box
<1> QED
  BY <1>1, <1>2 DEF Idles, vars, box, lines, table, history

(* Every step keeps a letter alone. *)
LEMMA StepAlone == TypeOK /\ Base /\ (Single => Alone) /\ [Next]_vars => (Single' => Alone')
<1> SUFFICES ASSUME TypeOK, Base, Single => Alone, [Next]_vars, Single' PROVE Alone'
  OBVIOUS
<1>0. Alone /\ Boxed /\ Named /\ Calm'
  BY SingleBefore, SingleIs, CalmBefore DEF Base
<1>1. PICK L \in [Nat -> Nat] : Names(L)
  BY <1>0 DEF Named
<1>2. CASE UNCHANGED vars
  BY <1>0, <1>2, StutterIdles, IdlesAlone
<1>3. CASE Next
  <2>1. Kinds
    BY <1>0, <1>3, Steps
  <2> QED
    BY <1>0, <1>1, <2>1, IdlesAlone, WaitsAlone, ClosesAlone, CollapsesAlone, WritesAlone, PostsAlone, StartsAlone,
       ReopensAlone, LeavesAlone, RefusesAlone, ReturnsAlone, TypeAlone, TableAlone, HearsAlone DEF Kinds
<1> QED
  BY <1>2, <1>3

(* While none of the five slips happened, a letter is one row, or one      *)
(* message, or one thing being sent.                                       *)
THEOREM ComposerAlone == Spec => [](Single => Alone)
<1>1. Init => (Single => Alone)
  BY InitAlone
<1>2. TypeOK /\ Base /\ (Single => Alone) /\ [Next]_vars => (Single => Alone)'
  BY StepAlone
<1> QED
  BY ComposerTypes, ComposerBase, <1>1, <1>2, PTL DEF Spec

(* A letter has one row, but for the slips OneRowEach names: typed,        *)
(* opened, again, strip and stale.                                         *)
THEOREM ComposerOneRow == Spec => []OneRowEach
<1>1. (Single => Alone) => OneRowEach
  BY DEF Single, Alone, Sole, OneRowEach
<1> QED
  BY ComposerAlone, <1>1, PTL

(* A letter is sent once at most, whatever was undone before, but for the  *)
(* slips SentOnce names: typed, opened, again, strip and stale.            *)
THEOREM ComposerSentOnce == Spec => []SentOnce
<1>1. (Single => Alone) => SentOnce
  BY DEF Single, Alone, Outside, Unundone, SentOnce
<1> QED
  BY ComposerAlone, <1>1, PTL

-----------------------------------------------------------------------------
(* Ends: a box ends once at a time, whatever is typed meanwhile. *)

Apart == ~Happened({"opened", "again", "strip", "stale"})

(* One end of a box at a time, whatever is typed meanwhile.                *)
Ends ==
  /\ (Enders # {} => Open /\ Sendings = {})
  /\ (Sendings # {} => Open)
  /\ \A b, c \in Sendings : b = c
  /\ \A i, j \in DOMAIN waiting : waiting[i].kind # "autosave" /\ waiting[j].kind # "autosave" => i = j

(* A state apart had none of four slips. *)
LEMMA ApartIs ==
  ASSUME Apart'
  PROVE  "opened" \notin slips' /\ "again" \notin slips' /\ "strip" \notin slips' /\ "stale" \notin slips' /\ Calm'
BY DEF Apart, Calm, Happened

(* A state apart comes from one. *)
LEMMA ApartBefore == Apart' /\ [Next]_vars => Apart
<1>1. Next => slips \subseteq slips'
  BY SlipsGrow
<1> QED
  BY <1>1 DEF Apart, Happened, vars

(* A step at once ends nothing that has begun. *)
LEMMA NowAlone ==
  ASSUME Apart', NEW d, Now(d)
  PROVE  Enders = {} /\ Sendings = {} /\ Saves = {} /\ Open /\ d = compose /\ waiting' = <<>> /\ waiting = <<>> /\ timer' = FALSE
BY ApartIs, Seen DEF Now

(* What waited and ends the box is the only one that did. *)
LEMMA LaterEnds ==
  ASSUME TypeOK, Boxed, Ends, NEW w \in Waiters(latest, lastRow), Later(w)
  PROVE  /\ Saves = {} /\ (timer' <=> timer) /\ waiting # <<>>
         /\ w.kind # "autosave" =>
              /\ Enders' = {} /\ Sendings = {} /\ Open /\ w \in Enders
              /\ w.d.letter = compose.letter /\ w.d.row = compose.row /\ RowOf(w.d) = RowOf(compose) /\ RowOf(compose) # 0
         /\ \A i, j \in DOMAIN waiting' : waiting'[i].kind # "autosave" /\ waiting'[j].kind # "autosave" => i = j
<1>0. waiting \in Seq(Waiters(latest, lastRow)) /\ waiting # <<>> /\ w = Head(waiting) /\ waiting' = Tail(waiting)
      /\ ~Saving /\ UNCHANGED timer
  BY Held0 DEF Later
<1>1. Saves = {} /\ (timer' <=> timer)
  BY <1>0, Seen
<1>2. ASSUME w.kind # "autosave"
      PROVE  /\ Enders' = {} /\ Sendings = {} /\ Open /\ w \in Enders
             /\ w.d.letter = compose.letter /\ w.d.row = compose.row /\ RowOf(w.d) = RowOf(compose) /\ RowOf(compose) # 0
  <2>1. w \in Enders
    BY <1>2, LaterIs
  <2>2. 1 \in DOMAIN waiting /\ waiting[1] = w
    BY <1>0
  <2>3. \A i \in DOMAIN waiting : i # 1 => waiting[i].kind = "autosave"
    BY <1>2, <2>2 DEF Ends
  <2>4. \A i \in DOMAIN waiting' : waiting'[i].kind = "autosave"
    <3>1. \A i \in DOMAIN waiting' : i + 1 \in DOMAIN waiting /\ i + 1 # 1 /\ waiting'[i] = waiting[i + 1]
      BY <1>0
    <3> QED
      BY <2>3, <3>1
  <2>5. Enders' = {}
    BY <2>4 DEF Enders, Range
  <2> QED
    BY <1>1, <2>1, <2>5, Seen DEF Ends, Boxed, RowOf
<1>3. \A i, j \in DOMAIN waiting' : waiting'[i].kind # "autosave" /\ waiting'[j].kind # "autosave" => i = j
  <2>1. \A i \in DOMAIN waiting' : i \in Nat /\ i + 1 \in DOMAIN waiting /\ waiting'[i] = waiting[i + 1]
    BY <1>0
  <2> QED
    BY <2>1 DEF Ends
<1> QED
  BY <1>0, <1>1, <1>2, <1>3

(* Without anyone who ends a box nobody is there twice. *)
LEMMA NoEnders ==
  ASSUME Enders' = {}
  PROVE  \A i, j \in DOMAIN waiting' : waiting'[i].kind # "autosave" /\ waiting'[j].kind # "autosave" => i = j
BY DEF Enders, Range

(* Where nobody joined, nobody is there twice. *)
LEMMA WaitingEnds ==
  ASSUME waiting' = waiting, Ends
  PROVE  \A i, j \in DOMAIN waiting' : waiting'[i].kind # "autosave" /\ waiting'[j].kind # "autosave" => i = j
BY DEF Ends

(* An answer leaves the box open. *)
LEMMA HearsOpen ==
  ASSUME TypeOK, NEW c \in Calls(latest, lastRow), NEW M \in SUBSET Calls(latest, lastRow), Hears(c, M), Open
  PROVE  Open'
<1>1. ASSUME ~Open' PROVE FALSE
  <2>1. compose \in LetterBox(latest, lastRow) /\ compose' # compose
    BY <1>1, Held0 DEF Open
  <2>2. CASE compose' = [compose EXCEPT !.row = c.row]
    BY <1>1, <2>1, <2>2 DEF LetterBox, Open
  <2>3. CASE c.kind = "list" /\ ChangedElsewhere(c.list) /\ compose' = [compose EXCEPT !.letter = c.list[RowOf(compose)].letter, !.version = c.list[RowOf(compose)].version]
    <3>1. RowOf(compose) \in DOMAIN c.list /\ c.list \in Tables(latest, lastRow)
      BY <2>3 DEF ChangedElsewhere, Calls
    <3>2. c.list[RowOf(compose)].letter # 0
      <4>1. c.list[RowOf(compose)].letter \in DOMAIN latest /\ latest \in Seq(Nat)
        BY <3>1, Held0, RowIs, TextIs
      <4>2. 0 \notin DOMAIN latest
        BY <4>1
      <4> QED
        BY <4>1, <4>2
    <3> QED
      BY <1>1, <2>1, <2>3, <3>2 DEF LetterBox, Open
  <2> QED
    BY <2>1, <2>2, <2>3 DEF Hears
<1> QED
  BY <1>1

(* No step of any kind makes a second end of a box. *)
LEMMA KindEnds == TypeOK /\ Boxed /\ Ends /\ Apart' /\ Kinds => Ends'
<1> SUFFICES ASSUME TypeOK, Boxed, Ends, Apart', Kinds PROVE Ends'
  OBVIOUS
<1>0. waiting \in Seq(Waiters(latest, lastRow))
  BY Held0
<1>1. CASE Idles
  <2>1. Enders' = Enders /\ Sendings' = Sendings /\ (Open' <=> Open)
    BY <1>1 DEF Idles, Sendings, Open
  <2>2. \A i, j \in DOMAIN waiting' : waiting'[i].kind # "autosave" /\ waiting'[j].kind # "autosave" => i = j
    <3>1. CASE waiting' = waiting
      BY <3>1, WaitingEnds
    <3>2. ASSUME NEW w \in Waiters(latest, lastRow), w.kind = "autosave", waiting' = Append(waiting, w)
          PROVE  \A i, j \in DOMAIN waiting' : waiting'[i].kind # "autosave" /\ waiting'[j].kind # "autosave" => i = j
      BY <1>0, <3>2 DEF Ends
    <3>3. CASE waiting # <<>> /\ waiting' = Tail(waiting)
      <4>1. \A i \in DOMAIN waiting' : i \in Nat /\ i + 1 \in DOMAIN waiting /\ waiting'[i] = waiting[i + 1]
        BY <1>0, <3>3
      <4> QED
        BY <4>1 DEF Ends
    <3> QED
      BY <1>1, <3>1, <3>2, <3>3 DEF Idles
  <2> QED
    BY <2>1, <2>2 DEF Ends
<1>2. ASSUME NEW w \in Waiters(latest, lastRow), Waits(w) PROVE Ends'
  <2>1. Enders = {} /\ Sendings = {} /\ Sendings' = Sendings /\ Open' /\ waiting' = Append(waiting, w)
    BY <1>2, ApartIs, Seen DEF Waits, Sendings, Open, box
  <2>2. \A i \in DOMAIN waiting : waiting[i].kind = "autosave"
    BY <2>1 DEF Enders, Range
  <2>3. \A i, j \in DOMAIN waiting' : waiting'[i].kind # "autosave" /\ waiting'[j].kind # "autosave" => i = j
    BY <1>0, <2>1, <2>2
  <2> QED
    BY <2>1, <2>3 DEF Ends
<1>3. ASSUME NEW d, NEW keep, Closes(d, keep) PROVE Ends'
  <2>1. Sendings = {} /\ Enders' = {}
    BY <1>3, NowAlone, NowIs, LaterEnds DEF Closes
  <2>2. Sendings' = {}
    BY <1>3, <2>1 DEF Closes, Sendings
  <2> QED
    BY <2>1, <2>2, NoEnders DEF Ends
<1>4. ASSUME NEW d, Collapses(d) PROVE Ends'
  <2>1. Sendings = {} /\ Enders' = {}
    BY <1>4, NowAlone, NowIs, LaterEnds DEF Collapses
  <2>2. Sendings' = {}
    BY <1>4, <2>1 DEF Collapses, Sendings
  <2> QED
    BY <2>1, <2>2, NoEnders DEF Ends
<1>5. ASSUME NEW d, Posts(d) PROVE Ends'
  <2>1. Sendings = {} /\ Enders' = {} /\ Open
    BY <1>5, NowAlone, NowIs, LaterEnds DEF Posts
  <2>2. PICK s : slow' = slow \cup {s}
    BY <1>5 DEF Posts, Post
  <2>3. Open' /\ Sendings' \subseteq {s}
    BY <1>5, <2>1, <2>2 DEF Posts, box, Open, Sendings
  <2> QED
    BY <2>1, <2>3, NoEnders DEF Ends
<1>6. CASE Writes
  <2>1. Enders' = Enders /\ Sendings' = Sendings /\ Open'
    BY <1>6 DEF Writes, Sendings, Open
  <2>2. CASE waiting' = <<>>
    <3>1. Enders' = {}
      BY <2>2 DEF Enders, Range
    <3> QED
      BY <2>1, <3>1, NoEnders DEF Ends
  <2>3. CASE \E w \in Waiters(latest, lastRow) : Later(w) /\ w.kind = "autosave"
    BY <2>1, <2>3, LaterEnds DEF Ends
  <2> QED
    BY <1>6, <2>2, <2>3 DEF Writes
<1>7. CASE Type
  <2>1. compose \in LetterBox(latest, lastRow) /\ Open
    BY <1>7, Held0 DEF Type
  <2>2. compose'.letter = compose.letter
    BY <1>7, <2>1 DEF Type, LetterBox
  <2>3. Enders' = Enders /\ Sendings' = Sendings /\ Open' /\ waiting' = waiting
    BY <1>7, <2>1, <2>2 DEF Type, Sendings, Enders, Open, lines
  <2> QED
    BY <2>3, WaitingEnds DEF Ends
<1>8. ASSUME NEW place, Starts(place) PROVE Ends'
  <2>1. Enders = {} /\ Sendings = {} /\ Saves = {} /\ Strips = {}
    BY <1>8, Seen DEF Starts
  <2>2. Enders' = {} /\ Sendings' = {}
    BY <1>8, <2>1, ParksMail DEF Starts, Enders, Sendings
  <2> QED
    BY <2>2, NoEnders DEF Ends
<1>9. ASSUME NEW t, NEW r, Reopens(t, r) PROVE Ends'
  <2>1. Enders = {} /\ Sendings = {} /\ Saves = {} /\ Strips = {}
    BY <1>9, Seen DEF Reopens
  <2>2. Enders' = {} /\ Sendings' = {}
    BY <1>9, <2>1, ParksMail DEF Reopens, Enders
  <2> QED
    BY <2>2, NoEnders DEF Ends
<1>10. ASSUME NEW c, Leaves(c) PROVE Ends'
  <2>1. c \in Sendings /\ Sendings' = Sendings \ {c} /\ Enders' = Enders
    BY <1>10 DEF Leaves, Sendings, Enders
  <2>2. Sendings' = {} /\ Enders' = {}
    BY <2>1 DEF Ends
  <2> QED
    BY <2>2, NoEnders DEF Ends
<1>11. ASSUME NEW c, Refuses(c) PROVE Ends'
  <2>1. Sendings' \subseteq Sendings /\ Enders' = Enders /\ waiting' = waiting /\ (Open' <=> Open)
    BY <1>11 DEF Refuses, Sendings, Enders, box, Open
  <2> QED
    BY <2>1, WaitingEnds DEF Ends
<1>12. ASSUME NEW i, Returns(i) PROVE Ends'
  <2>1. PICK u : u.kind = "undo" /\ slow' = slow \cup {u}
    BY <1>12 DEF Returns
  <2>2. Sendings' = Sendings /\ Enders' = Enders /\ waiting' = waiting /\ (Open' <=> Open)
    BY <1>12, <2>1 DEF Returns, Sendings, Enders, box, Open
  <2> QED
    BY <2>2, WaitingEnds DEF Ends
<1>13. ASSUME NEW c \in Calls(latest, lastRow), NEW M \in SUBSET Calls(latest, lastRow), Hears(c, M) PROVE Ends'
  <2>1. Sendings' = Sendings /\ Enders' = Enders /\ waiting' = waiting
    BY <1>13 DEF Hears, Sendings, Enders
  <2> QED
    BY <1>13, <2>1, WaitingEnds, HearsOpen DEF Ends
<1>14. ASSUME NEW r \in DOMAIN rows, Edits(r) \/ Goes(r) PROVE Ends'
  <2>1. Sendings' = Sendings /\ Enders' = Enders /\ waiting' = waiting /\ (Open' <=> Open)
    BY <1>14 DEF Edits, Goes, Sendings, Enders, box, Open
  <2> QED
    BY <2>1, WaitingEnds DEF Ends
<1> QED
  BY <1>1, <1>2, <1>3, <1>4, <1>5, <1>6, <1>7, <1>8, <1>9, <1>10, <1>11, <1>12, <1>13, <1>14 DEF Kinds

(* Nor does any step. *)
LEMMA StepEnds == TypeOK /\ Base /\ (Apart => Ends) /\ [Next]_vars => (Apart' => Ends')
<1> SUFFICES ASSUME TypeOK, Base, Apart => Ends, [Next]_vars, Apart' PROVE Ends'
  OBVIOUS
<1>0. Ends /\ Boxed /\ Calm'
  BY ApartBefore, ApartIs, CalmBefore DEF Base
<1>1. Kinds
  BY <1>0, Steps, StutterIdles DEF Kinds
<1> QED
  BY <1>0, <1>1, KindEnds

(* Nothing ends at first. *)
LEMMA InitEnds == Init => Ends
<1> SUFFICES ASSUME Init PROVE Ends
  OBVIOUS
<1>1. Sendings = {} /\ Enders = {} /\ DOMAIN waiting = {}
  BY DEF Init, Sendings, Enders, Range
<1> QED
  BY <1>1 DEF Ends

(* While none of the four slips happened, a box ends once at a time. *)
THEOREM ComposerEnds == Spec => [](Apart => Ends)
<1>1. Init => (Apart => Ends)
  BY InitEnds
<1>2. TypeOK /\ Base /\ (Apart => Ends) /\ [Next]_vars => (Apart => Ends)'
  BY StepEnds
<1> QED
  BY ComposerTypes, ComposerBase, <1>1, <1>2, PTL DEF Spec

-----------------------------------------------------------------------------
(* Separate: a text lies in one place, and what was sent in none. *)

Lists == {c.list : c \in {e \in Mail : e.kind = "list"}}
SentTexts == {sends[i].text : i \in Unundone}
Posted == {c.text : c \in Sendings}

(* The texts that are the open box's: that in it and those to be closed or *)
(* sent; and those that a list could bring it.                             *)
Own(t) == Open /\ (t = Text(compose) \/ \E w \in Enders : t = Text(w.d))
Near(t) == Own(t) \/ (Open /\ \E l \in Lists : \E r \in DOMAIN l : InBox(r) /\ l[r] = t)

(* Where a text lies or may yet be written.                                *)
Lives(q, t) ==
  /\ q \in DOMAIN rows
  /\ \/ rows[q] = t
     \/ \E l \in Lists : q \in DOMAIN l /\ l[q] = t
     \/ InBox(q) /\ Own(t)

(* A text lies in one place; what is sent or being sent lies in none.      *)
Parted ==
  /\ \A p, q, t : Lives(p, t) /\ Lives(q, t) => p = q
  /\ \A q, t : Lives(q, t) => t \notin SentTexts /\ t \notin Posted
  /\ \A q, t : Lives(q, t) /\ Near(t) => InBox(q)
  /\ \A t : Near(t) => t \notin SentTexts

SentApart ==
  /\ \A i, j \in Unundone : sends[i].text = sends[j].text => i = j
  /\ Posted \cap SentTexts = {}

(* The text in the box while it is being sent: no save can bring it back.  *)
Gone ==
  Open /\ Text(compose) \in Posted =>
    /\ \A q \in DOMAIN rows : ~InBox(q)
    /\ (RowOf(compose) = 0 /\ Saves = {} /\ Strips = {} => ~timer /\ waiting = <<>>)

Separate == Parted /\ SentApart /\ Gone

(* The lists on their way, after one more call. *)
LEMMA ListsAdd ==
  ASSUME NEW e, Mail' = Mail \cup {e}
  PROVE  Lists' = IF e.kind = "list" THEN Lists \cup {e.list} ELSE Lists
BY DEF Lists

(* And after none. *)
LEMMA ListsSame == Mail' = Mail => Lists' = Lists
BY DEF Lists

(* What was sent and is being sent, where neither changed. *)
LEMMA SentSame ==
  /\ sends' = sends => Unundone' = Unundone /\ SentTexts' = SentTexts
  /\ Sendings' = Sendings => Posted' = Posted
BY DEF SentTexts, Posted, Unundone

(* A text that lies or is sent has been written, and no version of it is   *)
(* newer than the last.                                                    *)
LEMMA OldTexts ==
  ASSUME TypeOK, NEW t
  PROVE  /\ (\E q : Lives(q, t)) \/ Near(t) => t.letter \in DOMAIN latest /\ t.version <= latest[t.letter]
         /\ t \in SentTexts \cup Posted => t.letter \in DOMAIN latest /\ t.version <= latest[t.letter] /\ t.version # 0
<1>0. /\ latest \in Seq(Nat) /\ lastRow \in Nat /\ rows \in Tables(latest, lastRow) /\ Mail \subseteq Calls(latest, lastRow)
      /\ waiting \in Seq(Waiters(latest, lastRow)) /\ slow \subseteq Errands(latest, lastRow) /\ sends \in Seq(Messages(latest))
      /\ (Open => compose \in LetterBox(latest, lastRow))
  BY Held0
<1>1. \A l \in Lists : l \in Tables(latest, lastRow)
  BY <1>0 DEF Lists, Calls
<1>2. ASSUME NEW l \in Tables(latest, lastRow), NEW q \in DOMAIN l PROVE l[q] \in TextOf(latest)
  BY <1>0, RowIs
<1>3. ASSUME NEW w \in Enders PROVE w.d \in LetterBox(latest, lastRow)
  <2>1. w \in Waiters(latest, lastRow) /\ w.kind # "autosave"
    BY <1>0, SeqRange DEF Enders
  <2> QED
    BY <2>1 DEF Waiters
<1>4. ASSUME NEW d \in LetterBox(latest, lastRow) PROVE Text(d).letter \in DOMAIN latest /\ Text(d).version <= latest[Text(d).letter]
  <2>1. d.letter \in DOMAIN latest /\ d.version <= latest[d.letter] /\ Text(d).letter = d.letter /\ Text(d).version = d.version
    BY <1>0, TextIs
  <2> QED
    BY <2>1
<1>5. Own(t) => t.letter \in DOMAIN latest /\ t.version <= latest[t.letter]
  BY <1>0, <1>3, <1>4 DEF Own
<1>6. t \in TextOf(latest) => t.letter \in DOMAIN latest /\ t.version <= latest[t.letter] /\ t.version # 0
  BY <1>0, TextIs
<1>7. ASSUME t \in SentTexts \cup Posted PROVE t \in TextOf(latest)
  <2>1. CASE t \in SentTexts
    <3>1. PICK i \in DOMAIN sends : sends[i].text = t
      BY <2>1 DEF SentTexts, Unundone
    <3>2. sends[i] \in Messages(latest)
      BY <1>0, <3>1
    <3> QED
      BY <3>1, <3>2 DEF Messages
  <2>2. CASE t \in Posted
    BY <1>0, <2>2 DEF Posted, Sendings, Errands
  <2> QED
    BY <1>7, <2>1, <2>2
<1>8. Near(t) => Own(t) \/ t \in TextOf(latest)
  BY <1>1, <1>2 DEF Near
<1>9. (\E q : Lives(q, t)) => Own(t) \/ t \in TextOf(latest)
  BY <1>0, <1>1, <1>2 DEF Lives
<1> QED
  BY <1>5, <1>6, <1>7, <1>8, <1>9

(* Where texts lie after a step that puts text x in row m at most.         *)
LEMMA LivesThen ==
  ASSUME NEW m, NEW x,
         \A q \in DOMAIN rows' : (q \in DOMAIN rows /\ rows'[q] = rows[q]) \/ (q = m /\ rows'[q] = x),
         \A l \in Lists' : l \in Lists \/ l = rows',
         m \in DOMAIN rows' => m \in DOMAIN rows \/ \A l \in Lists : m \notin DOMAIN l,
         \A q \in DOMAIN rows' : \A t : InBox(q)' /\ Own(t)' => Lives(q, t) \/ (q = m /\ t = x)
  PROVE  \A q, t : Lives(q, t)' => Lives(q, t) \/ (q = m /\ t = x)
<1> SUFFICES ASSUME NEW q, NEW t, Lives(q, t)' PROVE Lives(q, t) \/ (q = m /\ t = x)
  OBVIOUS
<1>0. q \in DOMAIN rows'
  BY DEF Lives
<1>1. CASE rows'[q] = t
  BY <1>0, <1>1 DEF Lives
<1>2. ASSUME NEW l \in Lists', q \in DOMAIN l, l[q] = t PROVE Lives(q, t) \/ (q = m /\ t = x)
  <2>1. CASE l = rows'
    BY <1>0, <1>1, <1>2, <2>1
  <2>2. CASE l \in Lists
    BY <1>0, <1>2, <2>2 DEF Lives
  <2> QED
    BY <1>2, <2>1, <2>2
<1>3. CASE InBox(q)' /\ Own(t)'
  BY <1>0, <1>3
<1> QED
  BY <1>1, <1>2, <1>3 DEF Lives

(* What a list could bring the box after a step.                           *)
LEMMA NearThen ==
  ASSUME \A l \in Lists' : l \in Lists \/ l = rows',
         Open' => Open,
         \A r : InBox(r)' => InBox(r) \/ \A l \in Lists : r \notin DOMAIN l,
         NEW t, Near(t)'
  PROVE  Near(t) \/ Own(t)' \/ \E r : InBox(r)' /\ Lives(r, t)'
<1>1. ASSUME NEW l \in Lists', NEW r \in DOMAIN l, InBox(r)', l[r] = t, Open' PROVE Near(t) \/ \E q : InBox(q)' /\ Lives(q, t)'
  <2>1. CASE l = rows'
    BY <1>1, <2>1 DEF Lives
  <2>2. CASE l \in Lists
    BY <1>1, <2>2 DEF Near
  <2> QED
    BY <1>1, <2>1, <2>2
<1> QED
  BY <1>1 DEF Near

(* A step that lets one text x into one row m, where it lay nowhere else,  *)
(* keeps texts apart.                                                      *)
LEMMA Spread ==
  ASSUME Parted, NEW m, NEW x,
         \A q, t : Lives(q, t)' => Lives(q, t) \/ (q = m /\ t = x),
         Lives(m, x)' => (\A p : Lives(p, x) => p = m) /\ x \notin SentTexts' /\ x \notin Posted',
         \A t \in SentTexts' : t \in SentTexts \/ (t \in Posted /\ ~Open'),
         \A t \in Posted' : t \in Posted \/ \A q : ~Lives(q, t)',
         \A t : Near(t)' => \/ Near(t) /\ Open' /\ \A q : Lives(q, t)' => InBox(q)'
                            \/ \E r : InBox(r)' /\ Lives(r, t)'
                            \/ t \notin SentTexts' /\ \A q : ~Lives(q, t)'
  PROVE  Parted'
<1>1. ASSUME NEW p, NEW q, NEW t, Lives(p, t)', Lives(q, t)' PROVE p = q
  BY <1>1 DEF Parted
<1>2. ASSUME NEW q, NEW t, Lives(q, t)' PROVE t \notin SentTexts' /\ t \notin Posted'
  BY <1>2 DEF Parted
<1>3. ASSUME NEW q, NEW t, Lives(q, t)', Near(t)' PROVE InBox(q)'
  <2>1. CASE \E r : InBox(r)' /\ Lives(r, t)'
    BY <1>1, <1>3, <2>1
  <2> QED
    BY <1>3, <2>1
<1>4. ASSUME NEW t, Near(t)' PROVE t \notin SentTexts'
  BY <1>2, <1>4 DEF Parted
<1> QED
  BY <1>1, <1>2, <1>3, <1>4 DEF Parted

(* A step that puts no text anywhere.                                      *)
LEMMA SpreadNot ==
  ASSUME Parted,
         \A q, t : Lives(q, t)' => Lives(q, t),
         \A t \in SentTexts' : t \in SentTexts \/ (t \in Posted /\ ~Open'),
         \A t \in Posted' : t \in Posted \/ \A q : ~Lives(q, t)',
         \A t : Near(t)' => \/ Near(t) /\ Open' /\ \A q : Lives(q, t)' => InBox(q)'
                            \/ \E r : InBox(r)' /\ Lives(r, t)'
                            \/ t \notin SentTexts' /\ \A q : ~Lives(q, t)'
  PROVE  Parted'
<1>1. ASSUME NEW p, NEW q, NEW t, Lives(p, t)', Lives(q, t)' PROVE p = q
  BY <1>1 DEF Parted
<1>2. ASSUME NEW q, NEW t, Lives(q, t)' PROVE t \notin SentTexts' /\ t \notin Posted'
  BY <1>2 DEF Parted
<1>3. ASSUME NEW q, NEW t, Lives(q, t)', Near(t)' PROVE InBox(q)'
  <2>1. CASE \E r : InBox(r)' /\ Lives(r, t)'
    BY <1>1, <1>3, <2>1
  <2> QED
    BY <1>3, <2>1
<1>4. ASSUME NEW t, Near(t)' PROVE t \notin SentTexts'
  BY <1>2, <1>4 DEF Parted
<1> QED
  BY <1>1, <1>2, <1>3, <1>4 DEF Parted

(* A step that keeps the box, its rows and its texts.                      *)
LEMMA BoxKept ==
  ASSUME Parted,
         \A q \in DOMAIN rows' : q \in DOMAIN rows /\ rows'[q] = rows[q],
         \A l \in Lists' : l \in Lists \/ l = rows',
         Open' => Open,
         \A r : Open' /\ InBox(r)' => InBox(r),
         \A r : Open' /\ InBox(r) => InBox(r)',
         \A q, t : Open' /\ q \in DOMAIN rows' /\ InBox(q)' /\ Own(t)' => Lives(q, t),
         \A t : Own(t)' => Near(t),
         SentTexts' \subseteq SentTexts, Posted' \subseteq Posted
  PROVE  Parted'
<1>1. ASSUME NEW q, NEW t, Lives(q, t)' PROVE Lives(q, t)
  <2>0. q \in DOMAIN rows' /\ q \in DOMAIN rows /\ rows'[q] = rows[q]
    BY <1>1 DEF Lives
  <2>1. ASSUME NEW l \in Lists', q \in DOMAIN l, l[q] = t PROVE Lives(q, t)
    BY <2>0, <2>1 DEF Lives
  <2>2. Own(t)' => Open'
    BY DEF Own
  <2> QED
    BY <1>1, <2>0, <2>1, <2>2 DEF Lives
<1>2. ASSUME NEW t, Near(t)' PROVE (Near(t) /\ Open') \/ \E r : InBox(r)' /\ Lives(r, t)'
  <2>1. Open'
    BY <1>2 DEF Near, Own
  <2>2. ASSUME NEW l \in Lists', NEW r \in DOMAIN l, InBox(r)', l[r] = t PROVE Near(t) \/ \E p : InBox(p)' /\ Lives(p, t)'
    <3>1. CASE l = rows'
      BY <2>2, <3>1 DEF Lives
    <3>2. CASE l \in Lists
      BY <2>1, <2>2, <3>2 DEF Near
    <3> QED
      BY <2>2, <3>1, <3>2
  <2> QED
    BY <1>2, <2>1, <2>2 DEF Near
<1>3. \A q, t : Lives(q, t)' => Lives(q, t)
  BY <1>1
<1>4. \A t : Near(t)' => \/ Near(t) /\ Open' /\ \A q : Lives(q, t)' => InBox(q)'
                         \/ \E r : InBox(r)' /\ Lives(r, t)'
                         \/ t \notin SentTexts' /\ \A q : ~Lives(q, t)'
  <2> SUFFICES ASSUME NEW t, Near(t)', Near(t), Open' PROVE \A q : Lives(q, t)' => InBox(q)'
    BY <1>2
  <2> QED
    BY <1>1 DEF Parted
<1>5. \A t \in SentTexts' : t \in SentTexts
  OBVIOUS
<1>6. \A t \in Posted' : t \in Posted
  OBVIOUS
<1> QED
  BY <1>3, <1>4, <1>5, <1>6, SpreadNot

(* The table after a save of text x. *)
LEMMA SavedWhere ==
  ASSUME TypeOK, NEW r \in 0 .. lastRow, NEW x, SaveDraft(r, x)
  PROVE  /\ \A q \in DOMAIN rows' : (q \in DOMAIN rows /\ rows'[q] = rows[q]) \/ (q = SavedRow(r) /\ rows'[q] = x)
         /\ SavedRow(r) \in DOMAIN rows' => SavedRow(r) \in DOMAIN rows \/ \A l \in Lists : SavedRow(r) \notin DOMAIN l
         /\ \A q \in DOMAIN rows : q \in DOMAIN rows'
         /\ (r # 0 => DOMAIN rows' = DOMAIN rows)
         /\ SavedRow(r) # 0
         /\ (r # 0 => SavedRow(r) = r)
<1>0. lastRow \in Nat /\ latest \in Seq(Nat) /\ rows \in Tables(latest, lastRow) /\ Mail \subseteq Calls(latest, lastRow)
  BY Held0
<1>1. \A l \in Lists : \A q \in DOMAIN l : q \in 1 .. lastRow
  <2>1. \A l \in Lists : l \in Tables(latest, lastRow)
    BY <1>0 DEF Lists, Calls
  <2> QED
    BY <1>0, <2>1, RowIs
<1>2. CASE r = 0
  <2>1. rows' = With(rows, lastRow + 1, x) /\ SavedRow(r) = lastRow + 1
    BY <1>2 DEF SaveDraft, SavedRow
  <2>2. \A l \in Lists : lastRow + 1 \notin DOMAIN l
    BY <1>0, <1>1
  <2> QED
    BY <1>0, <1>2, <2>1, <2>2 DEF With
<1>3. CASE r # 0
  BY <1>3 DEF SaveDraft, SavedRow
<1> QED
  BY <1>2, <1>3

(* The text that is saved lies in its row at most.                         *)
LEMMA SavedOnce ==
  ASSUME Boxed, Parted, Open, NEW r, NEW x, Near(x), r = 0 => \A q : ~InBox(q), r # 0 => InBox(r)
  PROVE  \A p : Lives(p, x) => p = r
BY BoxRowIs DEF Parted

(* The end of a close, or a park.                                          *)
LEMMA KeepSpread ==
  ASSUME TypeOK, Boxed, Parted, Sendings = {}, NEW d \in LetterBox(latest, lastRow), NEW keep, KeepRow(d, keep),
         Open, Own(Text(d)), RowOf(d) = 0 => \A q : ~InBox(q), RowOf(d) # 0 => InBox(RowOf(d))
  PROVE  \E m, x :
           /\ \A q \in DOMAIN rows' : (q \in DOMAIN rows /\ rows'[q] = rows[q]) \/ (q = m /\ rows'[q] = x)
           /\ m \in DOMAIN rows' => m \in DOMAIN rows \/ \A l \in Lists : m \notin DOMAIN l
           /\ m \in DOMAIN rows' => \A p : Lives(p, x) => p = m
           /\ x \notin SentTexts /\ Posted = {} /\ x = Text(d)
           /\ \A q \in DOMAIN rows : q # RowOf(d) => q \in DOMAIN rows' /\ rows'[q] = rows[q]
<1>0. Near(Text(d)) /\ Text(d) \notin SentTexts /\ Posted = {} /\ \A p : Lives(p, Text(d)) => p = RowOf(d)
  <2>1. Near(Text(d))
    BY DEF Near
  <2> QED
    BY <2>1, SavedOnce DEF Parted, Posted
<1>r. RowOf(d) \in 0 .. lastRow
  BY Held0, BoxIs
<1>1. CASE SaveDraft(RowOf(d), Text(d))
  <2>1. \A q \in DOMAIN rows : q # RowOf(d) => q \in DOMAIN rows' /\ rows'[q] = rows[q]
    <3>1. \A q \in DOMAIN rows : q # lastRow + 1
      BY Held0, RowIs
    <3> QED
      BY <1>1, <3>1 DEF SaveDraft, With
  <2>2. ASSUME SavedRow(RowOf(d)) \in DOMAIN rows' PROVE \A p : Lives(p, Text(d)) => p = SavedRow(RowOf(d))
    <3>1. CASE RowOf(d) # 0
      BY <1>0, <3>1 DEF SavedRow
    <3>2. CASE RowOf(d) = 0
      <4>1. \A p : ~Lives(p, Text(d))
        BY <1>0, <3>2, Held0, RowIs DEF Lives
      <4> QED
        BY <4>1
    <3> QED
      BY <3>1, <3>2
  <2>3. /\ \A q \in DOMAIN rows' : (q \in DOMAIN rows /\ rows'[q] = rows[q]) \/ (q = SavedRow(RowOf(d)) /\ rows'[q] = Text(d))
        /\ SavedRow(RowOf(d)) \in DOMAIN rows' => SavedRow(RowOf(d)) \in DOMAIN rows \/ \A l \in Lists : SavedRow(RowOf(d)) \notin DOMAIN l
    BY <1>1, <1>r, SavedWhere
  <2> QED
    BY <1>0, <2>1, <2>2, <2>3
<1>2. CASE DeleteRow(RowOf(d))
  <2>1. /\ RowOf(d) \notin DOMAIN rows' /\ \A q \in DOMAIN rows' : q \in DOMAIN rows /\ rows'[q] = rows[q]
        /\ \A q \in DOMAIN rows : q # RowOf(d) => q \in DOMAIN rows' /\ rows'[q] = rows[q]
    BY <1>2 DEF DeleteRow, Without, Restrict
  <2> QED
    BY <1>0, <2>1
<1> QED
  BY <1>1, <1>2 DEF KeepRow

(* What is at once closed, folded or sent, or waited to be.                *)
LEMMA NowOwn ==
  ASSUME Open, Saves = {}, Strips = {}
  PROVE  /\ Own(Text(compose)) /\ (RowOf(compose) = 0 => \A q : ~InBox(q)) /\ (RowOf(compose) # 0 => InBox(RowOf(compose)))
         /\ \A q : InBox(q) => q = RowOf(compose)
BY DEF Own, InBox

(* What waited and ends the box holds a text of the box, on the row of the *)
(* box.                                                                    *)
LEMMA LaterOwn ==
  ASSUME TypeOK, Boxed, Ends, NEW w \in Waiters(latest, lastRow), Later(w), w.kind # "autosave"
  PROVE  /\ Open /\ Sendings = {} /\ Saves = {} /\ Enders' = {} /\ Own(Text(w.d)) /\ RowOf(w.d) # 0 /\ InBox(RowOf(w.d))
         /\ RowOf(w.d) = RowOf(compose) /\ (timer' <=> timer)
         /\ \A q : InBox(q) => q = RowOf(w.d)
<1>1. /\ Open /\ Sendings = {} /\ Saves = {} /\ Enders' = {} /\ w \in Enders /\ RowOf(w.d) = RowOf(compose) /\ RowOf(compose) # 0
      /\ (timer' <=> timer)
  BY LaterEnds
<1>2. InBox(RowOf(w.d)) /\ \A q : InBox(q) => q = RowOf(w.d)
  BY <1>1, BoxRowIs
<1> QED
  BY <1>1, <1>2 DEF Own

(* A box that closes keeps texts apart. *)
LEMMA ClosesSeparate ==
  ASSUME TypeOK, Boxed, Ends, Separate, Apart', NEW d \in LetterBox(latest, lastRow), NEW keep, Closes(d, keep)
  PROVE  Separate'
<1>0. ~Open' /\ Sendings' = Sendings /\ sends' = sends /\ KeepRow(d, keep)
  BY DEF Closes, NoneOpen, NoBox, Open, Sendings
<1>1. /\ Sendings = {} /\ Open /\ Own(Text(d)) /\ (RowOf(d) = 0 => \A q : ~InBox(q)) /\ (RowOf(d) # 0 => InBox(RowOf(d)))
  <2>1. CASE Now(d) /\ Strips = {}
    BY <2>1, NowAlone, NowOwn
  <2>2. CASE \E w \in Waiters(latest, lastRow) : Later(w) /\ w.kind = "close" /\ w.d = d
    BY <2>2, LaterOwn
  <2> QED
    BY <2>1, <2>2 DEF Closes
<1>2. PICK m, x :
           /\ \A q \in DOMAIN rows' : (q \in DOMAIN rows /\ rows'[q] = rows[q]) \/ (q = m /\ rows'[q] = x)
           /\ m \in DOMAIN rows' => m \in DOMAIN rows \/ \A l \in Lists : m \notin DOMAIN l
           /\ m \in DOMAIN rows' => \A p : Lives(p, x) => p = m
           /\ x \notin SentTexts /\ Posted = {}
  BY <1>0, <1>1, KeepSpread DEF Separate
<1>3. Lists' \subseteq Lists /\ SentTexts' = SentTexts /\ Posted' = {} /\ Unundone' = Unundone
  <2>1. Lists' = Lists
    <3>1. CASE Mail' = Mail
      BY <3>1, ListsSame
    <3>2. ASSUME NEW e, Mail' = Mail \cup {e}, e.kind \in {"keep", "delete"} PROVE Lists' = Lists
      BY <3>2, ListsAdd
    <3> QED
      BY <1>0, <3>1, <3>2 DEF KeepRow, Call
  <2> QED
    BY <1>0, <1>2, <2>1, SentSame
<1>4. \A t : ~Own(t)' /\ ~Near(t)'
  BY <1>0 DEF Own, Near
<1>5. \A q, t : Lives(q, t)' => Lives(q, t) \/ (q = m /\ t = x)
  <2>1. \A l \in Lists' : l \in Lists \/ l = rows'
    BY <1>3
  <2> QED
    BY <1>2, <1>4, <2>1, LivesThen
<1>6. Lives(m, x)' => (\A p : Lives(p, x) => p = m) /\ x \notin SentTexts' /\ x \notin Posted'
  BY <1>2, <1>3 DEF Lives
<1>7. Parted'
  BY <1>3, <1>4, <1>5, <1>6, Spread DEF Separate
<1>8. SentApart'
  BY <1>0, <1>3 DEF Separate, SentApart
<1> QED
  BY <1>0, <1>7, <1>8 DEF Separate, Gone

(* The box after a step that leaves it, its saves and its ends as they are. *)
LEMMA BoxSame ==
  ASSUME compose' = compose, autoRow' = autoRow, Saves' = Saves, Strips' = Strips, Enders' = Enders
  PROVE  /\ (Open' <=> Open) /\ RowOf(compose)' = RowOf(compose) /\ Text(compose)' = Text(compose)
         /\ \A r : InBox(r)' <=> InBox(r)
         /\ \A t : Own(t)' <=> Own(t)
BY DEF Open, RowOf, InBox, Own

(* A step that leaves the box as it is and puts no text anywhere.          *)
LEMMA AsideSeparate ==
  ASSUME Separate,
         compose' = compose, autoRow' = autoRow, Saves' = Saves, Strips' = Strips,
         \A t : Own(t)' <=> Own(t),
         \A q \in DOMAIN rows' : q \in DOMAIN rows /\ rows'[q] = rows[q],
         \A l \in Lists' : l \in Lists \/ l = rows',
         sends' = sends, Sendings' \subseteq Sendings,
         timer' => timer, Posted # {} /\ ~timer /\ waiting = <<>> => waiting' = <<>>
  PROVE  Separate'
<1>1. /\ (Open' <=> Open) /\ RowOf(compose)' = RowOf(compose) /\ Text(compose)' = Text(compose)
      /\ \A r : InBox(r)' <=> InBox(r)
  BY DEF Open, RowOf, InBox
<1>2. SentTexts' = SentTexts /\ Posted' \subseteq Posted /\ Unundone' = Unundone
  BY SentSame DEF Posted
<1>3. Parted'
  <2>1. \A q, t : Open' /\ q \in DOMAIN rows' /\ InBox(q)' /\ Own(t)' => Lives(q, t)
    BY <1>1 DEF Lives
  <2>2. \A t : Own(t)' => Near(t)
    BY DEF Near
  <2> QED
    BY <1>1, <1>2, <2>1, <2>2, BoxKept DEF Separate
<1>4. SentApart'
  BY <1>2 DEF Separate, SentApart
<1>5. Gone'
  BY <1>1, <1>2 DEF Separate, Gone
<1> QED
  BY <1>3, <1>4, <1>5 DEF Separate

(* A step that moves nothing of the letters keeps texts apart. *)
LEMMA IdlesSeparate ==
  ASSUME TypeOK, Separate, Idles
  PROVE  Separate'
<1>1. /\ compose' = compose /\ autoRow' = autoRow /\ Saves' = Saves /\ Strips' = Strips /\ Enders' = Enders
      /\ rows' = rows /\ sends' = sends /\ Sendings' = Sendings /\ Lists' = Lists
  BY MailSame, ListsSame DEF Idles, Sendings, table
<1>2. timer' => timer
  <2>1. timer' \in {timer, FALSE}
    BY DEF Idles
  <2> QED
    BY <2>1
<1>3. ~timer /\ waiting = <<>> => waiting' = <<>>
  BY DEF Idles
<1>4. \A t : Own(t)' <=> Own(t)
  BY <1>1, BoxSame
<1> QED
  BY <1>1, <1>2, <1>3, <1>4, AsideSeparate

(* One more that waits keeps texts apart. *)
LEMMA WaitsSeparate ==
  ASSUME TypeOK, Separate, Apart', NEW w \in Waiters(latest, lastRow), Waits(w)
  PROVE  Separate'
<1>1. /\ compose' = compose /\ autoRow' = autoRow /\ Saves' = Saves /\ Strips' = Strips /\ Enders' = Enders \cup {w} /\ w.d = compose
      /\ rows' = rows /\ sends' = sends /\ Sendings' = Sendings /\ Lists' = Lists /\ timer' = FALSE
  BY MailSame, ListsSame DEF Waits, Sendings, table, box
<1>2. Sendings = {}
  BY ApartIs, Seen DEF Waits
<1>3. Posted = {}
  BY <1>2 DEF Posted
<1>4. \A t : Own(t)' <=> Own(t)
  BY <1>1 DEF Own, Open
<1> QED
  BY <1>1, <1>3, <1>4, AsideSeparate

(* A message the queue refused keeps texts apart. *)
LEMMA RefusesSeparate ==
  ASSUME TypeOK, Separate, NEW c, Refuses(c)
  PROVE  Separate'
<1>0. Mail' = Mail /\ Enders' = Enders
  BY DEF Refuses, Mail, MailOf, Enders
<1>1. /\ compose' = compose /\ autoRow' = autoRow /\ Saves' = Saves /\ Strips' = Strips /\ Enders' = Enders
      /\ rows' = rows /\ sends' = sends /\ Sendings' \subseteq Sendings /\ Lists' = Lists /\ timer' = timer /\ waiting' = waiting
  BY <1>0, MailSame, ListsSame DEF Refuses, Sendings, table, box
<1>4. \A t : Own(t)' <=> Own(t)
  BY <1>1, BoxSame
<1> QED
  BY <1>1, <1>4, AsideSeparate

(* A row that goes keeps texts apart. *)
LEMMA GoesSeparate ==
  ASSUME TypeOK, Separate, NEW r, Goes(r)
  PROVE  Separate'
<1> DEFINE e == Call("delete", NoText, r)
<1>0. Mail' = Mail \cup {e} /\ e.kind = "delete" /\ Enders' = Enders
  BY DEF Goes, Call, Enders
<1> HIDE DEF e
<1>1. /\ compose' = compose /\ autoRow' = autoRow /\ Saves' = Saves /\ Strips' = Strips
      /\ sends' = sends /\ Sendings' = Sendings /\ Lists' = Lists /\ timer' = timer /\ waiting' = waiting
  BY <1>0, MailAdds, ListsAdd DEF Goes, Sendings, box
<1>2. \A q \in DOMAIN rows' : q \in DOMAIN rows /\ rows'[q] = rows[q]
  BY DEF Goes, DeleteRow, Without, Restrict
<1>4. \A t : Own(t)' <=> Own(t)
  BY <1>0, <1>1, BoxSame
<1> QED
  BY <1>1, <1>2, <1>4, AsideSeparate

(* What an answer leaves on its way.                                       *)
LEMMA HeardMail ==
  ASSUME NEW c, NEW M, Hears(c, M)
  PROVE  /\ Saves = {e \in M \cup {c} : e.kind = "autosave"} /\ Strips = {e \in M \cup {c} : e.kind = "strip"}
         /\ Lists = {e.list : e \in {g \in M \cup {c} : g.kind = "list"}}
         /\ Mail' \in {M, M \cup {List(rows)}} =>
              /\ Saves' = {e \in M : e.kind = "autosave"} /\ Strips' = {e \in M : e.kind = "strip"}
              /\ \A l \in Lists' : l \in Lists \/ l = rows'
<1>0. Mail = M \cup {c} /\ rows' = rows
  BY DEF Hears, table
<1>1. /\ Saves = {e \in M \cup {c} : e.kind = "autosave"} /\ Strips = {e \in M \cup {c} : e.kind = "strip"}
      /\ Lists = {e.list : e \in {g \in M \cup {c} : g.kind = "list"}}
  BY <1>0 DEF Saves, Strips, Lists
<1>2. CASE Mail' = M
  BY <1>0, <1>1, <1>2 DEF Saves, Strips, Lists
<1>3. CASE Mail' = M \cup {List(rows)}
  BY <1>0, <1>1, <1>3 DEF Saves, Strips, Lists, List
<1> QED
  BY <1>1, <1>2, <1>3

(* The answer of a save tells the box its row and leaves its text.         *)
LEMMA HeardIs ==
  ASSUME TypeOK, Boxed,
         NEW c \in Calls(latest, lastRow), NEW M \in SUBSET Calls(latest, lastRow), Hears(c, M), c.kind \in {"autosave", "strip"}
  PROVE  /\ c \in Saves \cup Strips /\ c.row # 0 /\ Mail' = M \cup {List(rows)}
         /\ Saves' \cup Strips' \subseteq Saves \cup Strips
         /\ Open => RowOf(compose)' = c.row /\ Text(compose)' = Text(compose)
         /\ Open' => Open
         /\ \A r : Open => (InBox(r)' <=> InBox(r))
<1>0. /\ c \in Saves \cup Strips /\ c.row # 0 /\ Mail' = M \cup {List(rows)} /\ (c.kind = "strip" => c \in Strips)
      /\ (c.kind = "autosave" => c \in Saves)
  <2>1. Saves = {e \in M \cup {c} : e.kind = "autosave"} /\ Strips = {e \in M \cup {c} : e.kind = "strip"}
    BY HeardMail
  <2>2. c.row # 0 /\ Mail' = M \cup {List(rows)}
    BY DEF Calls, Hears
  <2> QED
    BY <2>1, <2>2
<1>1. \A e \in Saves' \cup Strips' : e \in Saves \cup Strips
  <2>1. /\ Saves = {e \in M \cup {c} : e.kind = "autosave"} /\ Strips = {e \in M \cup {c} : e.kind = "strip"}
        /\ Saves' = {e \in M : e.kind = "autosave"} /\ Strips' = {e \in M : e.kind = "strip"}
    BY <1>0, HeardMail
  <2> QED
    BY <2>1
<1>2. Open => RowOf(compose)' = c.row /\ Text(compose)' = Text(compose)
  <2>1. CASE c.kind = "autosave"
    <3>1. /\ autoRow' = (IF Mine THEN c.row ELSE autoRow) /\ UNCHANGED compose
      BY <2>1 DEF Hears
    <3>2. Open => RowOf(compose)' = c.row
      BY <1>0, <2>1, <3>1 DEF Boxed, Mine, RowOf, Or
    <3> QED
      BY <3>1, <3>2
  <2>2. CASE c.kind = "strip"
    <3>1. ASSUME Open PROVE compose' = [compose EXCEPT !.row = c.row] /\ autoRow' = 0 /\ compose \in LetterBox(latest, lastRow)
      <4>1. IF Open /\ letters[compose.letter] = letters[c.text.letter]
            THEN compose' = [compose EXCEPT !.row = c.row] /\ autoRow' = 0
            ELSE UNCHANGED <<compose, autoRow>>
        BY <2>2 DEF Hears
      <4> QED
        BY <1>0, <2>2, <3>1, <4>1, Held0 DEF Boxed
    <3>2. Open => compose'.row = c.row /\ compose'.letter = compose.letter /\ compose'.version = compose.version /\ autoRow' = 0
      BY <3>1 DEF LetterBox
    <3> QED
      BY <1>0, <3>2 DEF RowOf, Or, Text
  <2> QED
    BY <2>1, <2>2
<1>3. Open' => Open
  <2>1. ~Open => UNCHANGED compose
    BY DEF Hears
  <2> QED
    BY <2>1 DEF Open
<1>4. ASSUME NEW r, Open PROVE InBox(r)' <=> InBox(r)
  <2>1. InBox(r) <=> r = c.row
    BY <1>0, <1>4 DEF Boxed, InBox
  <2>2. InBox(r)' <=> r = c.row
    <3>1. \A e \in Saves' \cup Strips' : e.row = c.row
      BY <1>0, <1>1, <1>4 DEF Boxed
    <3> QED
      BY <1>0, <1>1, <1>2, <1>4, <3>1 DEF InBox
  <2> QED
    BY <2>1, <2>2
<1> QED
  BY <1>0, <1>1, <1>2, <1>3, <1>4

(* An answer.                                                              *)
LEMMA HearsSeparate ==
  ASSUME TypeOK, Boxed, Separate,
         NEW c \in Calls(latest, lastRow), NEW M \in SUBSET Calls(latest, lastRow), Hears(c, M)
  PROVE  Separate'
<1>0. /\ Mail = M \cup {c} /\ UNCHANGED <<waiting, slow, table, sends, letters, latest, dock, collapsed>>
  BY DEF Hears
<1>1. Enders' = Enders /\ Sendings' = Sendings /\ rows' = rows /\ sends' = sends /\ Unundone' = Unundone /\ waiting' = waiting
  BY <1>0 DEF Enders, Sendings, table, Unundone
<1>2. SentTexts' = SentTexts /\ Posted' = Posted
  BY <1>1, SentSame
<1>3. SentApart'
  BY <1>1, <1>2 DEF Separate, SentApart
<1>4. timer' => timer
  BY DEF Hears
<1>5. /\ Lists = {e.list : e \in {g \in M \cup {c} : g.kind = "list"}}
      /\ Saves = {e \in M \cup {c} : e.kind = "autosave"} /\ Strips = {e \in M \cup {c} : e.kind = "strip"}
      /\ Mail' \in {M, M \cup {List(rows)}} =>
           /\ Saves' = {e \in M : e.kind = "autosave"} /\ Strips' = {e \in M : e.kind = "strip"}
           /\ \A l \in Lists' : l \in Lists \/ l = rows'
  BY HeardMail
<1>6. CASE c.kind \in {"autosave", "strip"}
  <2>0. c \in Saves \cup Strips /\ c.row # 0 /\ Mail' = M \cup {List(rows)}
    BY <1>6, HeardIs
  <2>1. Open => RowOf(compose)' = c.row /\ Text(compose)' = Text(compose)
    BY <1>6, HeardIs
  <2>2. Open' => Open
    BY <1>6, HeardIs
  <2>3. ASSUME NEW r, Open PROVE InBox(r)' <=> InBox(r)
    BY <1>6, <2>3, HeardIs
  <2>4. \A t : Own(t)' => Own(t)
    BY <1>1, <2>1, <2>2 DEF Own
  <2>5. Parted'
    <3>1. \A q, t : Open' /\ q \in DOMAIN rows' /\ InBox(q)' /\ Own(t)' => Lives(q, t)
      BY <1>1, <2>2, <2>3, <2>4 DEF Lives
    <3>2. \A t : Own(t)' => Near(t)
      BY <2>4 DEF Near
    <3> QED
      BY <1>1, <1>2, <1>5, <2>0, <2>2, <2>3, <3>1, <3>2, BoxKept DEF Separate
  <2>6. Gone'
    BY <1>1, <1>2, <2>0, <2>1, <2>2, <2>3 DEF Separate, Gone
  <2> QED
    BY <1>3, <2>5, <2>6 DEF Separate
<1>7. CASE c.kind \in {"keep", "delete"} \/ (c.kind = "list" /\ ~ChangedElsewhere(c.list))
  <2>1. compose' = compose /\ autoRow' = autoRow /\ Mail' \in {M, M \cup {List(rows)}}
    BY <1>7 DEF Hears
  <2>2. Saves' = Saves /\ Strips' = Strips
    BY <1>5, <1>7, <2>1
  <2>3. \A t : Own(t)' <=> Own(t)
    BY <1>1, <2>1, <2>2, BoxSame
  <2> QED
    BY <1>1, <1>4, <1>5, <2>1, <2>2, <2>3, AsideSeparate
<1>8. CASE c.kind = "list" /\ ChangedElsewhere(c.list)
  <2>1. PICK t : t = c.list[RowOf(compose)] /\ Open /\ RowOf(compose) # 0 /\ RowOf(compose) \in DOMAIN c.list
    BY <1>8 DEF ChangedElsewhere
  <2>2. compose' = [compose EXCEPT !.letter = t.letter, !.version = t.version] /\ autoRow' = autoRow /\ Mail' = M
    BY <1>8, <2>1 DEF Hears
  <2>3. compose'.letter = t.letter /\ compose'.version = t.version /\ compose'.row = compose.row
    BY <2>1, <2>2, Held0 DEF LetterBox
  <2>4. t \in TextOf(latest) /\ c.list \in Lists
    BY <1>5, <1>8, <2>1, Held0, RowIs DEF Calls
  <2>5. Text(compose)' = t /\ RowOf(compose)' = RowOf(compose)
    BY <2>2, <2>3, <2>4, Held0, TextIs DEF Text, RowOf, TextOf
  <2>6. Saves' = Saves /\ Strips' = Strips
    BY <1>5, <1>8, <2>2
  <2>7. \A r : InBox(r)' <=> InBox(r)
    BY <2>5, <2>6 DEF InBox
  <2>8. \A q : InBox(q) => q = RowOf(compose)
    BY <2>1, BoxRowIs
  <2>9. InBox(RowOf(compose)) /\ Near(t)
    BY <2>1, <2>4, BoxRowIs DEF Near
  <2>10. \A s : Own(s)' => Own(s) \/ s = t
    BY <1>1, <2>1, <2>5 DEF Own
  <2>11. \A q \in DOMAIN rows : InBox(q) => Lives(q, t)
    BY <2>1, <2>4, <2>8 DEF Lives
  <2>12. Parted'
    <3>1. \A q, s : Open' /\ q \in DOMAIN rows' /\ InBox(q)' /\ Own(s)' => Lives(q, s)
      BY <1>1, <2>7, <2>10, <2>11 DEF Lives
    <3>2. \A s : Own(s)' => Near(s)
      BY <2>9, <2>10 DEF Near
    <3> QED
      BY <1>1, <1>2, <1>5, <2>1, <2>2, <2>7, <3>1, <3>2, BoxKept DEF Separate
  <2>13. Gone'
    <3>1. t \in Posted => \A q \in DOMAIN rows : ~InBox(q)
      BY <2>11 DEF Separate, Parted
    <3> QED
      BY <1>1, <1>2, <2>1, <2>5, <2>7, <3>1 DEF Gone
  <2> QED
    BY <1>3, <2>12, <2>13 DEF Separate
<1> QED
  BY <1>6, <1>7, <1>8 DEF Hears

(* A save for the open box, which stays.                                   *)
LEMMA SaveSeparate ==
  ASSUME TypeOK, Boxed, Separate, Open, NEW d \in LetterBox(latest, lastRow), SaveDraft(RowOf(d), Text(d)), Own(Text(d)),
         RowOf(d) = 0 => \A q : ~InBox(q), RowOf(d) # 0 => InBox(RowOf(d)),
         RowOf(d) = 0 => \A t : Own(t)' => t = Text(d),
         NEW e, Mail' = Mail \cup {e}, e.kind \in {"autosave", "strip"}, e.row = SavedRow(RowOf(d)),
         compose' = compose, autoRow' = autoRow, Enders' \subseteq Enders, sends' = sends, Sendings' = Sendings,
         Posted # {} => d = compose, Text(compose) \in Posted => RowOf(d) # 0
  PROVE  Separate'
<1>r. RowOf(d) \in 0 .. lastRow
  BY Held0, BoxIs
<1> DEFINE x == Text(d)
<1>1. PICK m : /\ m = SavedRow(RowOf(d)) /\ m # 0 /\ (RowOf(d) # 0 => m = RowOf(d) /\ DOMAIN rows' = DOMAIN rows)
               /\ \A q \in DOMAIN rows' : (q \in DOMAIN rows /\ rows'[q] = rows[q]) \/ (q = m /\ rows'[q] = x)
               /\ m \in DOMAIN rows' => m \in DOMAIN rows \/ \A l \in Lists : m \notin DOMAIN l
               /\ (RowOf(d) = 0 => m \in DOMAIN rows' /\ m \notin DOMAIN rows)
  <2>1. RowOf(d) = 0 => SavedRow(RowOf(d)) = lastRow + 1 /\ lastRow + 1 \in DOMAIN rows' /\ lastRow + 1 \notin DOMAIN rows
    <3>1. lastRow + 1 \notin DOMAIN rows
      BY Held0, RowIs
    <3> QED
      BY <3>1 DEF SaveDraft, With, SavedRow
  <2> QED
    BY <1>r, <2>1, SavedWhere
<1>2. Near(x) /\ x \notin SentTexts /\ \A p : Lives(p, x) => p = RowOf(d)
  <2>1. Near(x)
    BY DEF Near
  <2> QED
    BY <2>1, SavedOnce DEF Separate, Parted
<1> HIDE DEF x
<1>3. /\ Open' /\ RowOf(compose)' = RowOf(compose) /\ Text(compose)' = Text(compose) /\ Lists' = Lists
      /\ Saves' \cup Strips' = Saves \cup Strips \cup {e}
  BY MailAdds, ListsAdd DEF Open, RowOf
<1>4. \A r : InBox(r)' <=> InBox(r) \/ r = m
  BY <1>1, <1>3 DEF InBox
<1>5. \A t : Own(t)' => Own(t)
  BY <1>3 DEF Own
<1>6. SentTexts' = SentTexts /\ Posted' = Posted /\ Unundone' = Unundone
  BY SentSame
<1>7. \A q, t : Lives(q, t)' => Lives(q, t) \/ (q = m /\ t = x)
  <2>1. \A q \in DOMAIN rows' : \A t : InBox(q)' /\ Own(t)' => Lives(q, t) \/ (q = m /\ t = x)
    <3> SUFFICES ASSUME NEW q \in DOMAIN rows', NEW t, InBox(q)', Own(t)' PROVE Lives(q, t) \/ (q = m /\ t = x)
      OBVIOUS
    <3>1. CASE RowOf(d) # 0
      BY <1>1, <1>4, <1>5, <3>1 DEF Lives
    <3>2. CASE RowOf(d) = 0
      BY <1>1, <1>4, <3>2 DEF x
    <3> QED
      BY <3>1, <3>2
  <2>2. \A l \in Lists' : l \in Lists \/ l = rows'
    BY <1>3
  <2> QED
    BY <1>1, <2>1, <2>2, LivesThen
<1>8. Text(compose) \in Posted => \A q \in DOMAIN rows : ~InBox(q)
  BY DEF Separate, Gone
<1>9. Lives(m, x)' => (\A p : Lives(p, x) => p = m) /\ x \notin SentTexts' /\ x \notin Posted'
  <2> SUFFICES ASSUME Lives(m, x)' PROVE (\A p : Lives(p, x) => p = m) /\ x \notin SentTexts' /\ x \notin Posted'
    OBVIOUS
  <2>1. m \in DOMAIN rows'
    BY DEF Lives
  <2>2. \A p : Lives(p, x) => p = m
    <3>1. CASE RowOf(d) = 0
      <4>1. \A p : ~Lives(p, x)
        BY <1>2, <3>1, Held0, RowIs DEF Lives
      <4> QED
        BY <4>1
    <3> QED
      BY <1>1, <1>2, <3>1
  <2>3. ASSUME x \in Posted PROVE FALSE
    <3>1. x = Text(compose)
      BY <2>3 DEF x
    <3>2. RowOf(d) # 0 /\ m \in DOMAIN rows /\ InBox(m)
      BY <1>1, <2>1, <2>3, <3>1
    <3> QED
      BY <1>8, <2>3, <3>1, <3>2
  <2> QED
    BY <1>2, <1>6, <2>2, <2>3
<1>10. \A t : Near(t)' => Near(t) \/ \E r : InBox(r)' /\ Lives(r, t)'
  <2>1. \A r : InBox(r)' => InBox(r) \/ \A l \in Lists : r \notin DOMAIN l
    BY <1>1, <1>4
  <2>2. \A l \in Lists' : l \in Lists \/ l = rows'
    BY <1>3
  <2>3. \A t : Own(t)' => Near(t)
    BY <1>5 DEF Near
  <2> QED
    BY <2>1, <2>2, <2>3, NearThen
<1>11. Parted'
  <2>1. ASSUME NEW t, Near(t) PROVE \A q : Lives(q, t)' => InBox(q)'
    BY <1>4, <1>7, <2>1 DEF Separate, Parted
  <2>2. \A t : Near(t)' => \/ Near(t) /\ Open' /\ \A q : Lives(q, t)' => InBox(q)'
                           \/ \E r : InBox(r)' /\ Lives(r, t)'
                           \/ t \notin SentTexts' /\ \A q : ~Lives(q, t)'
    BY <1>3, <1>10, <2>1
  <2>3. (\A t \in SentTexts' : t \in SentTexts) /\ (\A t \in Posted' : t \in Posted) /\ Parted
    BY <1>6 DEF Separate
  <2> QED
    BY <1>7, <1>9, <2>2, <2>3, Spread
<1>12. SentApart'
  BY <1>6 DEF Separate, SentApart
<1>13. Gone'
  <2>1. Saves' # {} \/ Strips' # {}
    BY <1>3
  <2>2. Text(compose) \in Posted => \A q \in DOMAIN rows' : ~InBox(q)'
    BY <1>1, <1>4, <1>8
  <2> QED
    BY <1>3, <1>6, <2>1, <2>2 DEF Gone
<1> QED
  BY <1>11, <1>12, <1>13 DEF Separate

(* A box that collapses into its strip keeps texts apart. *)
LEMMA CollapsesSeparate ==
  ASSUME TypeOK, Boxed, Ends, Separate, Apart', NEW d \in LetterBox(latest, lastRow), Collapses(d)
  PROVE  Separate'
<1> DEFINE e == Call("strip", Text(d), SavedRow(RowOf(d)))
<1>0. e.kind = "strip" /\ e.row = SavedRow(RowOf(d)) /\ Mail' = Mail \cup {e}
  BY DEF Collapses, Call
<1> HIDE DEF e
<1>1. SaveDraft(RowOf(d), Text(d)) /\ compose' = compose /\ autoRow' = autoRow /\ sends' = sends /\ Sendings' = Sendings
  BY DEF Collapses, Sendings
<1>2. /\ Sendings = {} /\ Open /\ Own(Text(d)) /\ (RowOf(d) = 0 => \A q : ~InBox(q)) /\ (RowOf(d) # 0 => InBox(RowOf(d)))
      /\ Enders' = {} /\ (RowOf(d) = 0 => d = compose)
  <2>1. CASE Now(d) /\ ~collapsed
    <3>1. Strips = {}
      BY <2>1 DEF Now, Boxed
    <3> QED
      BY <2>1, <3>1, NowAlone, NowOwn, NowIs
  <2>2. CASE \E w \in Waiters(latest, lastRow) : Later(w) /\ w.kind = "strip" /\ w.d = d
    BY <2>2, LaterOwn
  <2> QED
    BY <2>1, <2>2 DEF Collapses
<1>3. RowOf(d) = 0 => \A t : Own(t)' => t = Text(d)
  BY <1>1, <1>2 DEF Own
<1>4. Posted = {}
  BY <1>2 DEF Posted
<1> QED
  BY <1>0, <1>1, <1>2, <1>3, <1>4, SaveSeparate

(* An autosave keeps texts apart. *)
LEMMA WritesSeparate ==
  ASSUME TypeOK, Boxed, Separate, Writes
  PROVE  Separate'
<1> DEFINE e == Call("autosave", Text(compose), SavedRow(RowOf(compose)))
<1>0. e.kind = "autosave" /\ e.row = SavedRow(RowOf(compose)) /\ Mail' = Mail \cup {e}
  BY DEF Writes, Call
<1> HIDE DEF e
<1>1. /\ SaveDraft(RowOf(compose), Text(compose)) /\ compose' = compose /\ autoRow' = autoRow /\ sends' = sends /\ Sendings' = Sendings
      /\ compose \in LetterBox(latest, lastRow) /\ Open /\ Enders' = Enders /\ ~Saving /\ ~collapsed
  BY DEF Writes, Sendings
<1>2. Saves = {} /\ Strips = {}
  BY <1>1, Seen DEF Boxed
<1>3. Own(Text(compose)) /\ (RowOf(compose) = 0 => \A q : ~InBox(q)) /\ (RowOf(compose) # 0 => InBox(RowOf(compose)))
  BY <1>1, <1>2, NowOwn
<1>4. RowOf(compose) = 0 => \A t : Own(t)' => t = Text(compose)
  <2>1. RowOf(compose) = 0 => Enders' = {}
    BY <1>1 DEF Boxed
  <2> QED
    BY <1>1, <2>1 DEF Own
<1>5. timer \/ waiting # <<>>
  BY DEF Writes, Later
<1>6. Text(compose) \in Posted => RowOf(compose) # 0
  BY <1>1, <1>2, <1>5 DEF Separate, Gone
<1> QED
  BY <1>0, <1>1, <1>3, <1>4, <1>6, SaveSeparate

(* A message handed to the queue keeps texts apart. *)
LEMMA PostsSeparate ==
  ASSUME TypeOK, Boxed, Ends, Separate, Apart', NEW d \in LetterBox(latest, lastRow), Posts(d)
  PROVE  Separate'
<1> DEFINE s == [kind |-> "send", text |-> Text(d), row |-> RowOf(d)]
<1>0. s.kind = "send" /\ s.text = Text(d) /\ slow' = slow \cup {s} /\ DeleteRow(RowOf(d)) /\ Mail' = Mail
  BY DEF Posts, Post, Detach
<1> HIDE DEF s
<1>1. /\ Sendings' = Sendings \cup {s} /\ sends' = sends /\ (Open' <=> Open) /\ compose' = compose /\ autoRow' = autoRow
      /\ RowOf(compose)' = RowOf(compose) /\ Saves' = Saves /\ Strips' = Strips /\ Lists' = Lists
  BY <1>0, MailSame, ListsSame DEF Posts, Open, Sendings, RowOf, box
<1>2. /\ Sendings = {} /\ Open /\ Own(Text(d)) /\ (\A q : InBox(q) => q = RowOf(d)) /\ Enders' = {}
      /\ (RowOf(compose) = 0 => timer' = FALSE /\ waiting' = <<>>)
  <2>1. CASE Now(d) /\ Strips = {}
    BY <2>1, NowAlone, NowOwn, NowIs
  <2>2. CASE \E w \in Waiters(latest, lastRow) : Later(w) /\ w.kind = "send" /\ w.d = d
    BY <2>2, LaterOwn
  <2> QED
    BY <2>1, <2>2 DEF Posts
<1>3. \A q \in DOMAIN rows' : q \in DOMAIN rows /\ rows'[q] = rows[q] /\ q # RowOf(d)
  BY <1>0 DEF DeleteRow, Without, Restrict
<1>4. /\ \A r : InBox(r)' <=> InBox(r)
      /\ \A t : Own(t)' => Own(t)
      /\ \A q \in DOMAIN rows' : ~InBox(q)
  BY <1>1, <1>2, <1>3 DEF InBox, Own
<1>5. Posted = {} /\ Posted' = {Text(d)} /\ SentTexts' = SentTexts /\ Unundone' = Unundone /\ Near(Text(d))
  BY <1>0, <1>1, <1>2, SentSame DEF Posted, Near
<1>6. \A q, t : Lives(q, t)' => Lives(q, t) /\ ~InBox(q)
  BY <1>1, <1>3, <1>4 DEF Lives
<1>7. \A q : ~Lives(q, Text(d))'
  BY <1>5, <1>6 DEF Separate, Parted
<1>8. \A t : Near(t)' => Near(t)
  BY <1>1, <1>4 DEF Near
<1>9. Parted'
  <2>1. \A t : Near(t)' => \/ Near(t) /\ Open' /\ \A q : Lives(q, t)' => InBox(q)'
                           \/ \E r : InBox(r)' /\ Lives(r, t)'
                           \/ t \notin SentTexts' /\ \A q : ~Lives(q, t)'
    BY <1>1, <1>2, <1>4, <1>6, <1>8 DEF Separate, Parted
  <2>2. /\ \A t \in SentTexts' : t \in SentTexts
        /\ \A t \in Posted' : \A q : ~Lives(q, t)'
        /\ Parted
    BY <1>5, <1>7 DEF Separate
  <2> QED
    BY <1>6, <2>1, <2>2, SpreadNot
<1>10. SentApart'
  BY <1>1, <1>5 DEF Separate, SentApart, Parted
<1>11. Gone'
  BY <1>1, <1>2, <1>4 DEF Gone
<1> QED
  BY <1>9, <1>10, <1>11 DEF Separate

(* A version that is newer than the last is nowhere yet.                   *)
LEMMA NewText ==
  ASSUME TypeOK, NEW l \in DOMAIN latest
  PROVE  LET x == [letter |-> l, version |-> latest[l] + 1]
         IN  (\A q : ~Lives(q, x)) /\ ~Near(x) /\ x \notin SentTexts /\ x \notin Posted
<1> DEFINE x == [letter |-> l, version |-> latest[l] + 1]
<1>1. latest[l] \in Nat
  BY Held0
<1>2. x.letter = l /\ x.version = latest[l] + 1 /\ ~(x.version <= latest[l])
  BY <1>1
<1> HIDE DEF x
<1>3. (\A q : ~Lives(q, x)) /\ ~Near(x) /\ x \notin SentTexts /\ x \notin Posted
  BY <1>2, OldTexts
<1> QED
  BY <1>3 DEF x

(* Typing keeps texts apart. *)
LEMMA TypeSeparate ==
  ASSUME TypeOK, Boxed, Separate, Type
  PROVE  Separate'
<1>0. compose \in LetterBox(latest, lastRow) /\ Open /\ compose.letter \in DOMAIN latest
  BY Held0, LetterIsOld DEF Type
<1>1. compose'.letter = compose.letter /\ compose'.row = compose.row /\ compose'.version = latest[compose.letter] + 1
  BY <1>0, Held0 DEF Type, LetterBox, NewVersion
<1>2. PICK x : Text(compose)' = x /\ x = [letter |-> compose.letter, version |-> latest[compose.letter] + 1]
  BY <1>1 DEF Text
<1>3. (\A q : ~Lives(q, x)) /\ ~Near(x) /\ x \notin SentTexts /\ x \notin Posted
  BY <1>0, <1>2, NewText
<1>4. /\ Mail' = Mail /\ Enders' = Enders /\ slow' = slow /\ autoRow' = autoRow /\ rows' = rows /\ sends' = sends
  BY DEF Type, lines, table, Mail, MailOf, Enders
<1>5. /\ Saves' = Saves /\ Strips' = Strips /\ Sendings' = Sendings /\ Open' /\ RowOf(compose)' = RowOf(compose) /\ Lists' = Lists
  BY <1>0, <1>1, <1>4, MailSame, ListsSame DEF Sendings, Open, RowOf
<1>6. SentTexts' = SentTexts /\ Posted' = Posted /\ Unundone' = Unundone
  BY <1>4, <1>5, SentSame
<1>7. (\A r : InBox(r)' <=> InBox(r)) /\ (\A t : Own(t)' => Own(t) \/ t = x)
  BY <1>0, <1>2, <1>4, <1>5 DEF InBox, Own
<1>8. PICK m : \A q : InBox(q) => q = m
  BY <1>0, BoxRowIs
<1>9. \A q, t : Lives(q, t)' => Lives(q, t) \/ (q = m /\ t = x /\ InBox(q)')
  <2> SUFFICES ASSUME NEW q, NEW t, Lives(q, t)' PROVE Lives(q, t) \/ (q = m /\ t = x /\ InBox(q)')
    OBVIOUS
  <2>1. q \in DOMAIN rows /\ (rows[q] = t \/ (\E l \in Lists : q \in DOMAIN l /\ l[q] = t) \/ (InBox(q)' /\ Own(t)'))
    BY <1>4, <1>5 DEF Lives
  <2> QED
    BY <1>7, <1>8, <2>1 DEF Lives
<1>10. \A t : Near(t)' => Near(t) \/ t = x
  BY <1>0, <1>5, <1>7 DEF Near
<1>11. Parted'
  <2>1. ASSUME NEW t, Near(t), t # x PROVE \A q : Lives(q, t)' => InBox(q)'
    BY <1>7, <1>9, <2>1 DEF Separate, Parted
  <2>2. (\E r : InBox(r)' /\ Lives(r, x)') \/ (x \notin SentTexts' /\ \A q : ~Lives(q, x)')
    BY <1>3, <1>6, <1>9
  <2>3. \A t : Near(t)' => \/ Near(t) /\ Open' /\ \A q : Lives(q, t)' => InBox(q)'
                           \/ \E r : InBox(r)' /\ Lives(r, t)'
                           \/ t \notin SentTexts' /\ \A q : ~Lives(q, t)'
    BY <1>3, <1>5, <1>10, <2>1, <2>2
  <2>4. /\ \A t \in SentTexts' : t \in SentTexts
        /\ \A t \in Posted' : t \in Posted
        /\ Lives(m, x)' => (\A p : Lives(p, x) => p = m) /\ x \notin SentTexts' /\ x \notin Posted'
        /\ \A q, t : Lives(q, t)' => Lives(q, t) \/ (q = m /\ t = x)
        /\ Parted
    BY <1>3, <1>6, <1>9 DEF Separate
  <2> QED
    BY <2>3, <2>4, Spread
<1>12. SentApart'
  BY <1>4, <1>6 DEF Separate, SentApart
<1>13. Gone'
  BY <1>2, <1>3, <1>6 DEF Gone
<1> QED
  BY <1>11, <1>12, <1>13 DEF Separate

(* A step that puts a text in a row and leaves the box as it is.           *)
LEMMA PutSeparate ==
  ASSUME TypeOK, Separate, NEW m, NEW x, ~Near(x), \A q : ~Lives(q, x), x \notin Posted, x \notin SentTexts',
         compose' = compose, autoRow' = autoRow, Enders' = Enders, timer' = timer, waiting' = waiting,
         Mail' = Mail \cup {List(rows')}, Sendings' = Sendings,
         \A q \in DOMAIN rows' : (q \in DOMAIN rows /\ rows'[q] = rows[q]) \/ (q = m /\ rows'[q] = x),
         m \in DOMAIN rows \/ (~InBox(m) /\ \A l \in Lists : m \notin DOMAIN l),
         SentTexts' \subseteq SentTexts, SentApart'
  PROVE  Separate'
<1> DEFINE e == List(rows')
<1>0. e.kind = "list" /\ e.list = rows' /\ Mail' = Mail \cup {e}
  BY DEF List
<1> HIDE DEF e
<1>1. Saves' = Saves /\ Strips' = Strips /\ Lists' = Lists \cup {rows'}
  BY <1>0, MailAdds, ListsAdd
<1>2. /\ (Open' <=> Open) /\ RowOf(compose)' = RowOf(compose) /\ Text(compose)' = Text(compose)
      /\ \A r : InBox(r)' <=> InBox(r)
      /\ \A t : Own(t)' <=> Own(t)
  BY <1>1, BoxSame
<1>3. Posted' = Posted
  BY SentSame
<1>4. \A q, t : Lives(q, t)' => Lives(q, t) \/ (q = m /\ t = x)
  <2>1. \A q \in DOMAIN rows' : \A t : InBox(q)' /\ Own(t)' => Lives(q, t) \/ (q = m /\ t = x)
    BY <1>2 DEF Lives
  <2>2. \A l \in Lists' : l \in Lists \/ l = rows'
    BY <1>1
  <2> QED
    BY <2>1, <2>2, LivesThen
<1>5. \A t : Near(t)' => Near(t) \/ \E r : InBox(r)' /\ Lives(r, t)'
  <2>1. \A l \in Lists' : l \in Lists \/ l = rows'
    BY <1>1
  <2>2. \A t : Own(t)' => Near(t)
    BY <1>2 DEF Near
  <2> QED
    BY <1>2, <2>1, <2>2, NearThen
<1>6. Parted'
  <2>1. ASSUME NEW t, Near(t), t # x PROVE \A q : Lives(q, t)' => InBox(q)'
    BY <1>2, <1>4, <2>1 DEF Separate, Parted
  <2>2. \A t : Near(t)' => Open'
    BY DEF Near, Own
  <2>3. \A t : Near(t)' => \/ Near(t) /\ Open' /\ \A q : Lives(q, t)' => InBox(q)'
                           \/ \E r : InBox(r)' /\ Lives(r, t)'
                           \/ t \notin SentTexts' /\ \A q : ~Lives(q, t)'
    BY <1>5, <2>1, <2>2
  <2>4. /\ \A t \in SentTexts' : t \in SentTexts
        /\ \A t \in Posted' : t \in Posted
        /\ Lives(m, x)' => (\A p : Lives(p, x) => p = m) /\ x \notin SentTexts' /\ x \notin Posted'
        /\ Parted
    BY <1>3 DEF Separate
  <2> QED
    BY <1>4, <2>3, <2>4, Spread
<1>7. Gone'
  <2>1. \A q \in DOMAIN rows' : q \in DOMAIN rows \/ ~InBox(q)
    OBVIOUS
  <2> QED
    BY <1>1, <1>2, <1>3, <2>1 DEF Separate, Gone
<1> QED
  BY <1>6, <1>7 DEF Separate

(* An edit in Gmail keeps texts apart. *)
LEMMA EditsSeparate ==
  ASSUME TypeOK, Separate, NEW r \in DOMAIN rows, Edits(r)
  PROVE  Separate'
<1>0. rows[r].letter \in DOMAIN latest
  BY LetterIsOld
<1> DEFINE x == [letter |-> rows[r].letter, version |-> latest[rows[r].letter] + 1]
<1>1. rows' = [rows EXCEPT ![r] = x]
  <2>1. latest'[rows[r].letter] = latest[rows[r].letter] + 1
    BY <1>0, Held0 DEF Edits, NewVersion
  <2> QED
    BY <2>1 DEF Edits
<1>2. (\A q : ~Lives(q, x)) /\ ~Near(x) /\ x \notin SentTexts /\ x \notin Posted
  BY <1>0, NewText
<1> HIDE DEF x
<1>3. \A q \in DOMAIN rows' : (q \in DOMAIN rows /\ rows'[q] = rows[q]) \/ (q = r /\ rows'[q] = x)
  BY <1>1
<1>4. /\ Mail' = Mail \cup {List(rows')} /\ compose' = compose /\ autoRow' = autoRow /\ Enders' = Enders /\ timer' = timer
      /\ waiting' = waiting /\ Sendings' = Sendings /\ sends' = sends
  BY DEF Edits, box, Enders, Sendings
<1>5. SentTexts' = SentTexts /\ Unundone' = Unundone /\ Posted' = Posted
  BY <1>4, SentSame
<1>6. SentApart'
  BY <1>4, <1>5 DEF Separate, SentApart
<1> QED
  BY <1>2, <1>3, <1>4, <1>5, <1>6, PutSeparate

(* An undo keeps texts apart. *)
LEMMA ReturnsSeparate ==
  ASSUME TypeOK, Separate, NEW i, Returns(i)
  PROVE  Separate'
<1> DEFINE x == sends[i].text
           u == [kind |-> "undo", text |-> sends[i].text, row |-> lastRow']
<1>0. i \in Unundone /\ sends' = [sends EXCEPT ![i].undone = TRUE] /\ rows' = With(rows, lastRow + 1, x)
      /\ u.kind = "undo" /\ slow' = slow \cup {u}
  BY DEF Returns, SaveDraft, Unundone
<1> HIDE DEF u
<1>1. /\ Mail' = Mail \cup {List(rows')} /\ compose' = compose /\ autoRow' = autoRow /\ Enders' = Enders /\ timer' = timer
      /\ waiting' = waiting /\ Sendings' = Sendings
  BY <1>0 DEF Returns, box, Enders, Sendings
<1>2. Unundone' = Unundone \ {i} /\ \A j \in Unundone' : sends'[j] = sends[j]
  <2>1. sends \in Seq(Messages(latest)) /\ i \in DOMAIN sends
    BY <1>0, Held0 DEF Unundone
  <2>2. sends[i] \in Messages(latest)
    BY <2>1
  <2>3. sends'[i].undone = TRUE /\ \A j \in DOMAIN sends : j # i => sends'[j] = sends[j]
    BY <1>0, <2>1, <2>2 DEF Messages
  <2>4. DOMAIN sends' = DOMAIN sends
    BY <1>0
  <2> QED
    BY <2>3, <2>4 DEF Unundone
<1>3. x \in SentTexts /\ SentTexts' \subseteq SentTexts /\ x \notin SentTexts' /\ x \notin Posted
  BY <1>0, <1>2 DEF Separate, SentApart, SentTexts
<1>4. SentApart'
  <2>1. Posted' = Posted
    BY <1>1, SentSame
  <2> QED
    BY <1>2, <1>3, <2>1 DEF Separate, SentApart
<1>5. ~Near(x) /\ \A q : ~Lives(q, x)
  BY <1>3 DEF Separate, Parted
<1>6. \A q \in DOMAIN rows' : (q \in DOMAIN rows /\ rows'[q] = rows[q]) \/ (q = lastRow + 1 /\ rows'[q] = x)
  BY <1>0 DEF With
<1>7. ~InBox(lastRow + 1) /\ \A l \in Lists : lastRow + 1 \notin DOMAIN l
  <2>0. lastRow \in Nat /\ latest \in Seq(Nat) /\ Mail \subseteq Calls(latest, lastRow)
    BY Held0
  <2>1. RowOf(compose) \in 0 .. lastRow
    BY Held0, BoxIs
  <2>2. \A c \in Saves \cup Strips : c.row \in 1 .. lastRow
    BY <2>0 DEF Saves, Strips, Calls
  <2>3. \A l \in Lists : l \in Tables(latest, lastRow)
    BY <2>0 DEF Lists, Calls
  <2>4. ~InBox(lastRow + 1)
    BY <2>0, <2>1, <2>2 DEF InBox
  <2>5. \A l \in Lists : lastRow + 1 \notin DOMAIN l
    BY <2>0, <2>3, RowIs
  <2> QED
    BY <2>4, <2>5
<1> QED
  BY <1>1, <1>3, <1>4, <1>5, <1>6, <1>7, PutSeparate

(* What opening a box does to the table: the box it replaces is saved or   *)
(* deleted, when it is.                                                    *)
LEMMA ParksSpread ==
  ASSUME TypeOK, Boxed, Separate, Saves = {}, Strips = {}, Sendings = {}, Parks
  PROVE  /\ Lists' = Lists
         /\ \E m, x :
              /\ \A q \in DOMAIN rows' : (q \in DOMAIN rows /\ rows'[q] = rows[q]) \/ (q = m /\ rows'[q] = x)
              /\ m \in DOMAIN rows' => m \in DOMAIN rows \/ \A l \in Lists : m \notin DOMAIN l
              /\ m \in DOMAIN rows' => (\A p : Lives(p, x) => p = m) /\ x \notin SentTexts
              /\ m \in DOMAIN rows' => Open /\ x = Text(compose)
              /\ \A q \in DOMAIN rows : q # RowOf(compose) => q \in DOMAIN rows' /\ rows'[q] = rows[q]
<1>1. CASE UNCHANGED table /\ Mail' = Mail
  <2>1. 0 \notin DOMAIN rows /\ rows' = rows
    BY <1>1, Held0, RowIs DEF table
  <2>2. Lists' = Lists
    BY <1>1, ListsSame
  <2> QED
    BY <2>1, <2>2
<1>2. CASE Open /\ compose \in LetterBox(latest, lastRow) /\ KeepRow(compose, TRUE)
  <2>1. Lists' = Lists
    <3>1. CASE Mail' = Mail
      BY <3>1, ListsSame
    <3>2. ASSUME NEW e, Mail' = Mail \cup {e}, e.kind \in {"keep", "delete"} PROVE Lists' = Lists
      BY <3>2, ListsAdd
    <3> QED
      BY <1>2, <3>1, <3>2 DEF KeepRow, Call
  <2>2. Own(Text(compose)) /\ (RowOf(compose) = 0 => \A q : ~InBox(q)) /\ (RowOf(compose) # 0 => InBox(RowOf(compose)))
    BY <1>2, NowOwn
  <2>3. PICK m, x :
           /\ \A q \in DOMAIN rows' : (q \in DOMAIN rows /\ rows'[q] = rows[q]) \/ (q = m /\ rows'[q] = x)
           /\ m \in DOMAIN rows' => m \in DOMAIN rows \/ \A l \in Lists : m \notin DOMAIN l
           /\ m \in DOMAIN rows' => \A p : Lives(p, x) => p = m
           /\ x \notin SentTexts /\ Posted = {} /\ x = Text(compose)
           /\ \A q \in DOMAIN rows : q # RowOf(compose) => q \in DOMAIN rows' /\ rows'[q] = rows[q]
    <3>1. Parted
      BY DEF Separate
    <3> QED
      BY <1>2, <2>2, <3>1, KeepSpread
  <2> QED
    BY <1>2, <2>1, <2>3
<1> QED
  BY <1>1, <1>2 DEF Parks

(* A new box keeps texts apart. *)
LEMMA StartsSeparate ==
  ASSUME TypeOK, Boxed, Separate, NEW place \in Places, Starts(place)
  PROVE  Separate'
<1>1. Saves = {} /\ Strips = {} /\ Enders = {} /\ Sendings = {} /\ Parks /\ waiting = <<>>
  BY Seen DEF Starts
<1>2. Saves' = {} /\ Strips' = {} /\ Enders' = {} /\ Sendings' = {} /\ sends' = sends /\ Unundone' = Unundone
  BY <1>1, ParksMail DEF Enders, Sendings, Starts, Unundone, Range
<1>3. SentTexts' = SentTexts /\ Posted' = {}
  BY <1>2, SentSame DEF Posted
<1>4. compose'.letter = Len(letters) + 1 /\ compose'.version = 0 /\ compose'.row = 0 /\ autoRow' = 0
  <2>1. letters' = Append(letters, place) /\ letters \in Seq(Places) /\ place \in Places
    BY Held0 DEF Starts
  <2>2. compose' = [NoBox EXCEPT !.letter = Len(letters')] /\ autoRow' = 0
    BY DEF Starts, SetBox
  <2>3. compose'.letter = Len(letters') /\ compose'.version = 0 /\ compose'.row = 0
    BY <2>2 DEF NoBox
  <2> QED
    BY <2>1, <2>2, <2>3
<1>5. PICK y : Text(compose)' = y /\ y.letter = Len(letters) + 1
  <2>1. Text(compose)'.letter = Len(letters) + 1
    BY <1>4 DEF Text
  <2>2. PICK y : Text(compose)' = y
    OBVIOUS
  <2> QED
    BY <2>1, <2>2
<1>6. y.letter \notin DOMAIN latest
  BY <1>5, LetterIsOld
<1>7. y \notin SentTexts /\ \A p : ~Lives(p, y)
  BY <1>6, OldTexts
<1>8. \A q : ~InBox(q)'
  BY <1>2, <1>4 DEF InBox, RowOf, Or
<1>9. \A t : Near(t)' => t = y
  BY <1>2, <1>5, <1>8 DEF Near, Own
<1>10. PICK m, x :
              /\ \A q \in DOMAIN rows' : (q \in DOMAIN rows /\ rows'[q] = rows[q]) \/ (q = m /\ rows'[q] = x)
              /\ m \in DOMAIN rows' => m \in DOMAIN rows \/ \A l \in Lists : m \notin DOMAIN l
              /\ m \in DOMAIN rows' => (\A p : Lives(p, x) => p = m) /\ x \notin SentTexts
              /\ m \in DOMAIN rows' => Open /\ x = Text(compose)
  BY <1>1, ParksSpread
<1>11. \A q, t : Lives(q, t)' => Lives(q, t) \/ (q = m /\ t = x)
  <2>1. Lists' = Lists
    BY <1>1, ParksSpread
  <2> QED
    BY <1>8, <1>10, <2>1, LivesThen
<1>12. \A q, t : Lives(q, t)' => q \in DOMAIN rows'
  BY DEF Lives
<1>13. \A q : ~Lives(q, y)'
  <2>1. m \in DOMAIN rows' => x # y
    BY <1>6, <1>10, LetterIsOld DEF Text
  <2> QED
    BY <1>7, <1>11, <1>12, <2>1
<1>14. Parted'
  <2>1. Lives(m, x)' => (\A p : Lives(p, x) => p = m) /\ x \notin SentTexts' /\ x \notin Posted'
    BY <1>3, <1>10, <1>12
  <2>2. \A t : Near(t)' => t \notin SentTexts' /\ \A q : ~Lives(q, t)'
    BY <1>3, <1>7, <1>9, <1>13
  <2> QED
    BY <1>3, <1>11, <2>1, <2>2, Spread DEF Separate
<1>15. SentApart'
  BY <1>2, <1>3 DEF Separate, SentApart
<1> QED
  BY <1>3, <1>14, <1>15 DEF Separate, Gone

(* A draft that is opened keeps texts apart. *)
LEMMA ReopensSeparate ==
  ASSUME TypeOK, Boxed, Separate, Apart', NEW t, NEW r, Reopens(t, r)
  PROVE  Separate'
<1>1. Saves = {} /\ Strips = {} /\ Enders = {} /\ Sendings = {} /\ Parks /\ waiting = <<>>
  BY Seen DEF Reopens
<1>2. Saves' = {} /\ Strips' = {} /\ Enders' = {} /\ Sendings' = {} /\ sends' = sends /\ Unundone' = Unundone
  BY <1>1, ParksMail DEF Enders, Sendings, Reopens, Unundone, Range
<1>3. SentTexts' = SentTexts /\ Posted' = {}
  BY <1>2, SentSame DEF Posted
<1>4. autoRow' = 0 /\ compose'.row = r /\ compose'.letter = t.letter /\ compose'.version = t.version /\ t \in TextOf(latest)
  BY DEF Reopens, SetBox
<1>5. r \in DOMAIN rows /\ rows[r] = t /\ RowOf(compose) # r /\ r # 0
  <2>1. DraftSlips(t, r) \subseteq slips'
    BY DEF Reopens
  <2>2. r \in DOMAIN rows /\ rows[r] = t /\ RowOf(compose) # r
    BY <2>1, ApartIs DEF DraftSlips, When
  <2> QED
    BY <2>2, Held0, RowIs
<1>6. Text(compose)' = t
  BY <1>4 DEF Text, TextOf
<1>7. \A q : InBox(q)' <=> q = r
  BY <1>2, <1>4, <1>5 DEF InBox, RowOf, Or
<1>8. \A s : Own(s)' => s = t
  BY <1>2, <1>6 DEF Own
<1>9. PICK m, x :
              /\ \A q \in DOMAIN rows' : (q \in DOMAIN rows /\ rows'[q] = rows[q]) \/ (q = m /\ rows'[q] = x)
              /\ m \in DOMAIN rows' => m \in DOMAIN rows \/ \A l \in Lists : m \notin DOMAIN l
              /\ m \in DOMAIN rows' => (\A p : Lives(p, x) => p = m) /\ x \notin SentTexts
              /\ \A q \in DOMAIN rows : q # RowOf(compose) => q \in DOMAIN rows' /\ rows'[q] = rows[q]
  BY <1>1, ParksSpread
<1>10. r \in DOMAIN rows' /\ rows'[r] = t /\ Lists' = Lists
  BY <1>1, <1>5, <1>9, ParksSpread
<1>11. \A q, s : Lives(q, s)' => Lives(q, s) \/ (q = m /\ s = x)
  <2>1. \A q \in DOMAIN rows' : \A s : InBox(q)' /\ Own(s)' => Lives(q, s)
    BY <1>5, <1>7, <1>8 DEF Lives
  <2> QED
    BY <1>9, <1>10, <2>1, LivesThen
<1>12. \A q, s : Lives(q, s)' => q \in DOMAIN rows'
  BY DEF Lives
<1>13. \A s : Near(s)' => InBox(r)' /\ Lives(r, s)'
  <2>1. \A s : Near(s)' => s = t \/ \E l \in Lists' : r \in DOMAIN l /\ l[r] = s
    BY <1>7, <1>8 DEF Near
  <2> QED
    BY <1>7, <1>10, <2>1 DEF Lives
<1>14. Parted'
  <2>1. Lives(m, x)' => (\A p : Lives(p, x) => p = m) /\ x \notin SentTexts' /\ x \notin Posted'
    BY <1>3, <1>9, <1>12
  <2> QED
    BY <1>3, <1>11, <1>13, <2>1, Spread DEF Separate
<1>15. SentApart'
  BY <1>2, <1>3 DEF Separate, SentApart
<1> QED
  BY <1>3, <1>14, <1>15 DEF Separate, Gone

(* A message the queue took keeps texts apart. *)
LEMMA LeavesSeparate ==
  ASSUME TypeOK, Ends, Separate, NEW c, Leaves(c)
  PROVE  Separate'
<1> DEFINE e == List(rows)
<1>0. e.kind = "list" /\ e.list = rows /\ Mail' = Mail \cup {e}
  BY DEF Leaves, List
<1> HIDE DEF e
<1>1. /\ ~Open' /\ rows' = rows /\ Sendings' = Sendings \ {c} /\ c \in Sendings /\ Lists' = Lists \cup {rows}
      /\ sends' = Append(sends, [text |-> c.text, undone |-> FALSE])
  BY <1>0, ListsAdd DEF Leaves, NoneOpen, NoBox, Open, table, Sendings
<1>2. Sendings' = {}
  BY <1>1 DEF Ends
<1>3. Posted' = {} /\ c.text \in Posted
  BY <1>1, <1>2 DEF Posted
<1>4. PICK n \in Nat : /\ DOMAIN sends' = DOMAIN sends \cup {n} /\ n \notin DOMAIN sends
                       /\ sends'[n] = [text |-> c.text, undone |-> FALSE] /\ \A i \in DOMAIN sends : sends'[i] = sends[i]
  <2>1. sends \in Seq(Messages(latest)) /\ c \in slow /\ slow \subseteq Errands(latest, lastRow)
    BY <1>1, Held0 DEF Sendings
  <2>2. [text |-> c.text, undone |-> FALSE] \in Messages(latest)
    BY <2>1 DEF Messages, Errands
  <2>3. PICK n \in Nat : n = Len(sends) + 1
    BY <2>1
  <2> QED
    BY <1>1, <2>1, <2>2, <2>3
<1>5. Unundone' = Unundone \cup {n} /\ sends'[n].text = c.text /\ \A i \in Unundone : sends'[i] = sends[i] /\ i # n
  BY <1>4 DEF Unundone
<1>6. SentTexts' = SentTexts \cup {c.text}
  BY <1>5 DEF SentTexts
<1>7. \A t : ~Own(t)' /\ ~Near(t)'
  BY <1>1 DEF Own, Near
<1>8. \A q, t : Lives(q, t)' => Lives(q, t)
  BY <1>1, <1>7 DEF Lives
<1>9. Parted'
  BY <1>1, <1>3, <1>6, <1>7, <1>8, SpreadNot DEF Separate
<1>10. SentApart'
  <2>1. \A i \in Unundone : sends[i].text \in SentTexts
    BY DEF SentTexts
  <2>2. \A i \in Unundone : sends[i].text # c.text
    BY <1>3, <2>1 DEF Separate, SentApart
  <2> QED
    BY <1>3, <1>5, <2>2 DEF Separate, SentApart
<1> QED
  BY <1>1, <1>9, <1>10 DEF Separate, Gone

(* Nothing lies anywhere at first. *)
LEMMA InitSeparate == Init => Separate
<1> SUFFICES ASSUME Init PROVE Separate
  OBVIOUS
<1>1. DOMAIN rows = {} /\ Sendings = {} /\ Unundone = {} /\ ~Open
  BY DEF Init, Sendings, Unundone, Open, NoBox
<1>2. SentTexts = {} /\ Posted = {}
  BY <1>1 DEF SentTexts, Posted
<1>3. \A q, t : ~Lives(q, t)
  BY <1>1 DEF Lives
<1> QED
  BY <1>1, <1>2, <1>3 DEF Separate, Parted, SentApart, Gone

(* Every step keeps texts apart. *)
LEMMA StepSeparate ==
  TypeOK /\ Base /\ (Apart => Ends) /\ (Apart => Separate) /\ [Next]_vars => (Apart' => Separate')
<1> SUFFICES ASSUME TypeOK, Base, Apart => Ends, Apart => Separate, [Next]_vars, Apart' PROVE Separate'
  OBVIOUS
<1>0. Ends /\ Separate /\ Boxed /\ Calm'
  BY ApartBefore, ApartIs, CalmBefore DEF Base
<1>1. Kinds
  BY <1>0, Steps, StutterIdles DEF Kinds
<1> QED
  BY <1>0, <1>1, IdlesSeparate, WaitsSeparate, ClosesSeparate, CollapsesSeparate, WritesSeparate, PostsSeparate, StartsSeparate,
     ReopensSeparate, LeavesSeparate, RefusesSeparate, ReturnsSeparate, TypeSeparate, EditsSeparate, GoesSeparate, HearsSeparate DEF Kinds

(* While none of the four slips happened, a text lies in one place, and    *)
(* what is sent or being sent lies in none.                                *)
THEOREM ComposerSeparate == Spec => [](Apart => Separate)
<1>1. Init => (Apart => Separate)
  BY InitSeparate
<1>2. TypeOK /\ Base /\ (Apart => Ends) /\ (Apart => Separate) /\ [Next]_vars => (Apart => Separate)'
  BY StepSeparate
<1> QED
  BY ComposerTypes, ComposerBase, ComposerEnds, <1>1, <1>2, PTL DEF Spec

(* A message that is in the send queue has no draft, also when the letter  *)
(* is typed on while it is sent, but for the slips SentHasNoDraft names:   *)
(* opened, again, strip and stale.                                         *)
THEOREM ComposerSentHasNoDraft == Spec => []SentHasNoDraft
<1>1. (Apart => Separate) => SentHasNoDraft
  <2> SUFFICES ASSUME Apart => Separate, Apart PROVE SentHasNoDraft
    BY DEF Apart, SentHasNoDraft
  <2>1. \A r \in DOMAIN rows : Lives(r, rows[r])
    BY DEF Lives
  <2>2. \A i \in DOMAIN sends : ~sends[i].undone => sends[i].text \in SentTexts
    BY DEF SentTexts, Unundone
  <2> QED
    BY <2>1, <2>2 DEF Separate, Parted, SentHasNoDraft, Range
<1> QED
  BY ComposerSeparate, <1>1, PTL

(* One letter is one thing: one draft, one message, and never both, each   *)
(* part but for the slips it names.                                        *)
THEOREM ComposerLetters == Spec => []LetterIsOne
<1>1. OneRowEach /\ SentOnce /\ SentHasNoDraft => LetterIsOne
  BY DEF LetterIsOne
<1> QED
  BY ComposerOneRow, ComposerSentOnce, ComposerSentHasNoDraft, <1>1, PTL

-----------------------------------------------------------------------------
(* Found: what is owed is where no box reaches, or in the box, or about to *)
(* be saved.                                                               *)

Plain == ~Happened({"typed", "opened", "strip", "over", "stale", "adopted", "gone", "refused"})

(* Texts that left as messages, or are leaving, or come back from there.   *)
Mailed == SentTexts \cup {c.text : c \in slow}

(* The box, or who ends it, can still write this row or delete it.         *)
Touched(q) == (Open /\ InBox(q)) \/ \E w \in Enders : w.d.row = q

(* The text is kept where no box reaches.                                  *)
Safe(t) == t \in Mailed \/ \E q \in DOMAIN rows : ~Touched(q) /\ rows[q] = t

OnePerLetter == \A s, t \in owed : s.letter = t.letter => s = t

(* Who ends the box ends it as it is, or as the others do.                 *)
SameEnds == \A w \in Enders : (\A v \in Enders : v.d = w.d) /\ (Open => Text(w.d) = Text(compose))

(* What is owed is safe, or in the box, or about to be saved.              *)
Accounted ==
  \A t \in owed : Safe(t) \/ (Open /\ t = Text(compose)) \/ \E w \in Enders : w.keep /\ t = Text(w.d)

(* What the box would write on is there, unless the box was sent.          *)
BoxInTable == Open => \A r : InBox(r) => r \in DOMAIN rows \/ \E c \in Sendings : c.row = r
EndsInTable ==
  \A w \in Enders : w.d.row # 0 /\ Text(w.d) \in owed => w.d.row \in DOMAIN rows \/ Safe(Text(w.d))

(* Nothing is owed of what will be thrown away.                            *)
Dropped == \A w \in Enders : ~w.keep => \A t \in owed : t.letter # w.d.letter

(* While the box is sent its text is safe.                                 *)
PostedSafe == Open /\ Sendings # {} /\ Text(compose) \in owed => Safe(Text(compose))

(* A save that is on its way brings something new.                         *)
SavesNews == Open /\ Saving /\ saved.row # 0 /\ saved.row = RowOf(compose) => saved.text # Text(compose)

Found ==
  /\ OnePerLetter /\ SameEnds /\ Accounted /\ BoxInTable /\ EndsInTable
  /\ Dropped /\ PostedSafe /\ SavesNews

(* A plain state had none of the eight slips. *)
LEMMA PlainIs ==
  ASSUME Plain'
  PROVE  /\ "typed" \notin slips' /\ "opened" \notin slips' /\ "strip" \notin slips' /\ "over" \notin slips'
         /\ "stale" \notin slips' /\ "adopted" \notin slips' /\ "gone" \notin slips' /\ "refused" \notin slips' /\ Calm'
BY DEF Plain, Calm, Happened

(* A plain state comes from one. *)
LEMMA PlainBefore == Plain' /\ [Next]_vars => Plain
<1>1. Next => slips \subseteq slips'
  BY SlipsGrow
<1> QED
  BY <1>1 DEF Plain, Happened, vars

(* What is owed is a text, and so was written. *)
LEMMA OwedIs ==
  ASSUME TypeOK
  PROVE  /\ owed \subseteq TextOf(latest)
         /\ \A d \in LetterBox(latest, lastRow) : Text(d) \in owed => Written(d)
         /\ \A t \in owed : t.letter \in DOMAIN latest /\ t.version <= latest[t.letter]
         /\ \A d : Text(d).letter = d.letter
<1>1. owed \subseteq TextOf(latest) /\ latest \in Seq(Nat) /\ lastRow \in Nat
  BY DEF TypeOK, Typed
<1>2. ASSUME NEW d \in LetterBox(latest, lastRow), Text(d) \in owed PROVE Written(d)
  <2>1. Text(d).version \in Nat \ {0} /\ d.version \in Nat /\ Text(d).version = d.version
    BY <1>1, <1>2, TextIs
  <2> QED
    BY <2>1 DEF Written
<1>3. \A t \in owed : t.letter \in DOMAIN latest /\ t.version <= latest[t.letter]
  BY <1>1, TextIs
<1> QED
  BY <1>1, <1>2, <1>3 DEF Text

(* Who ends a box has a letter, and one row it came with. *)
LEMMA EnderIs ==
  ASSUME TypeOK, NEW w \in Enders
  PROVE  /\ w \in Waiters(latest, lastRow) /\ w.kind # "autosave"
         /\ w.d \in LetterBox(latest, lastRow) /\ w.d.row \in 0 .. lastRow /\ w.keep \in BOOLEAN
<1>0. latest \in Seq(Nat) /\ lastRow \in Nat /\ waiting \in Seq(Waiters(latest, lastRow))
  BY Held0
<1>1. w \in Waiters(latest, lastRow) /\ w.kind # "autosave"
  BY <1>0, SeqRange DEF Enders
<1>2. w.d \in LetterBox(latest, lastRow) /\ w.keep \in BOOLEAN
  BY <1>1 DEF Waiters
<1> QED
  BY <1>0, <1>1, <1>2, TextIs

(* Who ends what is open, or what was. *)
EndOf(d) == (Open /\ d = compose) \/ \E w \in Enders : w.d = d

(* Who ends a box reaches only rows of the box, and finds it as the others *)
(* do.                                                                     *)
LEMMA EndIs ==
  ASSUME TypeOK, Boxed, Found, NEW d, EndOf(d)
  PROVE  /\ d \in LetterBox(latest, lastRow) /\ RowOf(d) \in 0 .. lastRow
         /\ RowOf(d) # 0 => Touched(RowOf(d))
         /\ \A t \in owed : Safe(t) \/ t = Text(d)
         /\ Text(d) \in owed /\ RowOf(d) # 0 /\ RowOf(d) \notin DOMAIN rows => Safe(Text(d))
         /\ Open => Text(d) = Text(compose) /\ RowOf(d) = RowOf(compose) /\ d.row = compose.row
         /\ ~Open => RowOf(d) = d.row
         /\ \A v \in Enders : v.d = d
<1>0. latest \in Seq(Nat) /\ lastRow \in Nat /\ Typed(latest, lastRow) /\ Window /\ (Open => compose \in LetterBox(latest, lastRow))
  BY Held0
<1>1. d \in LetterBox(latest, lastRow)
  BY <1>0, EnderIs DEF EndOf
<1>2. RowOf(d) \in 0 .. lastRow
  BY <1>0, <1>1, BoxIs
<1>3. Open => Text(d) = Text(compose) /\ d.row = compose.row
  BY DEF EndOf, Found, SameEnds, Boxed
<1>4. Open => RowOf(d) = RowOf(compose)
  BY <1>3 DEF RowOf
<1>5. ~Open => RowOf(d) = d.row
  <2>1. ~Open => autoRow = 0
    BY <1>0 DEF Window
  <2> QED
    BY <2>1 DEF RowOf, Or
<1>6. RowOf(d) # 0 => Touched(RowOf(d))
  <2>1. CASE Open
    BY <1>4, <2>1 DEF Touched, InBox
  <2>2. CASE ~Open
    BY <1>5, <2>2 DEF Touched, EndOf
  <2> QED
    BY <2>1, <2>2
<1>7. \A v \in Enders : v.d = d
  <2>1. CASE Open /\ d = compose
    <3>1. ASSUME NEW v \in Enders PROVE v.d = compose
      <4>1. v.d.row = compose.row /\ Text(v.d) = Text(compose) /\ v.d \in LetterBox(latest, lastRow)
        BY <2>1, EnderIs DEF Found, SameEnds, Boxed
      <4>2. v.d.letter = compose.letter /\ v.d.version = compose.version
        BY <4>1 DEF Text
      <4> QED
        BY <1>0, <2>1, <4>1, <4>2 DEF LetterBox
    <3> QED
      BY <2>1, <3>1
  <2>2. CASE \E w \in Enders : w.d = d
    BY <2>2 DEF Found, SameEnds
  <2> QED
    BY <2>1, <2>2 DEF EndOf
<1>8. \A t \in owed : Safe(t) \/ t = Text(d)
  BY <1>3, <1>7 DEF Found, Accounted
<1>9. ASSUME Text(d) \in owed, RowOf(d) # 0, RowOf(d) \notin DOMAIN rows PROVE Safe(Text(d))
  <2>1. CASE Open
    <3>1. Sendings # {}
      BY <1>4, <1>9, <2>1 DEF Found, BoxInTable, InBox
    <3> QED
      BY <1>3, <1>9, <2>1, <3>1 DEF Found, PostedSafe
  <2>2. CASE ~Open
    BY <1>5, <1>9, <2>2 DEF Found, EndsInTable, EndOf
  <2> QED
    BY <2>1, <2>2
<1> QED
  BY <1>1, <1>2, <1>3, <1>4, <1>5, <1>6, <1>7, <1>8, <1>9

(* What a save does to the table. *)
LEMMA SaveIs ==
  ASSUME TypeOK, NEW r \in 0 .. lastRow, NEW x, SaveDraft(r, x)
  PROVE  /\ \A q \in DOMAIN rows : q \in DOMAIN rows' /\ (q # r => rows'[q] = rows[q])
         /\ r = 0 => lastRow + 1 \in DOMAIN rows' /\ rows'[lastRow + 1] = x
         /\ r \in DOMAIN rows => rows'[r] = x
         /\ 0 \notin DOMAIN rows /\ lastRow + 1 \notin DOMAIN rows
         /\ SavedRow(r) \in DOMAIN rows => SavedRow(r) = r
         /\ SavedRow(r) # r => r = 0 /\ SavedRow(r) = lastRow + 1
<1>0. rows \in Tables(latest, lastRow) /\ latest \in Seq(Nat) /\ lastRow \in Nat
  BY Held0
<1>1. 0 \notin DOMAIN rows /\ lastRow + 1 \notin DOMAIN rows
  <2>1. \A q \in DOMAIN rows : q \in 1 .. lastRow
    BY <1>0, RowIs
  <2> QED
    BY <1>0, <2>1
<1> QED
  BY <1>0, <1>1 DEF SaveDraft, With, SavedRow

(* What a delete does. *)
LEMMA DeleteIs ==
  ASSUME NEW r, DeleteRow(r)
  PROVE  \A q \in DOMAIN rows : q # r => q \in DOMAIN rows' /\ rows'[q] = rows[q]
BY DEF DeleteRow, Without, Restrict

(* What is safe stays so where no row that is out of reach is moved. *)
LEMMA StaysSafe ==
  ASSUME Mailed \subseteq Mailed',
         \A q \in DOMAIN rows : ~Touched(q) => q \in DOMAIN rows' /\ rows'[q] = rows[q] /\ ~Touched(q)'
  PROVE  \A t : Safe(t) => Safe(t)'
BY DEF Safe

(* A box that reaches no further than it did. *)
LEMMA TouchedThen ==
  ASSUME Open' => Open, Enders' \subseteq Enders, \A q \in DOMAIN rows : Open' /\ InBox(q)' => InBox(q)
  PROVE  \A q \in DOMAIN rows : Touched(q)' => Touched(q)
BY DEF Touched

(* What is mailed, where the queue and what is on its way there stay. *)
LEMMA MailedSame == sends' = sends /\ slow' = slow => Mailed' = Mailed
BY SentSame DEF Mailed, Unundone

(* A step that leaves the box what it was. *)
LEMMA Carry ==
  ASSUME Found, \A t : Safe(t) => Safe(t)', owed' = owed,
         Enders' \subseteq Enders, Enders' = Enders \/ Open,
         Open' <=> Open, Text(compose)' = Text(compose), Sendings' = Sendings, DOMAIN rows \subseteq DOMAIN rows',
         Open' => \A r : InBox(r)' => InBox(r) \/ r \in DOMAIN rows',
         SavesNews'
  PROVE  Found'
<1>1. OnePerLetter'
  BY DEF Found, OnePerLetter
<1>2. SameEnds'
  BY DEF Found, SameEnds
<1>3. Accounted'
  <2> SUFFICES ASSUME NEW t \in owed'
               PROVE  Safe(t)' \/ (Open' /\ t = Text(compose)') \/ \E w \in Enders' : w.keep /\ t = Text(w.d)
    BY DEF Accounted, Text
  <2>1. Safe(t) \/ (Open /\ t = Text(compose)) \/ \E w \in Enders : w.keep /\ t = Text(w.d)
    BY DEF Found, Accounted
  <2>2. Open => \A w \in Enders : Text(w.d) = Text(compose)
    BY DEF Found, SameEnds
  <2> QED
    BY <2>1, <2>2
<1>4. BoxInTable'
  BY DEF Found, BoxInTable
<1>5. EndsInTable'
  BY DEF Found, EndsInTable, Text
<1>6. Dropped'
  BY DEF Found, Dropped
<1>7. PostedSafe'
  <2>1. Open /\ Sendings # {} /\ Text(compose) \in owed => Safe(Text(compose))
    BY DEF Found, PostedSafe
  <2>2. ASSUME NEW x, x = Text(compose) PROVE Open' /\ Sendings' # {} /\ x \in owed' => Safe(x)'
    BY <2>1, <2>2
  <2>3. PICK x : x = Text(compose)
    OBVIOUS
  <2>4. Open' /\ Sendings' # {} /\ x \in owed' => Safe(x)'
    BY <2>2, <2>3
  <2> QED
    BY <2>3, <2>4 DEF PostedSafe
<1> QED
  BY <1>1, <1>2, <1>3, <1>4, <1>5, <1>6, <1>7 DEF Found

(* The box is gone and what it held was saved. *)
LEMMA PutAside ==
  ASSUME TypeOK, Boxed, Found, NEW d, EndOf(d), SaveDraft(RowOf(d), Text(d)), Mailed' = Mailed,
         ~Open', Enders' \subseteq Enders, owed' \subseteq owed
  PROVE  /\ \A t : Safe(t) => Safe(t)'
         /\ Accounted' /\ EndsInTable'
<1> DEFINE r == RowOf(d)
<1>0. /\ d \in LetterBox(latest, lastRow) /\ r \in 0 .. lastRow /\ (r # 0 => Touched(r))
      /\ \A t \in owed : Safe(t) \/ t = Text(d)
      /\ Text(d) \in owed /\ r # 0 /\ r \notin DOMAIN rows => Safe(Text(d))
      /\ \A v \in Enders : v.d = d
  BY EndIs
<1>1. /\ \A q \in DOMAIN rows : q \in DOMAIN rows' /\ (q # r => rows'[q] = rows[q])
      /\ r = 0 => lastRow + 1 \in DOMAIN rows' /\ rows'[lastRow + 1] = Text(d)
      /\ r \in DOMAIN rows => rows'[r] = Text(d)
      /\ 0 \notin DOMAIN rows
  BY <1>0, SaveIs
<1> HIDE DEF r
<1>2. \A t : Safe(t) => Safe(t)'
  <2>1. \A q \in DOMAIN rows : Touched(q)' => Touched(q)
    BY TouchedThen
  <2>2. \A q \in DOMAIN rows : ~Touched(q) => q # r
    BY <1>0, <1>1
  <2> QED
    BY <1>1, <2>1, <2>2, StaysSafe
<1>3. Text(d) \in owed' => Safe(Text(d))' \/ \E w \in Enders' : w.keep /\ Text(d) = Text(w.d)
  <2> SUFFICES ASSUME Text(d) \in owed', ~\E w \in Enders' : w.keep /\ Text(d) = Text(w.d) PROVE Safe(Text(d))'
    OBVIOUS
  <2>1. Enders' = {}
    <3> SUFFICES ASSUME NEW w \in Enders' PROVE FALSE
      OBVIOUS
    <3>1. w.d = d /\ w.keep \in BOOLEAN /\ ~w.keep
      BY <1>0, EnderIs
    <3>2. Text(d).letter # d.letter
      BY <3>1 DEF Found, Dropped
    <3> QED
      BY <3>2 DEF Text
  <2>2. \A q : ~Touched(q)'
    BY <2>1 DEF Touched
  <2>3. CASE r = 0
    BY <1>1, <2>2, <2>3 DEF Safe
  <2>4. CASE r \in DOMAIN rows
    BY <1>1, <2>2, <2>4 DEF Safe
  <2>5. CASE r # 0 /\ r \notin DOMAIN rows
    BY <1>0, <1>2, <2>5
  <2> QED
    BY <2>3, <2>4, <2>5
<1>4. Accounted'
  <2>1. \A t \in owed' : Safe(t)' \/ \E w \in Enders' : w.keep /\ t = Text(w.d)
    BY <1>0, <1>2, <1>3
  <2> QED
    BY <2>1 DEF Accounted, Text
<1>5. EndsInTable'
  <2> SUFFICES ASSUME NEW w \in Enders', w.d.row # 0, Text(w.d) \in owed' PROVE w.d.row \in DOMAIN rows' \/ Safe(Text(w.d))'
    BY DEF EndsInTable, Text
  <2>1. w.d.row \in DOMAIN rows \/ Safe(Text(w.d))
    BY DEF Found, EndsInTable
  <2> QED
    BY <1>1, <1>2, <2>1
<1> QED
  BY <1>2, <1>4, <1>5

(* The box is gone, and what it held is owed to nobody. *)
LEMMA ThrownAway ==
  ASSUME TypeOK, Boxed, Found, NEW d, EndOf(d), DeleteRow(RowOf(d)), Text(d) \notin owed', Mailed' = Mailed,
         ~Open', Enders' \subseteq Enders, owed' \subseteq owed
  PROVE  Accounted' /\ EndsInTable'
<1> DEFINE r == RowOf(d)
<1>0. /\ r # 0 => Touched(r)
      /\ \A t \in owed : Safe(t) \/ t = Text(d)
      /\ \A v \in Enders : v.d = d
  BY EndIs
<1>1. \A q \in DOMAIN rows : q # r => q \in DOMAIN rows' /\ rows'[q] = rows[q]
  BY DeleteIs
<1>2. 0 \notin DOMAIN rows
  BY Held0, RowIs
<1> HIDE DEF r
<1>3. \A t : Safe(t) => Safe(t)'
  <2>1. \A q \in DOMAIN rows : Touched(q)' => Touched(q)
    BY TouchedThen
  <2>2. \A q \in DOMAIN rows : ~Touched(q) => q # r
    BY <1>0, <1>2
  <2> QED
    BY <1>1, <2>1, <2>2, StaysSafe
<1>4. Accounted'
  <2>1. \A t \in owed' : Safe(t)'
    BY <1>0, <1>3
  <2> QED
    BY <2>1 DEF Accounted, Text
<1>5. EndsInTable'
  <2>1. \A w \in Enders' : Text(w.d) \notin owed'
    BY <1>0
  <2> QED
    BY <2>1 DEF EndsInTable, Text
<1> QED
  BY <1>4, <1>5

(* Without a box most of what was found is about nothing. *)
LEMMA NoBoxFound ==
  ASSUME Found, ~Open', Enders' \subseteq Enders, owed' \subseteq owed, Accounted', EndsInTable'
  PROVE  Found'
<1>1. OnePerLetter' /\ SameEnds' /\ Dropped'
  BY DEF Found, OnePerLetter, SameEnds, Dropped
<1>2. BoxInTable' /\ PostedSafe' /\ SavesNews'
  BY DEF BoxInTable, PostedSafe, SavesNews
<1> QED
  BY <1>1, <1>2 DEF Found

(* A step that moves nothing of the letters loses none. *)
LEMMA IdlesFound ==
  ASSUME TypeOK, Found, Idles
  PROVE  Found'
<1>1. Open' = Open /\ Text(compose)' = Text(compose) /\ Enders' = Enders /\ owed' = owed /\ rows' = rows
  BY DEF Idles, Open, table, Text
<1>2. Saves' = Saves /\ Strips' = Strips /\ Sendings' = Sendings /\ Mailed' = Mailed /\ RowOf(compose)' = RowOf(compose)
  BY MailedSame DEF Idles, Saves, Strips, Sendings, RowOf
<1>3. \A q : InBox(q)' <=> InBox(q)
  BY <1>2 DEF InBox
<1>4. \A q \in DOMAIN rows : Touched(q)' => Touched(q)
  BY <1>1, <1>3, TouchedThen
<1>5. \A t : Safe(t) => Safe(t)'
  BY <1>1, <1>2, <1>4, StaysSafe
<1>6. SavesNews'
  <2>1. (Saving' <=> Saving) /\ saved' = saved
    BY <1>2, Seen, SeenNext DEF Idles
  <2> QED
    BY <1>1, <1>2, <2>1 DEF Found, SavesNews
<1> QED
  BY <1>1, <1>2, <1>3, <1>5, <1>6, Carry

(* A key that waits for a save loses no text but what it throws away. *)
LEMMA WaitsFound ==
  ASSUME TypeOK, Boxed, Found, NEW w, Waits(w)
  PROVE  Found'
<1>1. /\ Open /\ w.d = compose /\ compose' = compose /\ autoRow' = autoRow /\ saved' = saved
      /\ Enders' = Enders \cup {w} /\ rows' = rows /\ Mail' = Mail /\ slow' = slow /\ sends' = sends
      /\ owed' = IF w.keep THEN owed ELSE {t \in owed : t.letter # compose.letter}
  BY DEF Waits, box, table
<1>2. Open' /\ Text(compose)' = Text(compose) /\ RowOf(compose)' = RowOf(compose)
  BY <1>1 DEF Open, Text, RowOf
<1>3. Saves' = Saves /\ Strips' = Strips /\ Sendings' = Sendings /\ Mailed' = Mailed
  BY <1>1, MailedSame DEF Saves, Strips, Sendings
<1>4. \A q : InBox(q)' <=> InBox(q)
  BY <1>2, <1>3 DEF InBox
<1>5. \A q \in DOMAIN rows : Touched(q)' => Touched(q)
  <2> SUFFICES ASSUME NEW q \in DOMAIN rows, Touched(q)', ~Touched(q) PROVE FALSE
    OBVIOUS
  <2>1. q = compose.row /\ q # 0
    BY <1>1, <1>4, Held0, RowIs DEF Touched
  <2>2. InBox(q)
    BY <2>1 DEF InBox, RowOf, Or
  <2> QED
    BY <1>1, <2>2 DEF Touched
<1>6. \A t : Safe(t) => Safe(t)'
  BY <1>1, <1>3, <1>5, StaysSafe
<1>7. owed' \subseteq owed
  BY <1>1
<1>8. OnePerLetter'
  BY <1>7 DEF Found, OnePerLetter
<1>9. \A v \in Enders' : v.d = compose
  <2>1. EndOf(compose)
    BY <1>1 DEF EndOf
  <2> QED
    BY <1>1, <2>1, EndIs
<1>10. SameEnds'
  <2>1. \A v \in Enders' : Text(v.d) = Text(compose)
    BY <1>9
  <2> QED
    BY <1>2, <1>9, <2>1 DEF SameEnds, Text
<1>11. Accounted'
  <2>1. \A t \in owed' : Safe(t)' \/ (Open' /\ t = Text(compose))
    <3>1. EndOf(compose)
      BY <1>1 DEF EndOf
    <3> QED
      BY <1>2, <1>6, <1>7, <3>1, EndIs
  <2> QED
    BY <1>2, <2>1 DEF Accounted, Text
<1>12. BoxInTable'
  BY <1>1, <1>3, <1>4 DEF Found, BoxInTable
<1>13. EndsInTable'
  <2> SUFFICES ASSUME NEW v \in Enders', v.d.row # 0, Text(v.d) \in owed' PROVE v.d.row \in DOMAIN rows' \/ Safe(Text(v.d))'
    BY DEF EndsInTable, Text
  <2>1. v.d = compose /\ compose.row # 0 /\ EndOf(compose) /\ Text(compose) \in owed
    BY <1>1, <1>7, <1>9 DEF EndOf
  <2>2. RowOf(compose) = compose.row
    BY <2>1 DEF RowOf, Or
  <2>3. compose.row \in DOMAIN rows \/ Safe(Text(compose))
    BY <2>1, <2>2, EndIs
  <2> QED
    BY <1>1, <1>6, <2>1, <2>3
<1>14. Dropped'
  <2> SUFFICES ASSUME NEW v \in Enders', ~v.keep, NEW t \in owed' PROVE t.letter # v.d.letter
    BY DEF Dropped
  <2>1. CASE v \in Enders
    BY <1>7, <2>1 DEF Found, Dropped
  <2>2. CASE v = w
    BY <1>1, <2>2
  <2> QED
    BY <1>1, <2>1, <2>2
<1>15. PostedSafe'
  <2>1. Text(compose) \in owed' /\ Sendings' # {} => Safe(Text(compose))'
    <3>1. Text(compose) \in owed' /\ Sendings' # {} => Safe(Text(compose))
      BY <1>1, <1>3, <1>7 DEF Found, PostedSafe
    <3>2. PICK x : x = Text(compose)
      OBVIOUS
    <3> QED
      BY <1>2, <1>6, <3>1, <3>2
  <2> QED
    BY <1>2, <2>1 DEF PostedSafe
<1>16. SavesNews'
  <2>1. Saving' <=> Saving
    BY <1>3, Seen, SeenNext
  <2> QED
    BY <1>1, <1>2, <2>1 DEF Found, SavesNews
<1> QED
  BY <1>8, <1>10, <1>11, <1>12, <1>13, <1>14, <1>15, <1>16 DEF Found

(* A close loses no text but what it throws away. *)
LEMMA ClosesFound ==
  ASSUME TypeOK, Boxed, Found, NEW d, NEW keep, Closes(d, keep)
  PROVE  Found'
<1>0. ~Open' /\ Mailed' = Mailed /\ d \in LetterBox(latest, lastRow)
  BY MailedSame DEF Closes, NoneOpen, NoBox, Open
<1>1. /\ EndOf(d) /\ Enders' \subseteq Enders /\ owed' \subseteq owed
      /\ (~keep => \A t \in owed' : t.letter # d.letter)
  <2>1. CASE Now(d) /\ Strips = {} /\ owed' = IF keep THEN owed ELSE {t \in owed : t.letter # compose.letter}
    <3>1. Open /\ d = compose
      BY <2>1 DEF Now
    <3> QED
      BY <2>1, <3>1, NowIs DEF EndOf
  <2>2. ASSUME NEW w \in Waiters(latest, lastRow), Later(w), w.kind = "close", w.d = d, w.keep = keep
        PROVE  /\ EndOf(d) /\ Enders' \subseteq Enders /\ owed' \subseteq owed
               /\ (~keep => \A t \in owed' : t.letter # d.letter)
    <3>1. w \in Enders /\ Enders' \subseteq Enders /\ owed' = owed
      BY <2>2, LaterIs DEF Later
    <3> QED
      BY <2>2, <3>1 DEF EndOf, Found, Dropped
  <2> QED
    BY <2>1, <2>2 DEF Closes
<1>2. CASE keep /\ Written(d) /\ SaveDraft(RowOf(d), Text(d))
  BY <1>0, <1>1, <1>2, PutAside, NoBoxFound
<1>3. CASE ~(keep /\ Written(d)) /\ DeleteRow(RowOf(d))
  <2>1. Text(d) \notin owed'
    BY <1>0, <1>1, <1>3, OwedIs
  <2> QED
    BY <1>0, <1>1, <1>3, <2>1, ThrownAway, NoBoxFound
<1> QED
  BY <1>2, <1>3 DEF Closes, KeepRow

(* Nor does a strip. *)
LEMMA CollapsesFound ==
  ASSUME TypeOK, Boxed, Found, NEW d, Collapses(d)
  PROVE  Found'
<1>0. /\ Mailed' = Mailed /\ d \in LetterBox(latest, lastRow) /\ SaveDraft(RowOf(d), Text(d)) /\ owed' = owed
      /\ compose' = compose /\ autoRow' = autoRow /\ Sendings' = Sendings
  BY MailedSame DEF Collapses, Sendings
<1>1. Open' = Open /\ Text(compose)' = Text(compose) /\ RowOf(compose)' = RowOf(compose)
  BY <1>0 DEF Open, Text, RowOf
<1>2. EndOf(d) /\ Enders' \subseteq Enders /\ Saves = {}
  <2>1. CASE Now(d)
    BY <2>1, NowIs, Seen DEF EndOf, Now
  <2>2. ASSUME NEW w \in Waiters(latest, lastRow), Later(w), w.kind = "strip", w.d = d
        PROVE  EndOf(d) /\ Enders' \subseteq Enders /\ Saves = {}
    BY <2>2, LaterIs, Seen DEF EndOf, Later
  <2> QED
    BY <2>1, <2>2 DEF Collapses
<1>3. CASE ~Open
  BY <1>0, <1>1, <1>2, <1>3, PutAside, NoBoxFound
<1>4. CASE Open
  <2> DEFINE r == RowOf(d)
             e == Call("strip", Text(d), SavedRow(r))
  <2>1. r \in 0 .. lastRow /\ (r # 0 => Touched(r)) /\ r = RowOf(compose)
    BY <1>2, <1>4, EndIs
  <2>2. /\ \A q \in DOMAIN rows : q \in DOMAIN rows' /\ (q # r => rows'[q] = rows[q])
        /\ 0 \notin DOMAIN rows
        /\ SavedRow(r) \in DOMAIN rows => SavedRow(r) = r
        /\ SavedRow(r) # r => SavedRow(r) \in DOMAIN rows'
    <3>1. SaveDraft(r, Text(d))
      BY <1>0
    <3> QED
      BY <2>1, <3>1, SaveIs
  <2>3. Mail' = Mail \cup {e} /\ e.kind = "strip" /\ e.row = SavedRow(r)
    BY DEF Collapses, Call
  <2> HIDE DEF r, e
  <2>4. Saves' = {} /\ Strips' = Strips \cup {e}
    BY <1>2, <2>3 DEF Saves, Strips
  <2>5. \A q : InBox(q)' => InBox(q) \/ q = SavedRow(r)
    BY <1>1, <2>3, <2>4 DEF InBox
  <2>6. \A q \in DOMAIN rows : InBox(q)' => InBox(q)
    BY <2>1, <2>2, <2>5 DEF InBox
  <2>7. \A q : InBox(q)' => InBox(q) \/ q \in DOMAIN rows'
    BY <2>1, <2>2, <2>5 DEF InBox
  <2>8. \A q \in DOMAIN rows : Touched(q)' => Touched(q)
    BY <1>1, <1>2, <2>6, TouchedThen
  <2>9. \A t : Safe(t) => Safe(t)'
    <3>1. \A q \in DOMAIN rows : ~Touched(q) => q # r
      BY <2>1, <2>2
    <3> QED
      BY <1>0, <2>2, <2>8, <3>1, StaysSafe
  <2>10. SavesNews'
    BY <2>4, SeenNext DEF SavesNews
  <2> QED
    BY <1>0, <1>1, <1>2, <1>4, <2>2, <2>7, <2>9, <2>10, Carry
<1> QED
  BY <1>3, <1>4

(* An autosave loses nothing, and brings something new. *)
LEMMA WritesFound ==
  ASSUME TypeOK, Boxed, Found, Writes
  PROVE  Found'
<1> DEFINE r == RowOf(compose)
           e == Call("autosave", Text(compose), SavedRow(r))
<1>0. /\ Open /\ EndOf(compose) /\ SaveDraft(r, Text(compose)) /\ Mailed' = Mailed /\ owed' = owed /\ Enders' = Enders
      /\ compose' = compose /\ autoRow' = autoRow /\ Sendings' = Sendings /\ saved' = saved /\ ~Unchanged
  BY MailedSame DEF Writes, Sendings, EndOf
<1>1. Open' /\ Text(compose)' = Text(compose) /\ RowOf(compose)' = RowOf(compose)
  BY <1>0 DEF Open, Text, RowOf
<1>2. r \in 0 .. lastRow /\ (r # 0 => Touched(r))
  BY <1>0, EndIs
<1>3. /\ \A q \in DOMAIN rows : q \in DOMAIN rows' /\ (q # r => rows'[q] = rows[q])
      /\ 0 \notin DOMAIN rows
      /\ SavedRow(r) \in DOMAIN rows => SavedRow(r) = r
      /\ SavedRow(r) # r => SavedRow(r) \in DOMAIN rows'
  <2>1. SaveDraft(r, Text(compose))
    BY <1>0
  <2> QED
    BY <1>2, <2>1, SaveIs
<1>4. Mail' = Mail \cup {e} /\ e.kind = "autosave" /\ e.row = SavedRow(r)
  BY DEF Writes, Call
<1>5. SavesNews'
  <2>1. saved \in [row : 0 .. lastRow, text : TextOf(latest) \cup {NoText}]
    BY DEF TypeOK, Typed
  <2>2. saved.row # 0 /\ saved.row = RowOf(compose) => saved.text # Text(compose)
    BY <1>0, <2>1 DEF Unchanged
  <2> QED
    BY <1>0, <1>1, <2>2 DEF SavesNews
<1> HIDE DEF e
<1>6. Saves' = Saves \cup {e} /\ Strips' = Strips
  BY <1>4 DEF Saves, Strips
<1>7. r = RowOf(compose)
  OBVIOUS
<1> HIDE DEF r
<1>8. \A q : InBox(q)' => InBox(q) \/ q = SavedRow(r)
  BY <1>1, <1>4, <1>6 DEF InBox
<1>9. \A q \in DOMAIN rows : InBox(q)' => InBox(q)
  BY <1>3, <1>7, <1>8 DEF InBox
<1>10. \A q : InBox(q)' => InBox(q) \/ q \in DOMAIN rows'
  BY <1>3, <1>7, <1>8 DEF InBox
<1>11. \A q \in DOMAIN rows : Touched(q)' => Touched(q)
  BY <1>0, <1>1, <1>9, TouchedThen
<1>12. \A t : Safe(t) => Safe(t)'
  <2>1. \A q \in DOMAIN rows : ~Touched(q) => q # r
    BY <1>2, <1>3
  <2> QED
    BY <1>0, <1>3, <1>11, <2>1, StaysSafe
<1> QED
  BY <1>0, <1>1, <1>3, <1>5, <1>10, <1>12, Carry

(* A send makes the text safe. *)
LEMMA PostsFound ==
  ASSUME TypeOK, Boxed, Found, NEW d, Posts(d)
  PROVE  Found'
<1> DEFINE s == [kind |-> "send", text |-> Text(d), row |-> RowOf(d)]
<1>0. s.kind = "send" /\ s.text = Text(d) /\ s.row = RowOf(d) /\ slow' = slow \cup {s} /\ DeleteRow(RowOf(d)) /\ Mail' = Mail
  BY DEF Posts, Post, Detach
<1> HIDE DEF s
<1>1. /\ Sendings' = Sendings \cup {s} /\ sends' = sends /\ (Open' <=> Open) /\ compose' = compose /\ autoRow' = autoRow
      /\ saved' = saved /\ owed' = owed
      /\ RowOf(compose)' = RowOf(compose) /\ Saves' = Saves /\ Strips' = Strips /\ Text(compose)' = Text(compose)
  BY <1>0, MailSame DEF Posts, Open, Sendings, RowOf, box, Text
<1>2. EndOf(d) /\ Enders' \subseteq Enders /\ ~Saving
  <2>1. CASE Now(d)
    BY <2>1, NowIs DEF EndOf, Now
  <2>2. ASSUME NEW w \in Waiters(latest, lastRow), Later(w), w.kind = "send", w.d = d
        PROVE  EndOf(d) /\ Enders' \subseteq Enders /\ ~Saving
    BY <2>2, LaterIs DEF EndOf, Later
  <2> QED
    BY <2>1, <2>2 DEF Posts
<1>3. Mailed' = Mailed \cup {Text(d)}
  <2>1. SentTexts' = SentTexts
    BY <1>1, SentSame DEF Unundone
  <2> QED
    BY <1>0, <2>1 DEF Mailed
<1>4. \A q \in DOMAIN rows : q # RowOf(d) => q \in DOMAIN rows' /\ rows'[q] = rows[q]
  BY <1>0, DeleteIs
<1>5. /\ RowOf(d) # 0 => Touched(RowOf(d))
      /\ \A t \in owed : Safe(t) \/ t = Text(d)
      /\ Open => Text(d) = Text(compose) /\ RowOf(d) = RowOf(compose)
      /\ \A v \in Enders : v.d = d
  BY <1>2, EndIs
<1>6. \A q : InBox(q)' <=> InBox(q)
  BY <1>1 DEF InBox
<1>7. \A t : Safe(t) => Safe(t)'
  <2>1. \A q \in DOMAIN rows : Touched(q)' => Touched(q)
    BY <1>1, <1>2, <1>6, TouchedThen
  <2>2. 0 \notin DOMAIN rows
    BY Held0, RowIs
  <2>3. \A q \in DOMAIN rows : ~Touched(q) => q # RowOf(d)
    BY <1>5, <2>2
  <2> QED
    BY <1>3, <1>4, <2>1, <2>3, StaysSafe
<1>8. Safe(Text(d))'
  BY <1>3 DEF Safe
<1>9. \A t \in owed' : Safe(t)'
  BY <1>1, <1>5, <1>7, <1>8
<1>10. OnePerLetter' /\ SameEnds' /\ Dropped'
  BY <1>1, <1>2 DEF Found, OnePerLetter, SameEnds, Dropped
<1>11. Accounted' /\ PostedSafe' /\ EndsInTable'
  BY <1>9 DEF Accounted, PostedSafe, EndsInTable, Text
<1>12. BoxInTable'
  <2> SUFFICES ASSUME Open, NEW r, InBox(r) PROVE r \in DOMAIN rows' \/ \E c \in Sendings' : c.row = r
    BY <1>1, <1>6 DEF BoxInTable
  <2>1. r \in DOMAIN rows \/ \E c \in Sendings : c.row = r
    BY DEF Found, BoxInTable
  <2> QED
    BY <1>0, <1>1, <1>4, <2>1
<1>13. SavesNews'
  <2>1. ~Saving'
    BY <1>1, <1>2, Seen, SeenNext
  <2> QED
    BY <2>1 DEF SavesNews
<1> QED
  BY <1>10, <1>11, <1>12, <1>13 DEF Found

(* A message that the queue took is safe there. *)
LEMMA LeavesFound ==
  ASSUME TypeOK, Boxed, Found, NEW c, Leaves(c)
  PROVE  Found'
<1>0. /\ ~Open' /\ rows' = rows /\ Enders' = Enders /\ owed' = owed /\ c \in Sendings /\ slow' = slow \ {c}
      /\ sends' = Append(sends, [text |-> c.text, undone |-> FALSE])
  BY DEF Leaves, NoneOpen, NoBox, Open, table, Enders
<1>1. Mailed \subseteq Mailed'
  <2>1. PICK n \in Nat : /\ DOMAIN sends' = DOMAIN sends \cup {n} /\ n \notin DOMAIN sends
                         /\ sends'[n] = [text |-> c.text, undone |-> FALSE] /\ \A i \in DOMAIN sends : sends'[i] = sends[i]
    <3>1. sends \in Seq(Messages(latest)) /\ c \in slow /\ slow \subseteq Errands(latest, lastRow)
      BY <1>0, Held0 DEF Sendings
    <3>2. [text |-> c.text, undone |-> FALSE] \in Messages(latest)
      BY <3>1 DEF Messages, Errands
    <3>3. PICK n \in Nat : n = Len(sends) + 1
      BY <3>1
    <3> QED
      BY <1>0, <3>1, <3>2, <3>3
  <2>2. Unundone' = Unundone \cup {n} /\ sends'[n].text = c.text /\ \A i \in Unundone : sends'[i] = sends[i]
    BY <2>1 DEF Unundone
  <2>3. SentTexts' = SentTexts \cup {c.text}
    BY <2>2 DEF SentTexts
  <2> QED
    BY <1>0, <2>3 DEF Mailed
<1>2. \A t : Safe(t) => Safe(t)'
  <2>1. \A q \in DOMAIN rows : Touched(q)' => Touched(q)
    BY <1>0, TouchedThen
  <2> QED
    BY <1>0, <1>1, <2>1, StaysSafe
<1>3. \A t \in owed : Safe(t)' \/ \E w \in Enders : w.keep /\ t = Text(w.d)
  <2>1. Open /\ Text(compose) \in owed => Safe(Text(compose))
    BY <1>0 DEF Found, PostedSafe
  <2> QED
    BY <1>2, <2>1 DEF Found, Accounted
<1>4. Accounted'
  BY <1>0, <1>3 DEF Accounted, Text
<1>5. EndsInTable'
  BY <1>0, <1>2 DEF Found, EndsInTable, Text
<1> QED
  BY <1>0, <1>4, <1>5, NoBoxFound

(* A send that is refused, without a slip, was of the open box, which has  *)
(* no row.                                                                 *)
LEMMA RefusesFound ==
  ASSUME TypeOK, Boxed, Found, NEW c, Refuses(c), "refused" \notin slips'
  PROVE  Found'
<1>0. /\ c \in Sendings /\ c.row = 0 /\ slow = {c} /\ slow' = {} /\ c.text = Text(compose)
      /\ Mail' = Mail /\ Enders' = Enders /\ compose' = compose /\ autoRow' = autoRow /\ saved' = saved
      /\ rows' = rows /\ sends' = sends /\ owed' = owed
  BY DEF Refuses, Mail, MailOf, Enders, table, box
<1>1. Open
  <2>1. c.text \in TextOf(latest) /\ latest \in Seq(Nat)
    BY <1>0, Held0 DEF Sendings, Errands
  <2>2. c.text.letter \in DOMAIN latest
    BY <2>1, TextIs
  <2>3. c.text.letter # 0
    BY <2>1, <2>2
  <2> QED
    BY <1>0, <2>3 DEF Open, Text
<1>2. /\ Open' /\ RowOf(compose)' = RowOf(compose) /\ Saves' = Saves /\ Strips' = Strips /\ Sendings' = {}
      /\ Text(compose)' = Text(compose) /\ (Saving' <=> Saving)
  BY <1>0, <1>1, MailSame, Seen, SeenNext DEF Open, RowOf, Text, Sendings
<1>3. \A q : InBox(q)' <=> InBox(q)
  BY <1>0, <1>2 DEF InBox
<1>4. \A q \in DOMAIN rows : Touched(q)' => Touched(q)
  BY <1>0, <1>1, <1>3, TouchedThen
<1>5. Mailed \subseteq Mailed' \cup {Text(compose)}
  <2>1. SentTexts' = SentTexts
    BY <1>0, SentSame DEF Unundone
  <2> QED
    BY <1>0, <2>1 DEF Mailed
<1>6. \A t : Safe(t) => Safe(t)' \/ t = Text(compose)
  BY <1>0, <1>4, <1>5 DEF Safe
<1>7. EndOf(compose)
  BY <1>1 DEF EndOf
<1>8. OnePerLetter' /\ SameEnds' /\ Dropped' /\ PostedSafe' /\ SavesNews'
  BY <1>0, <1>1, <1>2 DEF Found, OnePerLetter, SameEnds, Dropped, PostedSafe, SavesNews, Text
<1>9. Accounted'
  <2>1. \A t \in owed : Safe(t)' \/ t = Text(compose)
    BY <1>6, <1>7, EndIs
  <2> QED
    BY <1>0, <1>2, <2>1 DEF Accounted
<1>10. \A r : InBox(r) => r \in DOMAIN rows
  <2>1. \A e \in Sendings : e = c
    BY <1>0 DEF Sendings
  <2> QED
    BY <1>0, <1>1, <2>1 DEF Found, BoxInTable, InBox
<1>11. BoxInTable'
  BY <1>0, <1>3, <1>10 DEF BoxInTable
<1>12. EndsInTable'
  <2> SUFFICES ASSUME NEW w \in Enders, w.d.row # 0 PROVE w.d.row \in DOMAIN rows
    BY <1>0 DEF EndsInTable, Text
  <2>1. w.d.row = compose.row
    BY <1>1 DEF Boxed
  <2>2. InBox(compose.row)
    BY <2>1 DEF InBox, RowOf, Or
  <2> QED
    BY <1>10, <2>1, <2>2
<1> QED
  BY <1>8, <1>9, <1>11, <1>12 DEF Found

(* An undo keeps the text in a row and on its way back to the box. *)
LEMMA ReturnsFound ==
  ASSUME TypeOK, Boxed, Found, NEW i, Returns(i)
  PROVE  Found'
<1> DEFINE x == sends[i].text
           u == [kind |-> "undo", text |-> sends[i].text, row |-> lastRow']
           e == List(rows')
<1>0. /\ i \in DOMAIN sends /\ sends' = [sends EXCEPT ![i].undone = TRUE] /\ SaveDraft(0, x)
      /\ u.kind = "undo" /\ u.text = x /\ slow' = slow \cup {u} /\ e.kind = "list" /\ Mail' = Mail \cup {e}
  BY DEF Returns, List
<1>1. sends \in Seq(Messages(latest)) /\ lastRow \in Nat
  BY Held0
<1> HIDE DEF u, e
<1>2. /\ compose' = compose /\ autoRow' = autoRow /\ saved' = saved /\ Enders' = Enders /\ Sendings' = Sendings
      /\ owed' = owed
  BY <1>0 DEF Returns, box, Enders, Sendings
<1>3. Mailed \subseteq Mailed'
  <2>1. sends[i] \in Messages(latest)
    BY <1>0, <1>1
  <2>2. \A j \in DOMAIN sends : j # i => sends'[j] = sends[j]
    BY <1>0, <1>1
  <2>3. DOMAIN sends' = DOMAIN sends
    BY <1>0
  <2>4. SentTexts \subseteq SentTexts' \cup {x}
    <3> SUFFICES ASSUME NEW j \in Unundone, j # i PROVE sends[j].text \in SentTexts'
      BY DEF SentTexts
    <3>1. j \in Unundone' /\ sends'[j].text = sends[j].text
      BY <2>2, <2>3 DEF Unundone
    <3> QED
      BY <3>1 DEF SentTexts
  <2>5. x \in Mailed'
    BY <1>0 DEF Mailed
  <2> QED
    BY <1>0, <2>4, <2>5 DEF Mailed
<1>4. \A q \in DOMAIN rows : q \in DOMAIN rows' /\ rows'[q] = rows[q]
  <2>1. 0 \in 0 .. lastRow
    BY <1>1
  <2> QED
    BY <1>0, <2>1, SaveIs
<1>5. /\ Open' = Open /\ RowOf(compose)' = RowOf(compose) /\ Saves' = Saves /\ Strips' = Strips
      /\ Text(compose)' = Text(compose) /\ (Saving' <=> Saving)
  <2>1. Saves' = Saves /\ Strips' = Strips
    BY <1>0, MailAdds
  <2> QED
    BY <1>2, <2>1, Seen, SeenNext DEF Open, RowOf, Text
<1>6. \A q : InBox(q)' <=> InBox(q)
  BY <1>2, <1>5 DEF InBox
<1>7. \A t : Safe(t) => Safe(t)'
  <2>1. \A q \in DOMAIN rows : Touched(q)' => Touched(q)
    BY <1>2, <1>5, <1>6, TouchedThen
  <2> QED
    BY <1>3, <1>4, <2>1, StaysSafe
<1>8. SavesNews'
  BY <1>2, <1>5 DEF Found, SavesNews
<1> QED
  BY <1>2, <1>4, <1>5, <1>6, <1>7, <1>8, Carry

(* A row that goes, and not under the box, is owed no more. *)
LEMMA GoesFound ==
  ASSUME TypeOK, Boxed, Found, NEW r, Goes(r), "gone" \notin slips'
  PROVE  Found'
<1> DEFINE e == Call("delete", NoText, r)
<1>0. /\ Mail' = Mail \cup {e} /\ e.kind = "delete" /\ Enders' = Enders /\ ~Held(r) /\ DeleteRow(r)
      /\ owed' = owed \ {rows[r]} /\ compose' = compose /\ autoRow' = autoRow /\ saved' = saved /\ r \in DOMAIN rows
  BY DEF Goes, Call, Enders, box
<1> HIDE DEF e
<1>1. Sendings' = Sendings /\ Mailed' = Mailed
  BY MailedSame DEF Goes, Sendings
<1>2. /\ Open' = Open /\ RowOf(compose)' = RowOf(compose) /\ Saves' = Saves /\ Strips' = Strips
      /\ Text(compose)' = Text(compose) /\ (Saving' <=> Saving)
  <2>1. Saves' = Saves /\ Strips' = Strips
    BY <1>0, MailAdds
  <2> QED
    BY <1>0, <2>1, Seen, SeenNext DEF Open, RowOf, Text
<1>3. \A q : InBox(q)' <=> InBox(q)
  BY <1>0, <1>2 DEF InBox
<1>4. \A q : Touched(q)' <=> Touched(q)
  BY <1>0, <1>2, <1>3 DEF Touched
<1>5. \A q \in DOMAIN rows : q # r => q \in DOMAIN rows' /\ rows'[q] = rows[q]
  BY <1>0, DeleteIs
<1>6. \A t \in owed' : Safe(t) => Safe(t)'
  <2> SUFFICES ASSUME NEW t \in owed', NEW q \in DOMAIN rows, ~Touched(q), rows[q] = t PROVE Safe(t)'
    BY <1>1 DEF Safe
  <2>1. q # r
    BY <1>0
  <2> QED
    BY <1>4, <1>5, <2>1 DEF Safe
<1>7. OnePerLetter' /\ SameEnds' /\ Dropped' /\ SavesNews'
  BY <1>0, <1>2 DEF Found, OnePerLetter, SameEnds, Dropped, SavesNews, Text
<1>8. Accounted'
  <2>1. \A t \in owed' : Safe(t)' \/ (Open /\ t = Text(compose)) \/ \E w \in Enders : w.keep /\ t = Text(w.d)
    BY <1>0, <1>6 DEF Found, Accounted
  <2> QED
    BY <1>0, <1>2, <2>1 DEF Accounted
<1>9. PostedSafe'
  <2>1. Open /\ Sendings # {} /\ Text(compose) \in owed => Safe(Text(compose))
    BY DEF Found, PostedSafe
  <2>2. PICK x : x = Text(compose)
    OBVIOUS
  <2>3. Open' /\ Sendings' # {} /\ x \in owed' => Safe(x)'
    BY <1>0, <1>1, <1>2, <1>6, <2>1, <2>2
  <2> QED
    BY <1>2, <2>2, <2>3 DEF PostedSafe
<1>10. BoxInTable'
  <2> SUFFICES ASSUME Open, NEW q, InBox(q) PROVE q \in DOMAIN rows' \/ \E c \in Sendings : c.row = q
    BY <1>1, <1>2, <1>3 DEF BoxInTable
  <2>1. q \in DOMAIN rows \/ \E c \in Sendings : c.row = q
    BY DEF Found, BoxInTable
  <2>2. Open /\ InBox(r) => Held(r)
    BY DEF InBox, Held, Saves, Strips, Mail, MailOf, Range
  <2>3. q # r
    BY <1>0, <2>2
  <2> QED
    BY <1>5, <2>1, <2>3
<1>11. EndsInTable'
  <2> SUFFICES ASSUME NEW w \in Enders, w.d.row # 0, Text(w.d) \in owed' PROVE w.d.row \in DOMAIN rows' \/ Safe(Text(w.d))'
    BY <1>0 DEF EndsInTable, Text
  <2>1. w.d.row # r
    BY <1>0 DEF Held, Enders, Range
  <2>2. w.d.row \in DOMAIN rows \/ Safe(Text(w.d))
    BY <1>0 DEF Found, EndsInTable
  <2> QED
    BY <1>5, <1>6, <2>1, <2>2
<1> QED
  BY <1>7, <1>8, <1>9, <1>10, <1>11 DEF Found

(* A text that takes the place of the others of its letter. *)
LEMMA InsteadIs ==
  ASSUME NEW t
  PROVE  /\ \A s \in Instead(t) : s = t \/ (s \in owed /\ s.letter # t.letter)
         /\ OnePerLetter => \A s, x \in Instead(t) : s.letter = x.letter => s = x
BY DEF Instead, OnePerLetter

(* Without anyone who ends the box, and no send on its way, what was found *)
(* is less.                                                                *)
LEMMA FoundIs ==
  ASSUME OnePerLetter', Enders' = {}, Sendings' = {},
         \A t \in owed' : Safe(t)' \/ (Open' /\ t = Text(compose)'),
         Open' => \A r : InBox(r)' => r \in DOMAIN rows',
         SavesNews'
  PROVE  Found'
<1>1. SameEnds' /\ Dropped' /\ EndsInTable' /\ PostedSafe' /\ BoxInTable'
  BY DEF SameEnds, Dropped, EndsInTable, PostedSafe, BoxInTable
<1>2. Accounted'
  BY DEF Accounted, Text
<1> QED
  BY <1>1, <1>2 DEF Found

(* A key that is no slip puts the new text in the place of the old. *)
LEMMA TypeFound ==
  ASSUME TypeOK, Boxed, Found, Type, "typed" \notin slips'
  PROVE  Found'
<1>0. compose \in LetterBox(latest, lastRow) /\ Open /\ compose.letter \in DOMAIN latest
  BY Held0, LetterIsOld DEF Type
<1>1. compose'.letter = compose.letter /\ compose'.row = compose.row /\ compose'.version = latest[compose.letter] + 1
  BY <1>0, Held0 DEF Type, LetterBox, NewVersion
<1>2. PICK x : x = Text(compose)' /\ x = [letter |-> compose.letter, version |-> latest[compose.letter] + 1]
  BY <1>1 DEF Text
<1>3. /\ Mail' = Mail /\ Enders' = Enders /\ slow' = slow /\ autoRow' = autoRow /\ rows' = rows /\ sends' = sends
      /\ saved' = saved /\ Sendings' = Sendings /\ owed' = Instead(x)
  BY <1>2 DEF Type, lines, table, Mail, MailOf, Enders, Sendings, Text
<1>4. Enders = {} /\ Sendings = {}
  <2>1. Slip(When(Ending, "typed"))
    BY DEF Type
  <2>2. When(Ending, "typed") \subseteq slips'
    BY <2>1, SlipIs
  <2> QED
    BY <2>2, Seen DEF When
<1>5. Mailed' = Mailed /\ Saves' = Saves /\ Strips' = Strips /\ Open' /\ RowOf(compose)' = RowOf(compose)
  BY <1>0, <1>1, <1>3, MailSame, MailedSame DEF Open, RowOf
<1>6. \A q : InBox(q)' <=> InBox(q)
  BY <1>3, <1>5 DEF InBox
<1>7. \A q \in DOMAIN rows : Touched(q)' => Touched(q)
  BY <1>0, <1>3, <1>6, TouchedThen
<1>8. \A t : Safe(t) => Safe(t)'
  BY <1>3, <1>5, <1>7, StaysSafe
<1>9. OnePerLetter'
  BY <1>3, InsteadIs DEF Found, OnePerLetter
<1>10. \A t \in owed' : Safe(t)' \/ (Open' /\ t = Text(compose)')
  <2> SUFFICES ASSUME NEW t \in owed, t.letter # x.letter PROVE Safe(t)'
    BY <1>2, <1>3, <1>5, InsteadIs
  <2>1. t # Text(compose)
    BY <1>2 DEF Text
  <2>2. Safe(t)
    BY <1>4, <2>1 DEF Found, Accounted
  <2> QED
    BY <1>8, <2>2
<1>11. \A r : InBox(r)' => r \in DOMAIN rows'
  BY <1>0, <1>3, <1>4, <1>6 DEF Found, BoxInTable
<1>12. SavesNews'
  <2>1. saved.text \in TextOf(latest) \cup {NoText} /\ latest \in Seq(Nat)
    BY Held0 DEF Typed
  <2>2. latest[compose.letter] \in Nat
    BY <1>0, <2>1
  <2>3. saved.text # x
    <3>1. x.letter = compose.letter /\ x.version = latest[compose.letter] + 1
      BY <1>2
    <3>2. CASE saved.text = NoText
      <4>1. x.version # 0
        BY <2>2, <3>1
      <4> QED
        BY <3>2, <4>1 DEF NoText
    <3>3. CASE saved.text \in TextOf(latest)
      <4>1. saved.text.version \in Nat /\ saved.text.version <= latest[saved.text.letter]
        BY <2>1, <3>3, TextIs
      <4>2. ~(x.version <= latest[x.letter])
        BY <2>2, <3>1
      <4> QED
        BY <4>1, <4>2
    <3> QED
      BY <2>1, <3>2, <3>3
  <2> QED
    BY <1>2, <1>3, <2>3 DEF SavesNews
<1> QED
  BY <1>3, <1>4, <1>9, <1>10, <1>11, <1>12, FoundIs

(* Gmail's version of a row takes the place of the text only where no box  *)
(* holds the row.                                                          *)
LEMMA EditsFound ==
  ASSUME TypeOK, Boxed, Found, NEW r \in DOMAIN rows, Edits(r)
  PROVE  Found'
<1>0. rows[r].letter \in DOMAIN latest /\ latest \in Seq(Nat)
  BY LetterIsOld, Held0
<1>a. PICK x : x = [letter |-> rows[r].letter, version |-> latest[rows[r].letter] + 1]
  OBVIOUS
<1> DEFINE e == List(rows')
<1>1. /\ rows' = [rows EXCEPT ![r] = x] /\ owed' = IF rows[r] \in owed /\ ~Held(r) THEN Instead(x) ELSE owed
      /\ Mail' = Mail \cup {e} /\ e.kind = "list"
  <2>1. latest'[rows[r].letter] = latest[rows[r].letter] + 1
    BY <1>0 DEF Edits, NewVersion
  <2> QED
    BY <1>a, <2>1 DEF Edits, List
<1>2. x.letter = rows[r].letter /\ x \notin owed /\ ~(Open /\ x = Text(compose))
  <2>1. latest[rows[r].letter] \in Nat
    BY <1>0
  <2>2. x.letter = rows[r].letter /\ ~(x.version <= latest[x.letter])
    BY <1>a, <2>1
  <2>3. x \notin owed
    BY <2>2, OwedIs
  <2>4. Open => Text(compose).version <= latest[Text(compose).letter]
    <3>1. Open => compose \in LetterBox(latest, lastRow) /\ lastRow \in Nat
      BY Held0
    <3> QED
      BY <1>0, <3>1, TextIs
  <2> QED
    BY <2>2, <2>3, <2>4
<1> HIDE DEF e
<1>3. /\ compose' = compose /\ autoRow' = autoRow /\ saved' = saved /\ ~Saving /\ waiting = <<>> /\ waiting' = <<>>
      /\ Sendings' = Sendings /\ Mailed' = Mailed
  BY MailedSame DEF Edits, box, Sendings
<1>4. Enders = {} /\ Enders' = {}
  BY <1>3 DEF Enders, Range
<1>5. /\ Open' = Open /\ RowOf(compose)' = RowOf(compose) /\ Saves' = Saves /\ Strips' = Strips
      /\ Text(compose)' = Text(compose) /\ (Saving' <=> Saving)
  <2>1. Saves' = Saves /\ Strips' = Strips
    BY <1>1, MailAdds
  <2> QED
    BY <1>3, <2>1, Seen, SeenNext DEF Open, RowOf, Text
<1>6. \A q : InBox(q)' <=> InBox(q)
  BY <1>3, <1>5 DEF InBox
<1>7. \A q : Touched(q)' <=> Touched(q)
  BY <1>4, <1>5, <1>6 DEF Touched
<1>8. \A q \in DOMAIN rows : q \in DOMAIN rows' /\ (q # r => rows'[q] = rows[q])
  BY <1>1
<1>9. ~Touched(r) => ~Held(r)
  <2>1. Saves = {} /\ r # 0
    BY <1>3, Held0, RowIs, Seen
  <2>2. ASSUME Held(r) PROVE Touched(r)
    <3>1. CASE Open /\ RowOf(compose) = r
      BY <2>1, <3>1 DEF Touched, InBox
    <3>2. CASE \E i \in DOMAIN waiting : waiting[i].d.row = r
      BY <1>3, <3>2
    <3>3. CASE Open /\ \E i \in DOMAIN calls : calls[i].kind \in {"autosave", "strip"} /\ calls[i].row = r
      <4>1. PICK c \in Mail : c.kind \in {"autosave", "strip"} /\ c.row = r
        BY <3>3 DEF Mail, MailOf, Range
      <4> QED
        BY <2>1, <3>3, <4>1 DEF Touched, InBox, Saves, Strips
    <3> QED
      BY <2>2, <3>1, <3>2, <3>3 DEF Held
  <2> QED
    BY <2>2
<1>10. \A t \in owed' : t = x \/ t \in owed
  BY <1>1, InsteadIs
<1>11. \A t \in owed' \cap owed : Safe(t) => Safe(t)'
  <2> SUFFICES ASSUME NEW t \in owed', t \in owed, NEW q \in DOMAIN rows, ~Touched(q), rows[q] = t PROVE Safe(t)'
    BY <1>3 DEF Safe
  <2>1. q # r
    <3> SUFFICES ASSUME q = r PROVE FALSE
      OBVIOUS
    <3>0. t = rows[r] /\ ~Touched(r) /\ t \in owed /\ t \in owed'
      OBVIOUS
    <3>1. owed' = Instead(x)
      BY <1>1, <1>9, <3>0
    <3>2. t = x \/ t.letter # x.letter
      BY <3>0, <3>1, InsteadIs
    <3>3. t # x
      BY <1>2, <3>0
    <3>4. t.letter = x.letter
      BY <1>2, <3>0
    <3> QED
      BY <3>2, <3>3, <3>4
  <2> QED
    BY <1>7, <1>8, <2>1 DEF Safe
<1>12. x \in owed' => Safe(x)'
  <2> SUFFICES ASSUME x \in owed' PROVE Safe(x)'
    OBVIOUS
  <2>1. ~Held(r) /\ rows[r] \in owed
    BY <1>1, <1>2
  <2>2. ~Touched(r)
    <3> SUFFICES ASSUME Touched(r) PROVE FALSE
      OBVIOUS
    <3>1. Open /\ InBox(r)
      BY <1>4 DEF Touched
    <3>2. Held(r)
      BY <3>1 DEF InBox, Held, Saves, Strips, Mail, MailOf, Range
    <3> QED
      BY <2>1, <3>2
  <2>3. rows'[r] = x /\ r \in DOMAIN rows'
    BY <1>1
  <2> QED
    BY <1>7, <2>2, <2>3 DEF Safe
<1>13. OnePerLetter'
  BY <1>1, InsteadIs DEF Found, OnePerLetter
<1>14. Accounted'
  <2>1. \A t \in owed' : Safe(t)' \/ (Open /\ t = Text(compose))
    BY <1>4, <1>10, <1>11, <1>12 DEF Found, Accounted
  <2> QED
    BY <1>5, <2>1 DEF Accounted
<1>15. PostedSafe'
  <2>1. Open /\ Sendings # {} /\ Text(compose) \in owed => Safe(Text(compose))
    BY DEF Found, PostedSafe
  <2>2. PICK y : y = Text(compose)
    OBVIOUS
  <2>3. Open' /\ Sendings' # {} /\ y \in owed' => Safe(y)'
    BY <1>2, <1>3, <1>5, <1>10, <1>11, <2>1, <2>2
  <2> QED
    BY <1>5, <2>2, <2>3 DEF PostedSafe
<1>16. BoxInTable'
  BY <1>3, <1>5, <1>6, <1>8 DEF Found, BoxInTable
<1>17. SameEnds' /\ EndsInTable' /\ Dropped' /\ SavesNews'
  BY <1>3, <1>4, <1>5 DEF SameEnds, EndsInTable, Dropped, SavesNews
<1> QED
  BY <1>13, <1>14, <1>15, <1>16, <1>17 DEF Found

(* A box that is replaced, and was written in, is saved. *)
LEMMA ParksFound ==
  ASSUME TypeOK, Boxed, Found, Parks, Enders = {}, Sendings = {}, "over" \notin slips'
  PROVE  /\ \A t \in owed : t \in Mailed \/ \E q \in DOMAIN rows' : rows'[q] = t
         /\ \A q \in DOMAIN rows : q # RowOf(compose) => q \in DOMAIN rows' /\ rows'[q] = rows[q]
<1>0. \A t \in owed : \/ t \in Mailed
                      \/ \E q \in DOMAIN rows : ~Touched(q) /\ rows[q] = t
                      \/ Open /\ t = Text(compose)
  BY DEF Found, Accounted, Safe
<1>1. CASE UNCHANGED table /\ (Open => Docked /\ (Written(compose) => "over" \in slips'))
  <2>1. rows' = rows
    BY <1>1 DEF table
  <2>2. ASSUME Open PROVE Text(compose) \notin owed
    <3>1. ~Written(compose) /\ compose \in LetterBox(latest, lastRow)
      BY <1>1, <2>2, Held0
    <3> QED
      BY <3>1, OwedIs
  <2> QED
    BY <1>0, <2>1, <2>2
<1>2. CASE Open /\ compose \in LetterBox(latest, lastRow) /\ KeepRow(compose, TRUE)
  <2> DEFINE r == RowOf(compose)
  <2>0. EndOf(compose)
    BY <1>2 DEF EndOf
  <2>1. r \in 0 .. lastRow /\ (r # 0 => Touched(r)) /\ 0 \notin DOMAIN rows
    BY <2>0, EndIs, Held0, RowIs
  <2>2. \A q \in DOMAIN rows : ~Touched(q) => q # r
    BY <2>1
  <2>3. CASE Written(compose) /\ SaveDraft(r, Text(compose))
    <3>1. /\ \A q \in DOMAIN rows : q \in DOMAIN rows' /\ (q # r => rows'[q] = rows[q])
          /\ r = 0 => lastRow + 1 \in DOMAIN rows' /\ rows'[lastRow + 1] = Text(compose)
          /\ r \in DOMAIN rows => rows'[r] = Text(compose)
      BY <2>1, <2>3, SaveIs
    <3>2. r = 0 \/ r \in DOMAIN rows
      BY <1>2 DEF Found, BoxInTable, InBox
    <3>3. \E q \in DOMAIN rows' : rows'[q] = Text(compose)
      BY <3>1, <3>2
    <3>4. \A t \in owed : t \in Mailed \/ \E q \in DOMAIN rows' : rows'[q] = t
      BY <1>0, <2>2, <3>1, <3>3
    <3> QED
      BY <3>1, <3>4
  <2>4. CASE ~Written(compose) /\ DeleteRow(r)
    <3>1. \A q \in DOMAIN rows : q # r => q \in DOMAIN rows' /\ rows'[q] = rows[q]
      BY <2>4, DeleteIs
    <3>2. Text(compose) \notin owed
      BY <1>2, <2>4, OwedIs
    <3>3. \A t \in owed : t \in Mailed \/ \E q \in DOMAIN rows' : rows'[q] = t
      BY <1>0, <2>2, <3>1, <3>2
    <3> QED
      BY <3>1, <3>3
  <2> QED
    BY <1>2, <2>3, <2>4 DEF KeepRow
<1> QED
  BY <1>1, <1>2 DEF Parks

(* A new box loses no text. *)
LEMMA StartsFound ==
  ASSUME TypeOK, Boxed, Found, NEW place, Starts(place), "over" \notin slips'
  PROVE  Found'
<1>1. Saves = {} /\ Strips = {} /\ Enders = {} /\ Sendings = {} /\ Parks
  BY Seen DEF Starts
<1>2. Saves' = {} /\ Strips' = {} /\ Enders' = {} /\ Sendings' = {} /\ Mailed' = Mailed /\ owed' = owed
  BY <1>1, ParksMail, MailedSame DEF Enders, Sendings, Starts, Range
<1>3. compose'.row = 0 /\ autoRow' = 0
  BY DEF Starts, SetBox, NoBox
<1>4. \A q : ~InBox(q)'
  BY <1>2, <1>3 DEF InBox, RowOf, Or
<1>5. \A q : ~Touched(q)'
  BY <1>2, <1>4 DEF Touched
<1>6. \A t \in owed' : Safe(t)'
  BY <1>1, <1>2, <1>5, ParksFound DEF Safe
<1>7. OnePerLetter' /\ SavesNews'
  BY <1>2, SeenNext DEF Found, OnePerLetter, SavesNews
<1> QED
  BY <1>2, <1>4, <1>6, <1>7, FoundIs

(* Nor does a draft that is opened. *)
LEMMA ReopensFound ==
  ASSUME TypeOK, Boxed, Found, NEW t, NEW r, Reopens(t, r), "over" \notin slips', "stale" \notin slips'
  PROVE  Found'
<1>1. Saves = {} /\ Strips = {} /\ Enders = {} /\ Sendings = {} /\ Parks
  BY Seen DEF Reopens
<1>2. Saves' = {} /\ Strips' = {} /\ Enders' = {} /\ Sendings' = {} /\ owed' = owed /\ sends' = sends
  BY <1>1, ParksMail DEF Enders, Reopens, Range
<1>3. autoRow' = 0 /\ compose'.row = r /\ compose'.letter = t.letter /\ compose'.version = t.version /\ t \in TextOf(latest)
  BY DEF Reopens, SetBox
<1>4. r \in DOMAIN rows /\ rows[r] = t /\ RowOf(compose) # r /\ r # 0
  <2>1. DraftSlips(t, r) \subseteq slips'
    BY DEF Reopens
  <2>2. r \in DOMAIN rows /\ rows[r] = t /\ RowOf(compose) # r
    BY <2>1 DEF DraftSlips, When
  <2> QED
    BY <2>2, Held0, RowIs
<1>5. Text(compose)' = t /\ Open'
  <2>1. t.letter \in DOMAIN latest /\ latest \in Seq(Nat)
    BY <1>3, Held0, TextIs
  <2>2. t.letter # 0
    BY <2>1
  <2> QED
    BY <1>3, <2>2 DEF Text, TextOf, Open
<1>6. \A q : InBox(q)' <=> q = r
  BY <1>2, <1>3, <1>4 DEF InBox, RowOf, Or
<1>7. \A q : Touched(q)' => q = r
  BY <1>2, <1>6 DEF Touched
<1>8. Mailed \subseteq Mailed' \cup {t}
  <2>1. SentTexts' = SentTexts
    BY <1>2, SentSame DEF Unundone
  <2>2. slow' = slow \/ \E c \in slow : slow' = slow \ {c} /\ c.text = t
    BY DEF Reopens
  <2> QED
    BY <2>1, <2>2 DEF Mailed
<1>9. /\ \A s \in owed : s \in Mailed \/ \E q \in DOMAIN rows' : rows'[q] = s
      /\ r \in DOMAIN rows' /\ rows'[r] = t
  BY <1>1, <1>4, ParksFound
<1>10. \A s \in owed' : Safe(s)' \/ s = t
  BY <1>2, <1>7, <1>8, <1>9 DEF Safe
<1>11. OnePerLetter' /\ SavesNews'
  BY <1>2, SeenNext DEF Found, OnePerLetter, SavesNews
<1> QED
  BY <1>2, <1>5, <1>6, <1>9, <1>10, <1>11, FoundIs

(* An answer to a save leaves the box what it was; Gmail's version is      *)
(* taken over only where the box has nothing that is not saved.            *)
LEMMA HearsFound ==
  ASSUME TypeOK, Boxed, Found, NEW L, Names(L),
         NEW c \in Calls(latest, lastRow), NEW M \in SUBSET Calls(latest, lastRow), Hears(c, M), "adopted" \notin slips'
  PROVE  Found'
<1>0. /\ Mail = M \cup {c} /\ Quiet
      /\ UNCHANGED <<waiting, slow, rows, sends>>
  BY DEF Hears, table
<1>1. Enders' = Enders /\ Sendings' = Sendings /\ rows' = rows /\ sends' = sends /\ Mailed' = Mailed
  BY <1>0, MailedSame DEF Enders, Sendings
<1>2. ASSUME \A r : Open' /\ InBox(r)' => InBox(r), Open' => Open PROVE \A t : Safe(t) => Safe(t)'
  <2>1. \A q \in DOMAIN rows : Touched(q)' => Touched(q)
    BY <1>1, <1>2, TouchedThen
  <2> QED
    BY <1>1, <2>1, StaysSafe
<1>3. CASE c.kind \in {"autosave", "strip"}
  <2>1. /\ c \in Saves \cup Strips /\ Mail' = M \cup {List(rows)} /\ owed' = owed
        /\ (c.kind = "autosave" => c \in Saves) /\ (c.kind = "strip" => c \in Strips)
    <3>1. c \in Saves \cup Strips /\ Mail' = M \cup {List(rows)}
      BY <1>3, HeardIs
    <3>2. owed' = owed
      BY <1>3 DEF Hears
    <3> QED
      BY <3>1, <3>2 DEF Saves, Strips
  <2>2. /\ Open => Text(compose)' = Text(compose)
        /\ Open' => Open
        /\ \A r : Open => (InBox(r)' <=> InBox(r))
    BY <1>3, HeardIs
  <2>3. ~Open => compose' = compose
    BY <1>3 DEF Hears
  <2>4. (Open' <=> Open) /\ Text(compose)' = Text(compose)
    <3>1. Text(compose)' = Text(compose)
      BY <2>2, <2>3 DEF Text
    <3> QED
      BY <2>2, <3>1 DEF Open, Text
  <2>5. \A t : Safe(t) => Safe(t)'
    BY <1>2, <2>2
  <2>6. Open => Saves' = {}
    <3>1. Saves' \subseteq {e \in M : e.kind = "autosave"}
      BY <2>1, HeardMail
    <3>2. CASE c.kind = "autosave"
      <4>1. \A e \in M : e.kind # "autosave"
        BY <2>1, <3>2 DEF Hears
      <4> QED
        BY <3>1, <4>1
    <3>3. CASE c.kind = "strip"
      <4>1. Open => Saves = {}
        BY <2>1, <3>3 DEF Boxed
      <4>2. M \subseteq Mail
        BY <1>0
      <4> QED
        BY <3>1, <4>1, <4>2 DEF Saves
    <3> QED
      BY <1>3, <3>2, <3>3
  <2>7. SavesNews'
    BY <2>2, <2>6, SeenNext DEF SavesNews
  <2> QED
    BY <1>1, <2>1, <2>2, <2>4, <2>5, <2>7, Carry
<1>4. CASE c.kind \in {"keep", "delete"} \/ (c.kind = "list" /\ ~ChangedElsewhere(c.list))
  <2>1. compose' = compose /\ autoRow' = autoRow /\ saved' = saved /\ owed' = owed /\ Mail' \in {M, M \cup {List(rows)}}
    BY <1>4 DEF Hears
  <2>2. Saves' = Saves /\ Strips' = Strips
    <3>1. /\ Saves = {e \in M \cup {c} : e.kind = "autosave"} /\ Strips = {e \in M \cup {c} : e.kind = "strip"}
          /\ Saves' = {e \in M : e.kind = "autosave"} /\ Strips' = {e \in M : e.kind = "strip"}
      BY <2>1, HeardMail
    <3> QED
      BY <1>4, <3>1
  <2>3. (Open' <=> Open) /\ Text(compose)' = Text(compose) /\ RowOf(compose)' = RowOf(compose) /\ \A r : InBox(r)' <=> InBox(r)
    BY <2>1, <2>2 DEF Open, Text, RowOf, InBox
  <2>4. \A t : Safe(t) => Safe(t)'
    BY <1>2, <2>3
  <2>5. SavesNews'
    BY <2>1, <2>2, <2>3, Seen, SeenNext DEF Found, SavesNews
  <2> QED
    BY <1>1, <2>1, <2>3, <2>4, <2>5, Carry
<1>5. CASE c.kind = "list" /\ ChangedElsewhere(c.list)
  <2>1. PICK t : /\ t = c.list[RowOf(compose)] /\ Open /\ RowOf(compose) # 0 /\ RowOf(compose) \in DOMAIN c.list
                 /\ saved.row = RowOf(compose) /\ t # Text(compose)
    BY <1>5 DEF ChangedElsewhere
  <2>2. /\ compose' = [compose EXCEPT !.letter = t.letter, !.version = t.version] /\ autoRow' = autoRow /\ Mail' = M
        /\ owed' = (IF Text(compose) = saved.text /\ ~Ending THEN Instead(t) ELSE owed)
        /\ (Text(compose) # saved.text => "adopted" \in slips')
    BY <1>5, <2>1 DEF Hears
  <2>3. Text(compose) = saved.text
    BY <2>2
  <2>4. ~Saving /\ Enders = {}
    <3>1. ~Saving
      BY <2>1, <2>3 DEF Found, SavesNews
    <3>2. waiting = <<>>
      BY <1>0, <3>1 DEF Quiet
    <3> QED
      BY <3>1, <3>2 DEF Enders, Range
  <2>5. t \in TextOf(latest) /\ t.letter = compose.letter
    <3>1. t \in TextOf(latest)
      BY <1>5, <2>1, Held0, RowIs DEF Calls
    <3>2. L[RowOf(compose)] = t.letter
      BY <1>0, <1>5, <2>1 DEF Names, MailFits, TableFits
    <3>3. L[RowOf(compose)] = compose.letter
      BY <2>1 DEF Names, Fits, RowOf, Or
    <3> QED
      BY <3>1, <3>2, <3>3
  <2>6. Text(compose)' = t /\ RowOf(compose)' = RowOf(compose) /\ Open'
    <3>1. compose'.letter = t.letter /\ compose'.version = t.version /\ compose'.row = compose.row
      BY <2>1, <2>2, Held0 DEF LetterBox
    <3>2. latest \in Seq(Nat) /\ t.letter # 0
      BY <2>1, <2>5, Held0 DEF Open
    <3> QED
      BY <2>2, <2>5, <3>1, <3>2, TextIs DEF Text, RowOf, TextOf, Open
  <2>7. Saves' = Saves /\ Strips' = Strips
    <3>1. /\ Saves = {e \in M \cup {c} : e.kind = "autosave"} /\ Strips = {e \in M \cup {c} : e.kind = "strip"}
          /\ Saves' = {e \in M : e.kind = "autosave"} /\ Strips' = {e \in M : e.kind = "strip"}
      BY <2>2, HeardMail
    <3> QED
      BY <1>5, <3>1
  <2>8. \A r : InBox(r)' <=> InBox(r)
    BY <2>6, <2>7 DEF InBox
  <2>9. \A s : Safe(s) => Safe(s)'
    BY <1>2, <2>1, <2>8
  <2>10. SavesNews' /\ SameEnds' /\ Dropped' /\ EndsInTable'
    BY <1>1, <2>4, <2>7, Seen, SeenNext DEF SavesNews, SameEnds, Dropped, EndsInTable
  <2>11. BoxInTable'
    BY <1>1, <2>1, <2>8 DEF Found, BoxInTable
  <2>12. CASE ~Ending
    <3>1. owed' = Instead(t) /\ Sendings = {}
      BY <2>2, <2>3, <2>12, Seen
    <3>2. \A s \in owed' : s = t \/ (s \in owed /\ s.letter # t.letter)
      BY <3>1, InsteadIs
    <3>3. OnePerLetter'
      BY <3>1, InsteadIs DEF Found, OnePerLetter
    <3>4. \A s \in owed : s.letter # t.letter => Safe(s)
      <4>1. \A s \in owed : Safe(s) \/ s = Text(compose)
        BY <2>4 DEF Found, Accounted
      <4>2. Text(compose).letter = t.letter
        BY <2>5 DEF Text
      <4> QED
        BY <4>1, <4>2
    <3>5. Accounted'
      BY <2>6, <2>9, <3>2, <3>4 DEF Accounted
    <3>6. PostedSafe'
      BY <1>1, <3>1 DEF PostedSafe
    <3> QED
      BY <2>10, <2>11, <3>3, <3>5, <3>6 DEF Found
  <2>13. CASE Ending
    <3>1. owed' = owed /\ Sendings # {}
      BY <2>2, <2>4, <2>13, Seen
    <3>2. \A s \in owed : Safe(s)
      <4>1. \A s \in owed : Safe(s) \/ s = Text(compose)
        BY <2>4 DEF Found, Accounted
      <4>2. Text(compose) \in owed => Safe(Text(compose))
        BY <2>1, <3>1 DEF Found, PostedSafe
      <4> QED
        BY <4>1, <4>2
    <3>3. \A s \in owed' : Safe(s)'
      BY <2>9, <3>1, <3>2
    <3>4. OnePerLetter' /\ Accounted'
      BY <3>1, <3>3 DEF Found, OnePerLetter, Accounted
    <3>5. PostedSafe'
      BY <2>6, <3>3 DEF PostedSafe
    <3> QED
      BY <2>10, <2>11, <3>4, <3>5 DEF Found
  <2> QED
    BY <2>12, <2>13
<1> QED
  BY <1>3, <1>4, <1>5 DEF Hears

(* Nothing is owed at first. *)
LEMMA InitFound == Init => Found
<1> SUFFICES ASSUME Init PROVE Found
  OBVIOUS
<1>1. owed = {} /\ ~Open /\ Enders = {}
  BY DEF Init, Open, NoBox, Enders, Range
<1> QED
  BY <1>1 DEF Found, OnePerLetter, SameEnds, Accounted, BoxInTable, EndsInTable, Dropped, PostedSafe, SavesNews

(* Every step keeps what is owed found. *)
LEMMA StepFound ==
  TypeOK /\ Base /\ (Plain => Found) /\ [Next]_vars => (Plain' => Found')
<1> SUFFICES ASSUME TypeOK, Base, Plain => Found, [Next]_vars, Plain' PROVE Found'
  OBVIOUS
<1>0. /\ Found /\ Boxed /\ Named
      /\ Calm' /\ "typed" \notin slips' /\ "over" \notin slips' /\ "stale" \notin slips' /\ "adopted" \notin slips'
      /\ "gone" \notin slips' /\ "refused" \notin slips'
  BY PlainBefore, PlainIs, CalmBefore DEF Base
<1>1. Kinds
  BY <1>0, Steps, StutterIdles DEF Kinds
<1>2. PICK L : Names(L)
  BY <1>0 DEF Named
<1>3. CASE \E w \in Waiters(latest, lastRow) : Waits(w)
  BY <1>0, <1>3, WaitsFound
<1>4. CASE \E d \in LetterBox(latest, lastRow), keep \in BOOLEAN : Closes(d, keep)
  BY <1>0, <1>4, ClosesFound
<1>5. CASE \E d \in LetterBox(latest, lastRow) : Collapses(d) \/ Posts(d)
  BY <1>0, <1>5, CollapsesFound, PostsFound
<1>6. CASE Idles \/ Writes \/ Type \/ \E place \in Places : Starts(place)
  BY <1>0, <1>6, IdlesFound, WritesFound, TypeFound, StartsFound
<1>7. CASE \E t \in TextOf(latest), r \in 0 .. lastRow : Reopens(t, r)
  BY <1>0, <1>7, ReopensFound
<1>8. CASE \E k \in slow : Leaves(k) \/ Refuses(k)
  BY <1>0, <1>8, LeavesFound, RefusesFound
<1>9. CASE \E i \in DOMAIN sends : Returns(i)
  BY <1>0, <1>9, ReturnsFound
<1>10. CASE \E c \in Calls(latest, lastRow), M \in SUBSET Calls(latest, lastRow) : Hears(c, M)
  BY <1>0, <1>2, <1>10, HearsFound
<1>11. CASE \E r \in DOMAIN rows : Edits(r) \/ Goes(r)
  BY <1>0, <1>11, EditsFound, GoesFound
<1> QED
  BY <1>1, <1>3, <1>4, <1>5, <1>6, <1>7, <1>8, <1>9, <1>10, <1>11 DEF Kinds

(* While none of the eight slips happened, what is owed is found. *)
THEOREM ComposerFound == Spec => [](Plain => Found)
<1>1. Init => (Plain => Found)
  BY InitFound
<1>2. TypeOK /\ Base /\ (Plain => Found) /\ [Next]_vars => (Plain => Found)'
  BY StepFound
<1> QED
  BY ComposerTypes, ComposerBase, <1>1, <1>2, PTL DEF Spec

(* What the writer wrote last and did not throw away is in the box, in the *)
(* drafts table, in the send queue or on its way there, but for the eight  *)
(* slips TextKept names.                                                   *)
THEOREM ComposerTextKept == Spec => []TextKept
<1>1. (Plain => Found) => TextKept
  <2> SUFFICES ASSUME Plain => Found, Plain PROVE owed \subseteq Kept
    BY DEF Plain, TextKept
  <2>1. \A t : t \in Mailed => t \in Kept
    BY DEF Mailed, SentTexts, Unundone, Kept
  <2>2. \A q \in DOMAIN rows : rows[q] \in Kept
    BY DEF Kept, Range
  <2>3. \A t : Safe(t) => t \in Kept
    BY <2>1, <2>2 DEF Safe
  <2>4. Text(compose) \in Kept
    BY DEF Kept
  <2>5. ASSUME NEW w \in Enders PROVE Text(w.d) \in Kept
    <3>1. PICK i \in DOMAIN waiting : w = waiting[i] /\ waiting[i].kind # "autosave"
      BY <2>5 DEF Enders, Range
    <3> QED
      BY <3>1 DEF Kept
  <2> QED
    BY <2>3, <2>4, <2>5 DEF Found, Accounted
<1> QED
  BY ComposerFound, <1>1, PTL

=============================================================================
