--------------------------- MODULE Screen_proofs ---------------------------
(***************************************************************************)
(* Theorems about the list on screen and the opening of a thread, for any  *)
(* threads, hits of a search and bounds.                                   *)
(*                                                                         *)
(* Agrees speaks of the moment when nothing is on its way, and nothing in  *)
(* that moment says why the list is right.  IInv says what the calls on    *)
(* their way will do: of the reads one at most will be taken (Single), and *)
(* what it brings is the list as the store has it, or news that makes the  *)
(* app read again is on its way behind it (Fresh); so the rows are right   *)
(* or become so (Right).  OfView is the same of what a key took away, and  *)
(* holds on screens where the list may be out of date.                     *)
(***************************************************************************)
EXTENDS MCScreen, TLAPS

Row == [at : Places, unread : BOOLEAN, starred : BOOLEAN]
Pages == UNION {[S -> Row] : S \in SUBSET Threads}
Offers == {NoOffer} \cup [thread : Threads, kind : {"at"}, to : Places]
                    \cup [thread : Threads, kind : {"star"}, to : BOOLEAN]
Reads == [kind : {"list", "counts", "search"}, page : Pages, again : BOOLEAN, live : BOOLEAN, behind : BOOLEAN]
Acts == [kind : {"act"}, thread : Threads, ok : BOOLEAN, undo : Offers, reloads : BOOLEAN, advance : BOOLEAN]
Others == [kind : {"changed"}] \cup [kind : {"undone"}, ok : BOOLEAN]
Call == Reads \cup Acts \cup Others
Gets == [kind : {"open", "refresh"}, thread : Threads, found : BOOLEAN, live : BOOLEAN]

Shape ==
  /\ store \in [Threads -> Row]
  /\ view \in Views /\ rows \in Pages /\ searching \in BOOLEAN /\ owed \in BOOLEAN
  /\ calls \in Seq(Call) /\ gets \in SUBSET Gets /\ offer \in Offers
  /\ open \in Threads \cup {None}

(* An answer that says that the store changed; one that has the list read again. *)
News(c) == c.kind = "changed" \/ (c.kind = "undone" /\ c.ok)
Renews(c) == News(c) \/ (c.kind = "act" /\ ~c.ok /\ c.reloads)
Comes(cs) == \E j \in DOMAIN cs : Renews(cs[j])

IsList(c) == c.kind \in Lists /\ c.live

(* What a read that will be taken brings is the list the store has. *)
Fresh(cs, st, v) ==
  \A i \in DOMAIN cs : IsList(cs[i]) /\ ~cs[i].behind => cs[i].page = Page(st, v) \/ Comes(cs)

(* A read is followed by news that takes it back, or by a search. *)
Follows(cs, i) ==
  \/ cs[i].kind = "list" /\ \E j \in DOMAIN cs : j > i /\ News(cs[j])
  \/ cs[i].kind = "counts" /\ \E j \in DOMAIN cs : News(cs[j]) \/ (j > i /\ cs[j].kind = "search")

(* What a read brings is of this list, or the read is taken back. *)
OfView(cs, st, v) ==
  \A i \in DOMAIN cs : IsList(cs[i]) => Follows(cs, i) \/ \A t \in DOMAIN cs[i].page : st[t].at = v

(* One read of a list is the newest. *)
Single(cs) == \A i, j \in DOMAIN cs : IsList(cs[i]) /\ IsList(cs[j]) => i = j

(* The opening that counts is of the thread that is wanted. *)
Asked(gs, w) == \A g \in gs : g.kind = "open" /\ g.live => g.thread = w

(* The rows are right, or something on its way will make them so. *)
Right(rs, cs, st, v) == rs = Page(st, v) \/ Comes(cs) \/ Loading(cs)

IInv ==
  /\ Shape /\ Asked(gets, wanted) /\ Single(calls)
  /\ ~searching => Fresh(calls, store, view)
  /\ ~searching /\ ~owed => Right(rows, calls, store, view)
  /\ OfView(calls, store, view)

-----------------------------------------------------------------------------
LEMMA PageShape ==
  ASSUME NEW p
  PROVE  p \in Pages <=> DOMAIN p \subseteq Threads /\ p \in [DOMAIN p -> Row]
BY DEF Pages

LEMMA PageOf ==
  ASSUME NEW st \in [Threads -> Row], NEW S \in SUBSET Threads
  PROVE  Restrict(st, S) \in Pages /\ DOMAIN Restrict(st, S) = S
<1>1. Restrict(st, S) \in [S -> Row]
  BY DEF Restrict
<1> QED BY <1>1 DEF Pages

LEMMA PageIs ==
  ASSUME NEW st \in [Threads -> Row], NEW v
  PROVE  /\ Page(st, v) \in Pages
         /\ DOMAIN Page(st, v) = {t \in Threads : st[t].at = v}
         /\ \A t \in DOMAIN Page(st, v) : st[t].at = v /\ Page(st, v)[t] = st[t]
         /\ Found(st) \in Pages
<1>1. {t \in Hits : st[t].at # "gone"} \in SUBSET Threads
  BY ScreenAssumption
<1>2. Found(st) \in Pages
  BY <1>1, PageOf DEF Found
<1>3. {t \in Threads : st[t].at = v} \in SUBSET Threads
  OBVIOUS
<1>4. Page(st, v) \in Pages /\ DOMAIN Page(st, v) = {t \in Threads : st[t].at = v}
  BY <1>3, PageOf DEF Page
<1>5. \A t \in DOMAIN Page(st, v) : st[t].at = v /\ Page(st, v)[t] = st[t]
  BY <1>4 DEF Page, Restrict
<1> QED BY <1>2, <1>4, <1>5

(* Two functions on threads are one when they agree everywhere. *)
LEMMA SamePage ==
  ASSUME NEW p \in Pages, NEW st \in [Threads -> Row], NEW v,
         DOMAIN p = {t \in Threads : st[t].at = v},
         \A t \in DOMAIN p : p[t] = st[t]
  PROVE  p = Page(st, v)
<1>1. p = [t \in DOMAIN p |-> p[t]]
  BY PageShape
<1>2. p = [t \in DOMAIN p |-> st[t]]
  BY <1>1
<1> QED BY <1>2 DEF Page, Restrict

LEMMA Kinds ==
  ASSUME NEW c \in Call
  PROVE  /\ c.kind \in {"list", "counts", "search", "act", "changed", "undone"}
         /\ c.kind \in {"list", "counts", "search"} => c \in Reads
         /\ c.kind = "act" => c \in Acts
         /\ c.kind = "undone" => c.ok \in BOOLEAN
BY DEF Call, Reads, Acts, Others

LEMMA ReadIs ==
  ASSUME NEW c \in Reads
  PROVE  c.page \in Pages /\ c.kind \in {"list", "counts", "search"}
BY DEF Reads

-----------------------------------------------------------------------------
(* Marks on calls: Stale, Behind and Unadvanced. *)

Marked(c, d) ==
  /\ d \in Call /\ d.kind = c.kind
  /\ c.kind # "act" => d.ok = c.ok
  /\ c.kind = "act" => d.ok = c.ok /\ d.reloads = c.reloads
  /\ c.kind \in Lists => /\ d.page = c.page
                         /\ d.live => c.live
                         /\ c.behind => d.behind

AllMarked(cs, ds) ==
  /\ ds \in Seq(Call) /\ Len(ds) = Len(cs)
  /\ \A i \in DOMAIN cs : Marked(cs[i], ds[i])

LEMMA MarkLive ==
  ASSUME NEW c \in Call, c.kind \in {"list", "counts", "search"}
  PROVE  Marked(c, [c EXCEPT !.live = FALSE]) /\ [c EXCEPT !.live = FALSE].live = FALSE
<1>1. c \in Reads
  BY Kinds
<1> DEFINE d == [c EXCEPT !.live = FALSE]
<1>2. d \in Reads
  BY <1>1 DEF Reads
<1>3. /\ d.kind = c.kind /\ d.page = c.page /\ d.behind = c.behind /\ d.live = FALSE /\ d.ok = c.ok
  BY <1>1 DEF Reads
<1> QED BY <1>2, <1>3 DEF Marked, Call

LEMMA MarkBehind ==
  ASSUME NEW c \in Call, c.kind \in Lists
  PROVE  Marked(c, [c EXCEPT !.behind = TRUE]) /\ [c EXCEPT !.behind = TRUE].behind = TRUE
<1>1. c \in Reads
  BY Kinds DEF Lists
<1> DEFINE d == [c EXCEPT !.behind = TRUE]
<1>2. d \in Reads
  BY <1>1 DEF Reads
<1>3. /\ d.kind = c.kind /\ d.page = c.page /\ d.live = c.live /\ d.behind = TRUE /\ d.ok = c.ok
  BY <1>1 DEF Reads
<1> QED BY <1>2, <1>3 DEF Marked, Call

LEMMA MarkAdvance ==
  ASSUME NEW c \in Call, c.kind = "act"
  PROVE  Marked(c, [c EXCEPT !.advance = FALSE])
<1>1. c \in Acts
  BY Kinds
<1> DEFINE d == [c EXCEPT !.advance = FALSE]
<1>2. d \in Acts
  BY <1>1 DEF Acts
<1>3. d.kind = c.kind /\ d.ok = c.ok /\ d.reloads = c.reloads
  BY <1>1 DEF Acts
<1> QED BY <1>2, <1>3 DEF Marked, Call, Lists

LEMMA MarkNot ==
  ASSUME NEW c \in Call
  PROVE  Marked(c, c)
BY DEF Marked

LEMMA MarkedSeq ==
  ASSUME NEW cs \in Seq(Call), NEW ds, ds = [i \in DOMAIN cs |-> ds[i]], \A i \in DOMAIN cs : ds[i] \in Call
  PROVE  ds \in Seq(Call) /\ Len(ds) = Len(cs)
<1>1. ds = [i \in 1..Len(cs) |-> ds[i]] /\ Len(cs) \in Nat
  OBVIOUS
<1>2. ds \in [1..Len(cs) -> Call]
  BY <1>1
<1> QED BY <1>1, <1>2

LEMMA At ==
  ASSUME NEW cs \in Seq(Call), NEW i \in DOMAIN cs
  PROVE  cs[i] \in Call
OBVIOUS

LEMMA StaleMarks ==
  ASSUME NEW cs \in Seq(Call), NEW kinds \in SUBSET {"list", "counts", "search"}
  PROVE  /\ AllMarked(cs, Stale(cs, kinds))
         /\ \A i \in DOMAIN cs : /\ cs[i].kind \in kinds => ~Stale(cs, kinds)[i].live
                                 /\ cs[i].kind \notin kinds => Stale(cs, kinds)[i] = cs[i]
<1> DEFINE F(i) == IF cs[i].kind \in kinds THEN [cs[i] EXCEPT !.live = FALSE] ELSE cs[i]
<1>1. \A i \in DOMAIN cs : Marked(cs[i], F(i)) /\ (cs[i].kind \in kinds => F(i).live = FALSE)
  BY MarkLive, MarkNot, At
<1>2. Stale(cs, kinds) = [i \in DOMAIN cs |-> F(i)]
  BY DEF Stale
<1>3. \A i \in DOMAIN cs : F(i) \in Call
  BY <1>1 DEF Marked
<1>4. \A i \in DOMAIN cs : cs[i].kind \notin kinds => F(i) = cs[i]
  OBVIOUS
<1> HIDE DEF F
<1>5. \A i \in DOMAIN cs : Stale(cs, kinds)[i] = F(i)
  BY <1>2
<1>6. Stale(cs, kinds) \in Seq(Call) /\ Len(Stale(cs, kinds)) = Len(cs)
  <2>1. Stale(cs, kinds) = [i \in DOMAIN cs |-> Stale(cs, kinds)[i]]
    BY <1>2, <1>5
  <2> QED BY <1>3, <1>5, <2>1, MarkedSeq
<1> QED BY <1>1, <1>4, <1>5, <1>6 DEF AllMarked

LEMMA BehindMarks ==
  ASSUME NEW cs \in Seq(Call)
  PROVE  /\ AllMarked(cs, Behind(cs))
         /\ \A i \in DOMAIN cs : /\ cs[i].kind \in Lists => Behind(cs)[i].behind
                                 /\ cs[i].kind \in Lists => Behind(cs)[i].live = cs[i].live
<1> DEFINE F(i) == IF cs[i].kind \in Lists THEN [cs[i] EXCEPT !.behind = TRUE] ELSE cs[i]
<1>1. \A i \in DOMAIN cs : Marked(cs[i], F(i)) /\ (cs[i].kind \in Lists => F(i).behind = TRUE)
  BY MarkBehind, MarkNot, At
<1>2. Behind(cs) = [i \in DOMAIN cs |-> F(i)]
  BY DEF Behind
<1>3. \A i \in DOMAIN cs : F(i) \in Call
  BY <1>1 DEF Marked
<1>4. ASSUME NEW i \in DOMAIN cs, cs[i].kind \in Lists
      PROVE  F(i).live = cs[i].live
  <2>1. cs[i] \in Reads
    BY <1>4, At, Kinds DEF Lists
  <2> QED BY <1>4, <2>1 DEF Reads
<1> HIDE DEF F
<1>5. \A i \in DOMAIN cs : Behind(cs)[i] = F(i)
  BY <1>2
<1>6. Behind(cs) \in Seq(Call) /\ Len(Behind(cs)) = Len(cs)
  <2>1. Behind(cs) = [i \in DOMAIN cs |-> Behind(cs)[i]]
    BY <1>2, <1>5
  <2> QED BY <1>3, <1>5, <2>1, MarkedSeq
<1> QED BY <1>1, <1>4, <1>5, <1>6 DEF AllMarked

LEMMA UnadvancedMarks ==
  ASSUME NEW cs \in Seq(Call)
  PROVE  /\ AllMarked(cs, Unadvanced(cs))
         /\ \A i \in DOMAIN cs : cs[i].kind # "act" => Unadvanced(cs)[i] = cs[i]
<1> DEFINE F(i) == IF cs[i].kind = "act" THEN [cs[i] EXCEPT !.advance = FALSE] ELSE cs[i]
<1>1. \A i \in DOMAIN cs : Marked(cs[i], F(i))
  BY MarkAdvance, MarkNot, At
<1>2. Unadvanced(cs) = [i \in DOMAIN cs |-> F(i)]
  BY DEF Unadvanced
<1>3. \A i \in DOMAIN cs : F(i) \in Call
  BY <1>1 DEF Marked
<1>4. \A i \in DOMAIN cs : cs[i].kind # "act" => F(i) = cs[i]
  OBVIOUS
<1> HIDE DEF F
<1>5. \A i \in DOMAIN cs : Unadvanced(cs)[i] = F(i)
  BY <1>2
<1>6. Unadvanced(cs) \in Seq(Call) /\ Len(Unadvanced(cs)) = Len(cs)
  <2>1. Unadvanced(cs) = [i \in DOMAIN cs |-> Unadvanced(cs)[i]]
    BY <1>2, <1>5
  <2> QED BY <1>3, <1>5, <2>1, MarkedSeq
<1> QED BY <1>1, <1>4, <1>5, <1>6 DEF AllMarked

(* Marks change nothing of what the calls promise. *)
LEMMA MarksKeep ==
  ASSUME NEW cs \in Seq(Call), NEW ds, AllMarked(cs, ds), NEW st, NEW v
  PROVE  /\ DOMAIN ds = DOMAIN cs
         /\ Comes(ds) <=> Comes(cs)
         /\ Loading(ds) => Loading(cs)
         /\ Single(cs) => Single(ds)
         /\ Fresh(cs, st, v) => Fresh(ds, st, v)
         /\ OfView(cs, st, v) => OfView(ds, st, v)
<1>1. DOMAIN ds = DOMAIN cs
  BY DEF AllMarked
<1>2. ASSUME NEW i \in DOMAIN cs
      PROVE  /\ ds[i].kind = cs[i].kind
             /\ News(ds[i]) <=> News(cs[i])
             /\ Renews(ds[i]) <=> Renews(cs[i])
             /\ IsList(ds[i]) => IsList(cs[i]) /\ ds[i].page = cs[i].page /\ (cs[i].behind => ds[i].behind)
  BY <1>2 DEF AllMarked, Marked, News, Renews, IsList
<1>3. Comes(ds) <=> Comes(cs)
  BY <1>1, <1>2 DEF Comes
<1>4. Loading(ds) => Loading(cs)
  BY <1>1, <1>2 DEF Loading, IsList
<1>5. Fresh(cs, st, v) => Fresh(ds, st, v)
  BY <1>1, <1>2, <1>3 DEF Fresh
<1>6. \A i \in DOMAIN cs : Follows(cs, i) => Follows(ds, i)
  BY <1>1, <1>2 DEF Follows
<1>7. OfView(cs, st, v) => OfView(ds, st, v)
  BY <1>1, <1>2, <1>6 DEF OfView
<1>8. Single(cs) => Single(ds)
  BY <1>1, <1>2 DEF Single
<1> QED BY <1>1, <1>3, <1>4, <1>5, <1>7, <1>8

-----------------------------------------------------------------------------
(* A call that is added, one that is answered. *)

LEMMA Appended ==
  ASSUME NEW cs \in Seq(Call), NEW c \in Call
  PROVE  /\ Append(cs, c) \in Seq(Call)
         /\ DOMAIN Append(cs, c) = DOMAIN cs \cup {Len(cs) + 1}
         /\ \A i \in DOMAIN cs : Append(cs, c)[i] = cs[i]
         /\ Append(cs, c)[Len(cs) + 1] = c
         /\ \A i \in DOMAIN cs : Len(cs) + 1 > i
         /\ Comes(cs) \/ Renews(c) => Comes(Append(cs, c))
         /\ Loading(cs) \/ IsList(c) => Loading(Append(cs, c))
<1>1. /\ Append(cs, c) \in Seq(Call)
      /\ DOMAIN Append(cs, c) = DOMAIN cs \cup {Len(cs) + 1}
      /\ \A i \in DOMAIN cs : Append(cs, c)[i] = cs[i]
      /\ Append(cs, c)[Len(cs) + 1] = c
  OBVIOUS
<1>2. \A i \in DOMAIN cs : Len(cs) + 1 > i
  OBVIOUS
<1>3. Comes(cs) \/ Renews(c) => Comes(Append(cs, c))
  BY <1>1 DEF Comes
<1>4. Loading(cs) \/ IsList(c) => Loading(Append(cs, c))
  BY <1>1 DEF Loading, IsList
<1> QED BY <1>1, <1>2, <1>3, <1>4

LEMMA AppendKeeps ==
  ASSUME NEW cs \in Seq(Call), NEW c \in Call, NEW st, NEW v
  PROVE  /\ Single(cs) /\ (IsList(c) => ~Loading(cs)) => Single(Append(cs, c))
         /\ Fresh(cs, st, v) /\ (IsList(c) /\ ~c.behind => c.page = Page(st, v)) => Fresh(Append(cs, c), st, v)
         /\ OfView(cs, st, v) /\ (IsList(c) => \A t \in DOMAIN c.page : st[t].at = v)
              => OfView(Append(cs, c), st, v)
<1> DEFINE ds == Append(cs, c)
<1>1. /\ DOMAIN ds = DOMAIN cs \cup {Len(cs) + 1}
      /\ \A i \in DOMAIN cs : ds[i] = cs[i] /\ Len(cs) + 1 > i
      /\ ds[Len(cs) + 1] = c
      /\ Comes(cs) => Comes(ds)
  BY Appended
<1> HIDE DEF ds
<1>2. Fresh(cs, st, v) /\ (IsList(c) /\ ~c.behind => c.page = Page(st, v)) => Fresh(ds, st, v)
  BY <1>1 DEF Fresh
<1>3. \A i \in DOMAIN cs : Follows(cs, i) => Follows(ds, i)
  BY <1>1 DEF Follows
<1>4. OfView(cs, st, v) /\ (IsList(c) => \A t \in DOMAIN c.page : st[t].at = v) => OfView(ds, st, v)
  BY <1>1, <1>3 DEF OfView
<1>5. Single(cs) /\ (IsList(c) => ~Loading(cs)) => Single(ds)
  BY <1>1 DEF Single, Loading, IsList
<1> QED BY <1>2, <1>4, <1>5 DEF ds

(* News makes up for whatever the store becomes. *)
LEMMA NewsAppended ==
  ASSUME NEW cs \in Seq(Call), NEW c \in Call, News(c), NEW st, NEW v
  PROVE  Fresh(Append(cs, c), st, v) /\ OfView(Append(cs, c), st, v) /\ Comes(Append(cs, c))
<1> DEFINE ds == Append(cs, c)
<1>1. /\ DOMAIN ds = DOMAIN cs \cup {Len(cs) + 1}
      /\ \A i \in DOMAIN cs : ds[i] = cs[i] /\ Len(cs) + 1 > i
      /\ ds[Len(cs) + 1] = c
      /\ ds \in Seq(Call)
  BY Appended
<1>2. Renews(c) /\ c.kind \notin Lists
  BY DEF Renews, News, Lists
<1>3. Comes(ds)
  BY <1>2, Appended
<1> HIDE DEF ds
<1>4. Fresh(ds, st, v)
  BY <1>3 DEF Fresh
<1>5. ASSUME NEW i \in DOMAIN ds, IsList(ds[i])
      PROVE  Follows(ds, i)
  <2>1. i \in DOMAIN cs
    BY <1>1, <1>2, <1>5 DEF IsList
  <2>2. ds[i].kind \in {"list", "counts"}
    BY <1>5 DEF IsList, Lists
  <2> QED BY <1>1, <2>1, <2>2 DEF Follows
<1>6. OfView(ds, st, v)
  BY <1>5 DEF OfView
<1> QED BY <1>3, <1>4, <1>6 DEF ds

LEMMA Tailed ==
  ASSUME NEW cs \in Seq(Call), cs # <<>>
  PROVE  /\ Tail(cs) \in Seq(Call) /\ Head(cs) \in Call /\ Head(cs) = cs[1] /\ 1 \in DOMAIN cs
         /\ \A i \in DOMAIN Tail(cs) : i + 1 \in DOMAIN cs /\ Tail(cs)[i] = cs[i + 1]
         /\ \A i \in DOMAIN cs : i # 1 => i - 1 \in DOMAIN Tail(cs) /\ cs[i] = Tail(cs)[i - 1]
         /\ DOMAIN cs \subseteq Nat /\ DOMAIN Tail(cs) \subseteq Nat
<1>1. Tail(cs) \in Seq(Call) /\ Head(cs) \in Call /\ Head(cs) = cs[1] /\ 1 \in DOMAIN cs
  OBVIOUS
<1>2. \A i \in DOMAIN Tail(cs) : i + 1 \in DOMAIN cs /\ Tail(cs)[i] = cs[i + 1]
  OBVIOUS
<1>3. \A i \in DOMAIN cs : i # 1 => i - 1 \in DOMAIN Tail(cs) /\ cs[i] = Tail(cs)[i - 1]
  OBVIOUS
<1>4. DOMAIN cs \subseteq Nat /\ DOMAIN Tail(cs) \subseteq Nat
  BY <1>1
<1> QED BY <1>1, <1>2, <1>3, <1>4

LEMMA TailKeeps ==
  ASSUME NEW cs \in Seq(Call), cs # <<>>, NEW st, NEW v
  PROVE  /\ Comes(cs) /\ ~Renews(Head(cs)) => Comes(Tail(cs))
         /\ Loading(cs) /\ ~IsList(Head(cs)) => Loading(Tail(cs))
         /\ Single(cs) => Single(Tail(cs)) /\ (IsList(Head(cs)) => ~Loading(Tail(cs)))
         /\ Fresh(cs, st, v) /\ ~Renews(Head(cs)) => Fresh(Tail(cs), st, v)
         /\ OfView(cs, st, v) /\ ~News(Head(cs)) => OfView(Tail(cs), st, v)
<1> DEFINE ds == Tail(cs)
<1>1. /\ Head(cs) = cs[1] /\ 1 \in DOMAIN cs
      /\ \A i \in DOMAIN ds : i + 1 \in DOMAIN cs /\ ds[i] = cs[i + 1]
      /\ \A i \in DOMAIN cs : i # 1 => i - 1 \in DOMAIN ds /\ cs[i] = ds[i - 1]
      /\ DOMAIN cs \subseteq Nat /\ DOMAIN ds \subseteq Nat
  BY Tailed
<1> HIDE DEF ds
<1>2. Comes(cs) /\ ~Renews(Head(cs)) => Comes(ds)
  BY <1>1 DEF Comes
<1>3. Loading(cs) /\ ~IsList(Head(cs)) => Loading(ds)
  BY <1>1 DEF Loading, IsList
<1>4. Fresh(cs, st, v) /\ ~Renews(Head(cs)) => Fresh(ds, st, v)
  BY <1>1, <1>2 DEF Fresh
<1>5. ASSUME ~News(Head(cs)), NEW i \in DOMAIN ds, Follows(cs, i + 1)
      PROVE  Follows(ds, i)
  <2>1. CASE cs[i + 1].kind = "list"
    <3>1. PICK j \in DOMAIN cs : j > i + 1 /\ News(cs[j])
      BY <1>5, <2>1 DEF Follows
    <3>2. j - 1 \in DOMAIN ds /\ j - 1 > i /\ News(ds[j - 1])
      BY <1>1, <1>5, <3>1
    <3> QED BY <1>1, <2>1, <3>2 DEF Follows
  <2>2. CASE cs[i + 1].kind = "counts"
    <3>1. PICK j \in DOMAIN cs : News(cs[j]) \/ (j > i + 1 /\ cs[j].kind = "search")
      BY <1>5, <2>2 DEF Follows
    <3>2. j # 1
      BY <1>1, <1>5, <3>1
    <3>3. j - 1 \in DOMAIN ds /\ cs[j] = ds[j - 1]
      BY <1>1, <3>2
    <3>4. j > i + 1 /\ j \in Nat /\ i \in Nat => j - 1 > i
      OBVIOUS
    <3>5. j \in Nat /\ i \in Nat
      BY <1>1
    <3>6. j > i => j > i + 1 \/ j = i + 1
      BY <3>5
    <3>7. News(ds[j - 1]) \/ (j - 1 > i /\ ds[j - 1].kind = "search")
      BY <2>2, <3>1, <3>3, <3>4, <3>5, <3>6, "search" # "counts"
    <3> QED BY <1>1, <2>2, <3>3, <3>7 DEF Follows
  <2> QED BY <1>5, <2>1, <2>2 DEF Follows
<1>6. OfView(cs, st, v) /\ ~News(Head(cs)) => OfView(ds, st, v)
  BY <1>1, <1>5 DEF OfView
<1>7. Single(cs) => Single(ds)
  BY <1>1 DEF Single
<1>8. ASSUME Single(cs), IsList(Head(cs)), NEW i \in DOMAIN ds, IsList(ds[i])
      PROVE  FALSE
  <2>1. i + 1 \in DOMAIN cs /\ IsList(cs[i + 1]) /\ IsList(cs[1]) /\ 1 \in DOMAIN cs
    BY <1>1, <1>8
  <2>2. i + 1 = 1
    BY <1>8, <2>1 DEF Single
  <2>3. i \in Nat /\ i # 0
    <3>1. ds \in Seq(Call)
      BY Tailed DEF ds
    <3> QED BY <1>8, <3>1
  <2> QED BY <2>2, <2>3
<1>9. Single(cs) /\ IsList(Head(cs)) => ~Loading(ds)
  BY <1>8 DEF Loading, IsList
<1> QED BY <1>2, <1>3, <1>4, <1>6, <1>7, <1>9 DEF ds

-----------------------------------------------------------------------------
(* Reading again. *)

LEMMA ReadsAreCalls ==
  ASSUME NEW k \in {"list", "counts", "search"}, NEW p \in Pages, NEW again \in BOOLEAN
  PROVE  /\ Read(k, p, again) \in Call
         /\ Read(k, p, again).kind = k /\ Read(k, p, again).page = p /\ Read(k, p, again).live
<1>1. Read(k, p, again) \in Reads
  BY DEF Read, Reads
<1> QED BY <1>1 DEF Read, Call

(* After an invalidation no read of a list counts. *)
LEMMA NoneLoading ==
  ASSUME NEW cs \in Seq(Call), NEW st, NEW v
  PROVE  /\ Stale(cs, Lists) \in Seq(Call)
         /\ Single(Stale(cs, Lists)) /\ ~Loading(Stale(cs, Lists))
         /\ Fresh(Stale(cs, Lists), st, v) /\ OfView(Stale(cs, Lists), st, v)
         /\ Comes(cs) => Comes(Stale(cs, Lists))
<1> DEFINE ds == Stale(cs, Lists)
<1>1. Lists \in SUBSET {"list", "counts", "search"}
  BY DEF Lists
<1>2. /\ AllMarked(cs, ds)
      /\ \A i \in DOMAIN cs : cs[i].kind \in Lists => ~ds[i].live
  BY <1>1, StaleMarks
<1> HIDE DEF ds
<1>3. DOMAIN ds = DOMAIN cs /\ (Comes(cs) => Comes(ds)) /\ ds \in Seq(Call)
  BY <1>2, MarksKeep DEF AllMarked
<1>4. \A i \in DOMAIN cs : ds[i].kind = cs[i].kind
  BY <1>2 DEF AllMarked, Marked
<1>5. \A i \in DOMAIN ds : ~IsList(ds[i])
  BY <1>2, <1>3, <1>4 DEF IsList
<1>6. Fresh(ds, st, v) /\ OfView(ds, st, v) /\ Single(ds) /\ ~Loading(ds)
  BY <1>5 DEF Fresh, OfView, Single, Loading, IsList
<1> QED BY <1>3, <1>5, <1>6 DEF ds

LEMMA LoadIsFresh ==
  ASSUME NEW cs \in Seq(Call), NEW v, store \in [Threads -> Row]
  PROVE  /\ Load(v, FALSE, cs) \in Seq(Call)
         /\ Fresh(Load(v, FALSE, cs), store, v) /\ OfView(Load(v, FALSE, cs), store, v)
         /\ Loading(Load(v, FALSE, cs)) /\ Single(Load(v, FALSE, cs))
<1> DEFINE c == Read("list", Page(store, v), FALSE)
<1>1. Page(store, v) \in Pages /\ \A t \in DOMAIN Page(store, v) : store[t].at = v
  <2>1. Page(store, v) \in Pages
    BY PageIs
  <2>2. \A t \in DOMAIN Page(store, v) : store[t].at = v /\ Page(store, v)[t] = store[t]
    BY PageIs
  <2> QED BY <2>1, <2>2
<1>2. c \in Call /\ c.page = Page(store, v) /\ IsList(c)
  BY <1>1, ReadsAreCalls DEF IsList, Lists
<1> HIDE DEF c
<1>3. /\ Stale(cs, Lists) \in Seq(Call)
      /\ Fresh(Stale(cs, Lists), store, v) /\ OfView(Stale(cs, Lists), store, v)
      /\ Single(Stale(cs, Lists)) /\ ~Loading(Stale(cs, Lists))
  BY NoneLoading
<1>4. /\ Fresh(Append(Stale(cs, Lists), c), store, v) /\ OfView(Append(Stale(cs, Lists), c), store, v)
      /\ Single(Append(Stale(cs, Lists), c))
  BY <1>1, <1>2, <1>3, AppendKeeps
<1>5. Append(Stale(cs, Lists), c) \in Seq(Call) /\ Loading(Append(Stale(cs, Lists), c))
  BY <1>2, <1>3, Appended
<1>6. Load(v, FALSE, cs) = Append(Stale(cs, Lists), c)
  BY DEF Load, c
<1> QED BY <1>4, <1>5, <1>6

LEMMA StaleSearch ==
  ASSUME NEW cs \in Seq(Call), NEW st, NEW v
  PROVE  /\ AllMarked(cs, Stale(cs, {"search"}))
         /\ Stale(cs, {"search"}) \in Seq(Call)
         /\ Loading(cs) => Loading(Stale(cs, {"search"}))
<1> DEFINE ds == Stale(cs, {"search"})
<1>1. /\ AllMarked(cs, ds)
      /\ \A i \in DOMAIN cs : cs[i].kind # "search" => ds[i] = cs[i]
  BY StaleMarks
<1> HIDE DEF ds
<1>2. DOMAIN ds = DOMAIN cs
  BY <1>1, MarksKeep
<1>3. Loading(cs) => Loading(ds)
  BY <1>1, <1>2 DEF Loading, Lists
<1> QED BY <1>1, <1>3 DEF ds, AllMarked

(* A search that is run again. *)
LEMMA SearchedAgain ==
  ASSUME NEW cs \in Seq(Call), store \in [Threads -> Row], NEW st, NEW v, NEW again \in BOOLEAN
  PROVE  LET ds == Append(Stale(cs, {"search"}), Read("search", Found(store), again))
         IN  /\ ds \in Seq(Call)
             /\ Comes(cs) => Comes(ds)
             /\ Loading(cs) => Loading(ds)
             /\ Single(cs) => Single(ds)
             /\ Fresh(cs, st, v) => Fresh(ds, st, v)
             /\ OfView(cs, st, v) => OfView(ds, st, v)
<1> DEFINE c == Read("search", Found(store), again)
           es == Stale(cs, {"search"})
<1>1. Found(store) \in Pages
  BY PageIs
<1>2. c \in Call /\ ~IsList(c)
  BY <1>1, ReadsAreCalls DEF IsList, Lists
<1>3. es \in Seq(Call) /\ AllMarked(cs, es) /\ (Loading(cs) => Loading(es))
  BY StaleSearch
<1> HIDE DEF c, es
<1>4. /\ Comes(es) <=> Comes(cs)
      /\ Single(cs) => Single(es)
      /\ Fresh(cs, st, v) => Fresh(es, st, v)
      /\ OfView(cs, st, v) => OfView(es, st, v)
  BY <1>3, MarksKeep
<1>5. /\ Append(es, c) \in Seq(Call)
      /\ Comes(es) => Comes(Append(es, c))
      /\ Loading(es) => Loading(Append(es, c))
  BY <1>2, <1>3, Appended
<1>6. /\ Fresh(es, st, v) => Fresh(Append(es, c), st, v)
      /\ OfView(es, st, v) => OfView(Append(es, c), st, v)
      /\ Single(es) => Single(Append(es, c))
  BY <1>2, <1>3, AppendKeeps
<1> QED BY <1>3, <1>4, <1>5, <1>6 DEF c, es

(* While hits are on screen news has the search run again behind every     *)
(* page that is on its way.                                                *)
LEMMA SearchFollows ==
  ASSUME NEW cs \in Seq(Call), cs # <<>>, store \in [Threads -> Row], NEW st, NEW v,
         OfView(cs, st, v), Head(cs).kind \notin Lists
  PROVE  SearchAgain(Tail(cs)) \in Seq(Call) /\ OfView(SearchAgain(Tail(cs)), st, v)
<1> DEFINE c == Read("search", Found(store), TRUE)
           ts == Tail(cs)
           es == Stale(ts, {"search"})
           ds == Append(es, c)
<1>1. Found(store) \in Pages
  BY PageIs
<1>2. c \in Call /\ c.kind = "search"
  BY <1>1, ReadsAreCalls
<1>3. /\ ts \in Seq(Call) /\ Head(cs) = cs[1]
      /\ \A i \in DOMAIN ts : i + 1 \in DOMAIN cs /\ ts[i] = cs[i + 1]
      /\ \A i \in DOMAIN cs : i # 1 => i - 1 \in DOMAIN ts /\ cs[i] = ts[i - 1]
      /\ DOMAIN cs \subseteq Nat /\ DOMAIN ts \subseteq Nat
  BY Tailed
<1>4. es \in Seq(Call) /\ AllMarked(ts, es)
  BY <1>3, StaleSearch
<1>5. DOMAIN es = DOMAIN ts
  BY <1>3, <1>4, MarksKeep
<1>6. /\ ds \in Seq(Call)
      /\ DOMAIN ds = DOMAIN es \cup {Len(es) + 1}
      /\ \A i \in DOMAIN es : ds[i] = es[i] /\ Len(es) + 1 > i
      /\ ds[Len(es) + 1] = c
  BY <1>2, <1>4, Appended
<1> HIDE DEF c, ts, es, ds
<1>7. ASSUME NEW i \in DOMAIN ts
      PROVE  /\ ds[i].kind = cs[i + 1].kind
             /\ News(ds[i]) <=> News(cs[i + 1])
             /\ IsList(ds[i]) => IsList(cs[i + 1]) /\ ds[i].page = cs[i + 1].page
  <2>1. Marked(ts[i], es[i]) /\ ts[i] = cs[i + 1] /\ ds[i] = es[i]
    BY <1>3, <1>4, <1>5, <1>6, <1>7 DEF AllMarked
  <2> QED BY <2>1 DEF Marked, News, IsList
<1>8. ASSUME NEW i \in DOMAIN ds, IsList(ds[i])
      PROVE  Follows(ds, i) \/ \A t \in DOMAIN ds[i].page : st[t].at = v
  <2>1. i \in DOMAIN ts
    BY <1>2, <1>5, <1>6, <1>8 DEF IsList, Lists
  <2>2. i + 1 \in DOMAIN cs /\ IsList(cs[i + 1]) /\ ds[i].page = cs[i + 1].page
    BY <1>3, <1>7, <1>8, <2>1
  <2>3. CASE ds[i].kind = "counts"
    BY <1>2, <1>5, <1>6, <2>1, <2>3 DEF Follows
  <2>4. CASE ds[i].kind = "list"
    <3>1. CASE Follows(cs, i + 1)
      <4>1. PICK j \in DOMAIN cs : j > i + 1 /\ News(cs[j])
        BY <1>7, <2>1, <2>4, <3>1 DEF Follows
      <4>2. j - 1 \in DOMAIN ts /\ j - 1 > i
        BY <1>3, <2>1, <4>1
      <4>3. (j - 1) + 1 = j
        BY <1>3, <4>1
      <4>4. News(ds[j - 1])
        BY <1>7, <4>1, <4>2, <4>3
      <4> QED BY <1>5, <1>6, <2>4, <4>2, <4>4 DEF Follows
    <3> QED BY <2>2, <3>1 DEF OfView
  <2> QED BY <1>8, <2>3, <2>4 DEF IsList, Lists
<1>9. OfView(ds, st, v)
  BY <1>8 DEF OfView
<1> QED BY <1>6, <1>9 DEF SearchAgain, ds, es, ts, c

-----------------------------------------------------------------------------
(* Openings. *)

LEMMA DroppedGets ==
  ASSUME NEW gs \in SUBSET Gets
  PROVE  Dropped(gs) \in SUBSET Gets /\ \A w : Asked(Dropped(gs), w)
<1>1. ASSUME NEW g \in Gets
      PROVE  [g EXCEPT !.live = FALSE] \in Gets /\ ~[g EXCEPT !.live = FALSE].live
  BY DEF Gets
<1> QED BY <1>1 DEF Dropped, Asked

LEMMA GetIs ==
  ASSUME NEW k \in {"open", "refresh"}, NEW t \in Threads
  PROVE  Get(k, t) \in Gets /\ Get(k, t).kind = k /\ Get(k, t).thread = t
BY DEF Get, Gets

LEMMA Refreshed ==
  ASSUME NEW gs \in SUBSET Gets, open \in Threads \cup {None}, NEW w
  PROVE  RefreshOpen(gs) \in SUBSET Gets /\ (Asked(gs, w) => Asked(RefreshOpen(gs), w))
<1>1. CASE open # None /\ opening = None
  <2>1. Get("refresh", open) \in Gets /\ Get("refresh", open).kind = "refresh"
    BY <1>1, GetIs
  <2> QED BY <1>1, <2>1 DEF RefreshOpen, Asked
<1>2. CASE ~(open # None /\ opening = None)
  BY <1>2 DEF RefreshOpen
<1> QED BY <1>1, <1>2

(* Open *)
LEMMA Opened ==
  ASSUME NEW t \in Threads, gets \in SUBSET Gets, Open(t)
  PROVE  gets' \in SUBSET Gets /\ Asked(gets', wanted') /\ open' = open
<1>1. Dropped(gets) \in SUBSET Gets /\ Asked(Dropped(gets), t)
  BY DroppedGets
<1>2. Get("open", t) \in Gets /\ Get("open", t).thread = t
  BY GetIs
<1> QED BY <1>1, <1>2 DEF Open, Asked

-----------------------------------------------------------------------------
(* What a key writes. *)

LEMMA Written ==
  ASSUME NEW t \in Threads, NEW to \in Row, store \in [Threads -> Row], Write(t, to)
  PROVE  /\ store' \in [Threads -> Row]
         /\ store[t].at # "gone" => store' = [store EXCEPT ![t] = to] /\ store'[t] = to
         /\ store[t].at = "gone" => store' = store
         /\ \A u \in Threads : u # t => store'[u] = store[u]
BY DEF Write

LEMMA ActIs ==
  ASSUME NEW kind, NEW t \in Threads, NEW undo \in Offers, NEW advance \in BOOLEAN
  PROVE  /\ Act(kind, t, undo, advance) \in Call
         /\ ~IsList(Act(kind, t, undo, advance))
<1>1. (store[t].at # "gone") \in BOOLEAN /\ (kind # "star") \in BOOLEAN
  OBVIOUS
<1>2. Act(kind, t, undo, advance) \in Acts
  BY <1>1 DEF Act, Acts
<1> QED BY <1>2 DEF Acts, Call, IsList, Lists

LEMMA Pressed ==
  ASSUME Shape, NEW kind, NEW t \in Threads, NEW to \in Row, NEW undo \in Offers, NEW advance \in BOOLEAN,
         Press(kind, t, to, undo, advance)
  PROVE  /\ Write(t, to) /\ calls' \in Seq(Call)
         /\ \A st, v : Fresh(calls', st, v) /\ OfView(calls', st, v)
         /\ Single(calls')
         /\ Comes(calls) => Comes(calls')
<1> DEFINE c == Act(kind, t, undo, advance)
           ds == Stale(calls, Lists)
           es == Unadvanced(ds)
           fs == IF advance THEN es ELSE ds
<1>1. calls \in Seq(Call)
  BY DEF Shape
<1>2. c \in Call /\ ~IsList(c)
  BY ActIs
<1>3. /\ ds \in Seq(Call) /\ (Comes(calls) => Comes(ds))
      /\ \A st, v : Fresh(ds, st, v) /\ OfView(ds, st, v)
      /\ Single(ds)
  BY <1>1, NoneLoading
<1>4. AllMarked(ds, es) /\ es \in Seq(Call)
  BY <1>3, UnadvancedMarks DEF AllMarked
<1>5. calls' = Append(fs, c) /\ Write(t, to)
  BY DEF Press, Invalidate
<1> HIDE DEF c, ds, es
<1>6. (Comes(calls) => Comes(es)) /\ Single(es) /\ \A st, v : Fresh(es, st, v) /\ OfView(es, st, v)
  BY <1>3, <1>4, MarksKeep
<1>7. /\ fs \in Seq(Call) /\ (Comes(calls) => Comes(fs)) /\ Single(fs)
      /\ \A st, v : Fresh(fs, st, v) /\ OfView(fs, st, v)
  BY <1>3, <1>4, <1>6
<1> HIDE DEF fs
<1>8. Append(fs, c) \in Seq(Call) /\ (Comes(fs) => Comes(Append(fs, c)))
  BY <1>2, <1>7, Appended
<1>9. \A st, v : Fresh(Append(fs, c), st, v) /\ OfView(Append(fs, c), st, v)
  BY <1>2, <1>7, AppendKeeps
<1>10. Single(Append(fs, c))
  BY <1>2, <1>7, AppendKeeps
<1> QED BY <1>5, <1>7, <1>8, <1>9, <1>10

LEMMA RowAt ==
  ASSUME NEW t \in Threads, store \in [Threads -> Row], NEW p \in Places
  PROVE  [store[t] EXCEPT !.at = p] \in Row /\ [store[t] EXCEPT !.at = p].at = p
BY DEF Row

LEMMA BackIs ==
  ASSUME NEW t \in Threads, NEW p \in Places, NEW b \in BOOLEAN
  PROVE  Back("at", t, p) \in Offers /\ Back("star", t, b) \in Offers
BY DEF Back, Offers

LEMMA WithoutIs ==
  ASSUME NEW p \in Pages, NEW t
  PROVE  /\ Without(p, t) \in Pages /\ DOMAIN Without(p, t) = DOMAIN p \ {t}
         /\ \A u \in DOMAIN Without(p, t) : Without(p, t)[u] = p[u]
<1>1. Without(p, t) = [u \in DOMAIN p \ {t} |-> p[u]]
  BY DEF Without, Restrict
<1>2. DOMAIN p \subseteq Threads /\ p \in [DOMAIN p -> Row]
  BY PageShape
<1>3. Without(p, t) \in [DOMAIN p \ {t} -> Row]
  BY <1>1, <1>2
<1>4. DOMAIN Without(p, t) = DOMAIN p \ {t}
  BY <1>1
<1>5. Without(p, t) \in Pages
  BY <1>2, <1>3, <1>4, PageShape
<1> QED BY <1>1, <1>4, <1>5

LEMMA RowsArePage ==
  ASSUME Shape, rows = Page(store, view)
  PROVE  /\ DOMAIN rows = {u \in Threads : store[u].at = view}
         /\ \A u \in DOMAIN rows : u \in Threads /\ store[u].at = view /\ rows[u] = store[u]
<1>1. store \in [Threads -> Row]
  BY DEF Shape
<1>2. DOMAIN Page(store, view) = {u \in Threads : store[u].at = view}
  BY <1>1, PageIs
<1>3. \A u \in DOMAIN Page(store, view) : store[u].at = view /\ Page(store, view)[u] = store[u]
  BY <1>1, PageIs
<1>4. \A u \in {w \in Threads : store[w].at = view} : u \in Threads
  OBVIOUS
<1> QED BY <1>2, <1>3, <1>4

(* The row that goes is the one that leaves the view. *)
LEMMA RowGoes ==
  ASSUME Shape, NEW t \in DOMAIN rows, rows = Page(store, view), NEW to \in Row, to.at # view, Write(t, to)
  PROVE  Without(rows, t) = Page(store', view)
<1>1. t \in Threads /\ store[t].at = view /\ store \in [Threads -> Row] /\ view # "gone"
  BY RowsArePage DEF Shape, Views
<1>2. /\ store' \in [Threads -> Row] /\ store'[t] = to
      /\ \A u \in Threads : u # t => store'[u] = store[u]
  BY <1>1, Written
<1>3. /\ Without(rows, t) \in Pages /\ DOMAIN Without(rows, t) = DOMAIN rows \ {t}
      /\ \A u \in DOMAIN Without(rows, t) : Without(rows, t)[u] = rows[u]
  BY WithoutIs DEF Shape
<1>4. DOMAIN rows = {u \in Threads : store[u].at = view} /\ \A u \in DOMAIN rows : rows[u] = store[u]
  BY RowsArePage
<1>5. DOMAIN Without(rows, t) = {u \in Threads : store'[u].at = view}
  BY <1>1, <1>2, <1>3, <1>4
<1>6. \A u \in DOMAIN Without(rows, t) : Without(rows, t)[u] = store'[u]
  BY <1>2, <1>3, <1>4
<1> QED BY <1>2, <1>3, <1>5, <1>6, SamePage

(* The row that changes is as the store has it. *)
LEMMA RowChanges ==
  ASSUME Shape, NEW t \in DOMAIN rows, rows = Page(store, view), NEW to \in Row, to.at = view, Write(t, to)
  PROVE  [rows EXCEPT ![t] = to] = Page(store', view)
<1>1. t \in Threads /\ store[t].at = view /\ store \in [Threads -> Row] /\ view # "gone"
  BY RowsArePage DEF Shape, Views
<1>2. /\ store' \in [Threads -> Row] /\ store'[t] = to
      /\ \A u \in Threads : u # t => store'[u] = store[u]
  BY <1>1, Written
<1>3. DOMAIN rows = {u \in Threads : store[u].at = view} /\ \A u \in DOMAIN rows : rows[u] = store[u]
  BY RowsArePage
<1>4. rows \in [DOMAIN rows -> Row] /\ DOMAIN rows \subseteq Threads
  BY PageShape DEF Shape
<1> DEFINE new == [rows EXCEPT ![t] = to]
<1>5. /\ new \in [DOMAIN rows -> Row] /\ DOMAIN new = DOMAIN rows
      /\ new[t] = to /\ \A u \in DOMAIN rows : u # t => new[u] = rows[u]
  BY <1>4
<1> HIDE DEF new
<1>6. new \in Pages
  BY <1>4, <1>5, PageShape
<1>7. DOMAIN new = {u \in Threads : store'[u].at = view}
  BY <1>1, <1>2, <1>3, <1>5
<1>8. \A u \in DOMAIN new : new[u] = store'[u]
  BY <1>2, <1>3, <1>4, <1>5
<1>9. new = Page(store', view)
  BY <1>2, <1>6, <1>7, <1>8, SamePage
<1> QED BY <1>9 DEF new

LEMMA RowTyped ==
  ASSUME NEW p \in Pages, NEW t \in DOMAIN p, NEW to \in Row
  PROVE  [p EXCEPT ![t] = to] \in Pages
<1>1. DOMAIN p \subseteq Threads /\ p \in [DOMAIN p -> Row]
  BY PageShape
<1>2. [p EXCEPT ![t] = to] \in [DOMAIN p -> Row] /\ DOMAIN [p EXCEPT ![t] = to] = DOMAIN p
  BY <1>1
<1> QED BY <1>1, <1>2, PageShape

-----------------------------------------------------------------------------
(* The keys. *)

LEMMA KeyKeeps ==
  ASSUME IInv, NEW kind, NEW t \in Threads, NEW to \in Row, NEW undo \in Offers, NEW advance \in BOOLEAN,
         Press(kind, t, to, undo, advance),
         rows' \in Pages, view' = view, searching' = searching, offer' = offer,
         owed' \in BOOLEAN, ~owed' => ~owed /\ ~Loading(calls),
         gets' \in SUBSET Gets, Asked(gets', wanted'), open' \in Threads \cup {None},
         ~owed' /\ rows = Page(store, view) => rows' = Page(store', view)
  PROVE  IInv'
<1>1. Shape
  BY DEF IInv
<1>2. /\ Write(t, to) /\ calls' \in Seq(Call)
      /\ \A st, v : Fresh(calls', st, v) /\ OfView(calls', st, v)
      /\ Single(calls') /\ (Comes(calls) => Comes(calls'))
  BY <1>1, Pressed
<1>3. store' \in [Threads -> Row]
  BY <1>1, <1>2, Written DEF Shape
<1>4. Shape'
  BY <1>1, <1>2, <1>3 DEF Shape
<1>5. ASSUME ~searching', ~owed'
      PROVE  Right(rows', calls', store', view')
  <2>1. rows = Page(store, view) \/ Comes(calls)
    BY <1>5 DEF IInv, Right
  <2> QED BY <1>2, <1>5, <2>1 DEF Right
<1>6. Fresh(calls', store', view') /\ OfView(calls', store', view')
  BY <1>2
<1> QED BY <1>2, <1>4, <1>5, <1>6 DEF IInv

LEMMA ArchiveKeeps ==
  ASSUME IInv, NEW t \in Threads, Archive(t)
  PROVE  IInv'
<1> DEFINE was == t \in {open, opening}
           to == [store[t] EXCEPT !.at = "archive"]
<1>1. Shape
  BY DEF IInv
<1>2. to \in Row /\ to.at = "archive"
  BY <1>1, RowAt DEF Shape, Places, Views
<1>3. Back("at", t, "inbox") \in Offers
  BY BackIs DEF Places, Views
<1>4. /\ Press("archive", t, to, Back("at", t, "inbox"), was) /\ was \in BOOLEAN
      /\ t \in DOMAIN rows /\ rows' = Without(rows, t)
      /\ owed' = (owed \/ Loading(calls) \/ view = "archive")
      /\ view' = view /\ searching' = searching /\ offer' = offer
      /\ open' = (IF was THEN None ELSE open)
      /\ gets' = (IF was THEN Dropped(gets) ELSE gets)
      /\ wanted' = (IF was THEN None ELSE wanted)
  BY DEF Archive
<1> HIDE DEF to
<1>5. Write(t, to)
  BY <1>4 DEF Press
<1>6. rows' \in Pages
  BY <1>1, <1>4, WithoutIs DEF Shape
<1>7. gets' \in SUBSET Gets /\ Asked(gets', wanted')
  <2>1. Dropped(gets) \in SUBSET Gets /\ Asked(Dropped(gets), None)
    BY <1>1, DroppedGets DEF Shape
  <2> QED BY <1>1, <1>4, <2>1 DEF IInv, Shape
<1>8. open' \in Threads \cup {None}
  BY <1>1, <1>4 DEF Shape
<1>9. ASSUME ~owed', rows = Page(store, view)
      PROVE  rows' = Page(store', view)
  BY <1>1, <1>2, <1>4, <1>5, <1>9, RowGoes
<1> HIDE DEF was
<1>10. owed' \in BOOLEAN /\ (~owed' => ~owed /\ ~Loading(calls))
  BY <1>4 DEF Loading
<1> QED BY <1>2, <1>3, <1>4, <1>6, <1>7, <1>8, <1>9, <1>10, KeyKeeps

LEMMA SnoozeKeeps ==
  ASSUME IInv, NEW t \in Threads, Snooze(t)
  PROVE  IInv'
<1> DEFINE to == [store[t] EXCEPT !.at = "snoozed"]
<1>1. Shape
  BY DEF IInv
<1>2. to \in Row /\ to.at = "snoozed"
  BY <1>1, RowAt DEF Shape, Places
<1>3. Back("at", t, "inbox") \in Offers
  BY BackIs DEF Places, Views
<1>4. /\ Press("snooze", t, to, Back("at", t, "inbox"), FALSE)
      /\ t \in DOMAIN rows /\ rows' = Without(rows, t)
      /\ owed' = (owed \/ Loading(calls))
      /\ view' = view /\ searching' = searching /\ offer' = offer
      /\ open' = (IF open = t THEN None ELSE open)
      /\ gets' = gets /\ wanted' = wanted
  BY DEF Snooze
<1> HIDE DEF to
<1>5. Write(t, to) /\ to.at # view
  BY <1>1, <1>2, <1>4 DEF Press, Shape, Views
<1>6. rows' \in Pages
  BY <1>1, <1>4, WithoutIs DEF Shape
<1>7. gets' \in SUBSET Gets /\ Asked(gets', wanted')
  BY <1>1, <1>4 DEF IInv, Shape
<1>8. open' \in Threads \cup {None}
  BY <1>1, <1>4 DEF Shape
<1>9. ASSUME rows = Page(store, view)
      PROVE  rows' = Page(store', view)
  BY <1>1, <1>2, <1>4, <1>5, <1>9, RowGoes
<1>10. owed' \in BOOLEAN /\ (~owed' => ~owed /\ ~Loading(calls))
  BY <1>4 DEF Loading
<1> QED BY <1>2, <1>3, <1>4, <1>6, <1>7, <1>8, <1>9, <1>10, KeyKeeps

LEMMA MoveToInboxKeeps ==
  ASSUME IInv, NEW t \in Threads, MoveToInbox(t)
  PROVE  IInv'
<1> DEFINE to == [store[t] EXCEPT !.at = "inbox"]
<1>1. Shape
  BY DEF IInv
<1>2. to \in Row /\ to.at = "inbox"
  BY <1>1, RowAt DEF Shape, Places, Views
<1>3. Back("at", t, "archive") \in Offers
  BY BackIs DEF Places, Views
<1>4. /\ Press("moveToInbox", t, to, Back("at", t, "archive"), FALSE)
      /\ t \in DOMAIN rows /\ rows[t].at # "inbox"
      /\ rows' = (IF view = "archive" THEN Without(rows, t) ELSE [rows EXCEPT ![t].at = "inbox"])
      /\ owed' = (owed \/ Loading(calls))
      /\ view' = view /\ searching' = searching /\ offer' = offer
      /\ open' = open /\ gets' = gets /\ wanted' = wanted
  BY DEF MoveToInbox, paneVars
<1> HIDE DEF to
<1>5. Write(t, to)
  BY <1>4 DEF Press
<1>6. rows' \in Pages
  <2>1. Without(rows, t) \in Pages
    BY <1>1, WithoutIs DEF Shape
  <2>2. rows[t] \in Row
    BY <1>1, <1>4, PageShape DEF Shape
  <2>3. [rows[t] EXCEPT !.at = "inbox"] \in Row
    BY <2>2 DEF Row, Places, Views
  <2>4. [rows EXCEPT ![t].at = "inbox"] = [rows EXCEPT ![t] = [rows[t] EXCEPT !.at = "inbox"]]
    OBVIOUS
  <2>5. [rows EXCEPT ![t].at = "inbox"] \in Pages
    BY <1>1, <1>4, <2>3, <2>4, RowTyped DEF Shape
  <2> QED BY <1>4, <2>1, <2>5
<1>7. gets' \in SUBSET Gets /\ Asked(gets', wanted')
  BY <1>1, <1>4 DEF IInv, Shape
<1>8. open' \in Threads \cup {None}
  BY <1>1, <1>4 DEF Shape
<1>9. ASSUME rows = Page(store, view)
      PROVE  rows' = Page(store', view)
  <2>1. rows[t] = store[t] /\ store[t].at = view
    BY <1>1, <1>4, <1>9, RowsArePage
  <2>2. view = "archive"
    BY <1>1, <1>4, <2>1 DEF Shape, Views
  <2> QED BY <1>1, <1>2, <1>4, <1>5, <1>9, <2>2, RowGoes
<1>10. owed' \in BOOLEAN /\ (~owed' => ~owed /\ ~Loading(calls))
  BY <1>4 DEF Loading
<1> QED BY <1>2, <1>3, <1>4, <1>6, <1>7, <1>8, <1>9, <1>10, KeyKeeps

LEMMA Dots ==
  ASSUME NEW r \in Row, NEW b \in BOOLEAN
  PROVE  /\ [r EXCEPT !.unread = b] \in Row /\ [r EXCEPT !.unread = b].at = r.at
         /\ [r EXCEPT !.starred = b] \in Row /\ [r EXCEPT !.starred = b].at = r.at
         /\ r.unread \in BOOLEAN /\ r.starred \in BOOLEAN
BY DEF Row

LEMMA ToggleReadKeeps ==
  ASSUME IInv, NEW t \in Threads, ToggleRead(t)
  PROVE  IInv'
<1> DEFINE b == ~rows[t].unread
           to == [store[t] EXCEPT !.unread = b]
           too == [rows[t] EXCEPT !.unread = b]
<1>1. Shape /\ store[t] \in Row
  BY DEF IInv, Shape
<1>2. to \in Row /\ to.at = store[t].at
  BY <1>1, Dots
<1>3. NoOffer \in Offers
  BY DEF Offers
<1>4. /\ Press("markRead", t, to, NoOffer, FALSE)
      /\ t \in DOMAIN rows
      /\ rows' = [rows EXCEPT ![t] = too]
      /\ owed' = (owed \/ Loading(calls))
      /\ view' = view /\ searching' = searching /\ offer' = offer
      /\ open' = open /\ gets' = gets /\ wanted' = wanted
  BY DEF ToggleRead, paneVars
<1>5. rows[t] \in Row
  BY <1>1, <1>4, PageShape DEF Shape
<1>6. too \in Row
  BY <1>5, Dots
<1>7. rows[t] = store[t] => too = to
  OBVIOUS
<1> HIDE DEF to, too
<1>8. Write(t, to)
  BY <1>4 DEF Press
<1>9. rows' \in Pages
  BY <1>1, <1>4, <1>6, RowTyped DEF Shape
<1>10. gets' \in SUBSET Gets /\ Asked(gets', wanted')
  BY <1>1, <1>4 DEF IInv, Shape
<1>11. open' \in Threads \cup {None}
  BY <1>1, <1>4 DEF Shape
<1>12. ASSUME rows = Page(store, view)
       PROVE  rows' = Page(store', view)
  <2>1. rows[t] = store[t] /\ store[t].at = view
    BY <1>1, <1>4, <1>12, RowsArePage
  <2>2. too = to /\ to.at = view
    BY <1>2, <1>7, <2>1
  <2>3. [rows EXCEPT ![t] = to] = Page(store', view)
    BY <1>1, <1>2, <1>4, <1>8, <1>12, <2>2, RowChanges
  <2> QED BY <1>4, <2>2, <2>3
<1>13. owed' \in BOOLEAN /\ (~owed' => ~owed /\ ~Loading(calls))
  BY <1>4 DEF Loading
<1> QED BY <1>2, <1>3, <1>4, <1>9, <1>10, <1>11, <1>12, <1>13, KeyKeeps

LEMMA StarKeeps ==
  ASSUME IInv, NEW t \in Threads, Star(t)
  PROVE  IInv'
<1> DEFINE b == ~rows[t].starred
           to == [store[t] EXCEPT !.starred = b]
           too == [rows[t] EXCEPT !.starred = b]
<1>1. Shape /\ store[t] \in Row
  BY DEF IInv, Shape
<1>2. to \in Row /\ to.at = store[t].at
  BY <1>1, Dots
<1>3. /\ Press("star", t, to, Back("star", t, rows[t].starred), FALSE)
      /\ t \in DOMAIN rows
      /\ rows' = [rows EXCEPT ![t] = too]
      /\ owed' = (owed \/ Loading(calls))
      /\ view' = view /\ searching' = searching /\ offer' = offer
      /\ open' = open /\ gets' = gets /\ wanted' = wanted
  BY DEF Star, paneVars
<1>4. rows[t] \in Row
  BY <1>1, <1>3, PageShape DEF Shape
<1>5. too \in Row /\ rows[t].starred \in BOOLEAN
  BY <1>4, Dots
<1>6. Back("star", t, rows[t].starred) \in Offers
  BY <1>5, BackIs DEF Places
<1>7. rows[t] = store[t] => too = to
  OBVIOUS
<1> HIDE DEF to, too
<1>8. Write(t, to)
  BY <1>3 DEF Press
<1>9. rows' \in Pages
  BY <1>1, <1>3, <1>5, RowTyped DEF Shape
<1>10. gets' \in SUBSET Gets /\ Asked(gets', wanted')
  BY <1>1, <1>3 DEF IInv, Shape
<1>11. open' \in Threads \cup {None}
  BY <1>1, <1>3 DEF Shape
<1>12. ASSUME rows = Page(store, view)
       PROVE  rows' = Page(store', view)
  <2>1. rows[t] = store[t] /\ store[t].at = view
    BY <1>1, <1>3, <1>12, RowsArePage
  <2>2. too = to /\ to.at = view
    BY <1>2, <1>7, <2>1
  <2>3. [rows EXCEPT ![t] = to] = Page(store', view)
    BY <1>1, <1>2, <1>3, <1>8, <1>12, <2>2, RowChanges
  <2> QED BY <1>3, <2>2, <2>3
<1>13. owed' \in BOOLEAN /\ (~owed' => ~owed /\ ~Loading(calls))
  BY <1>3 DEF Loading
<1> QED BY <1>2, <1>3, <1>6, <1>9, <1>10, <1>11, <1>12, <1>13, KeyKeeps

-----------------------------------------------------------------------------
(* News, and taking back. *)

LEMMA SyncKeeps ==
  ASSUME IInv, NEW t \in Threads, NEW to \in FromGmail(t), SyncChanges(t, to)
  PROVE  IInv'
<1>1. Shape /\ store[t] \in Row
  BY DEF IInv, Shape
<1>2. to \in Row
  <2>1. ASSUME NEW p \in Places
        PROVE  [store[t] EXCEPT !.at = p] \in Row
    BY <1>1, <2>1, RowAt DEF Shape
  <2>2. \A b \in BOOLEAN : [store[t] EXCEPT !.unread = b] \in Row /\ [store[t] EXCEPT !.starred = b] \in Row
    BY <1>1, Dots
  <2>3. [store[t] EXCEPT !.unread = ~@] \in Row /\ [store[t] EXCEPT !.starred = ~@] \in Row
    BY <2>2
  <2> QED BY <2>1, <2>3 DEF FromGmail
<1>3. store' = [store EXCEPT ![t] = to] /\ calls' = Append(calls, Changed)
      /\ UNCHANGED <<view, rows, searching, owed, gets, open, wanted, offer>>
  BY DEF SyncChanges, listVars, paneVars
<1>4. store' \in [Threads -> Row]
  BY <1>1, <1>2, <1>3 DEF Shape
<1>5. Changed \in Call /\ News(Changed)
  BY DEF Changed, Call, Others, News
<1>6. calls \in Seq(Call)
  BY <1>1 DEF Shape
<1>7. calls' \in Seq(Call)
  BY <1>3, <1>5, <1>6, Appended
<1>8. Fresh(calls', store', view') /\ OfView(calls', store', view') /\ Comes(calls')
  BY <1>3, <1>5, <1>6, NewsAppended
<1>9. Shape'
  BY <1>1, <1>3, <1>4, <1>7 DEF Shape
<1>10. Asked(gets', wanted')
  BY <1>3 DEF IInv
<1>11. Single(calls')
  <2>1. ~IsList(Changed)
    BY DEF Changed, IsList, Lists
  <2> QED BY <1>3, <1>5, <1>6, <2>1, AppendKeeps DEF IInv
<1> QED BY <1>8, <1>9, <1>10, <1>11 DEF IInv, Right

LEMMA UndoKeeps ==
  ASSUME IInv, Undo
  PROVE  IInv'
<1> DEFINE t == offer.thread
           to == IF offer.kind = "at" THEN [store[t] EXCEPT !.at = offer.to]
                 ELSE [store[t] EXCEPT !.starred = offer.to]
           c == [kind |-> "undone", ok |-> store[t].at # "gone"]
<1>1. Shape
  BY DEF IInv
<1>2. /\ offer # NoOffer
      /\ Write(t, to) /\ calls' = Append(calls, c)
      /\ UNCHANGED <<view, rows, searching, owed, gets, open, wanted, offer>>
  BY DEF Undo, listVars, paneVars
<1>3. \/ offer \in [thread : Threads, kind : {"at"}, to : Places]
      \/ offer \in [thread : Threads, kind : {"star"}, to : BOOLEAN]
  BY <1>1, <1>2 DEF Shape, Offers
<1>4. t \in Threads /\ ((offer.kind = "at" /\ offer.to \in Places) \/ (offer.kind = "star" /\ offer.to \in BOOLEAN))
  BY <1>3
<1>5. store[t] \in Row
  BY <1>1, <1>4 DEF Shape
<1>6. to \in Row
  <2>1. CASE offer.kind = "at" /\ offer.to \in Places
    BY <1>1, <1>4, <2>1, RowAt DEF Shape
  <2>2. CASE offer.kind = "star" /\ offer.to \in BOOLEAN
    BY <1>5, <2>2, Dots
  <2> QED BY <1>4, <2>1, <2>2
<1>7. c \in Call /\ ~IsList(c) /\ (store[t].at # "gone" => News(c))
  <2>1. (store[t].at # "gone") \in BOOLEAN
    OBVIOUS
  <2>2. c \in [kind : {"undone"}, ok : BOOLEAN]
    BY <2>1
  <2>3. ~IsList(c)
    BY DEF IsList, Lists
  <2>4. store[t].at # "gone" => News(c)
    BY DEF News
  <2> QED BY <2>2, <2>3, <2>4 DEF Call, Others
<1> HIDE DEF c, to
<1>8. calls \in Seq(Call)
  BY <1>1 DEF Shape
<1>9. calls' \in Seq(Call) /\ (Comes(calls) => Comes(calls')) /\ (Loading(calls) => Loading(calls'))
  BY <1>2, <1>7, <1>8, Appended
<1>10. /\ store' \in [Threads -> Row]
       /\ store[t].at = "gone" => store' = store
  BY <1>1, <1>2, <1>4, <1>6, Written DEF Shape
<1>11. Single(calls')
  BY <1>2, <1>7, <1>8, AppendKeeps DEF IInv
<1>12. CASE store[t].at # "gone"
  <2>1. Fresh(calls', store', view') /\ OfView(calls', store', view') /\ Comes(calls')
    BY <1>2, <1>7, <1>8, <1>12, NewsAppended
  <2> QED BY <1>1, <1>2, <1>9, <1>10, <1>11, <2>1 DEF IInv, Shape, Right
<1>13. CASE store[t].at = "gone"
  <2>1. store' = store /\ view' = view /\ searching' = searching /\ owed' = owed /\ rows' = rows
    BY <1>2, <1>10, <1>13
  <2>2. /\ Fresh(calls, store, view) => Fresh(calls', store, view)
        /\ OfView(calls, store, view) => OfView(calls', store, view)
    BY <1>2, <1>7, <1>8, AppendKeeps
  <2>3. Right(rows, calls, store, view) => Right(rows, calls', store, view)
    BY <1>9 DEF Right
  <2>4. Shape' /\ Asked(gets', wanted')
    BY <1>1, <1>2, <1>9, <1>10 DEF IInv, Shape
  <2> QED BY <1>11, <2>1, <2>2, <2>3, <2>4 DEF IInv
<1> QED BY <1>12, <1>13

-----------------------------------------------------------------------------
(* The steps that leave the store and the view alone. *)

LEMMA StillKeeps ==
  ASSUME IInv, store' = store, view' = view, searching' = searching, rows' = rows, owed' = owed,
         offer' \in Offers, gets' \in SUBSET Gets, Asked(gets', wanted'), open' \in Threads \cup {None},
         calls' \in Seq(Call), Single(calls) => Single(calls'),
         ~searching /\ Fresh(calls, store, view) => Fresh(calls', store, view),
         OfView(calls, store, view) => OfView(calls', store, view),
         ~searching /\ (Comes(calls) \/ Loading(calls)) => Comes(calls') \/ Loading(calls')
  PROVE  IInv'
<1>1. Shape'
  BY DEF IInv, Shape
<1>2. ~searching' => Fresh(calls', store', view')
  BY DEF IInv
<1>3. OfView(calls', store', view')
  BY DEF IInv
<1>4. ~searching' /\ ~owed' => Right(rows', calls', store', view')
  BY DEF IInv, Right
<1>5. Single(calls')
  BY DEF IInv
<1> QED BY <1>1, <1>2, <1>3, <1>4, <1>5 DEF IInv

LEMMA UnadvancedKeeps ==
  ASSUME NEW cs \in Seq(Call), NEW st, NEW v
  PROVE  /\ Unadvanced(cs) \in Seq(Call)
         /\ Fresh(cs, st, v) => Fresh(Unadvanced(cs), st, v)
         /\ OfView(cs, st, v) => OfView(Unadvanced(cs), st, v)
         /\ Comes(cs) => Comes(Unadvanced(cs))
         /\ Single(cs) => Single(Unadvanced(cs))
         /\ Loading(cs) => Loading(Unadvanced(cs))
<1> DEFINE ds == Unadvanced(cs)
<1>1. AllMarked(cs, ds) /\ \A i \in DOMAIN cs : cs[i].kind # "act" => ds[i] = cs[i]
  BY UnadvancedMarks
<1> HIDE DEF ds
<1>2. /\ DOMAIN ds = DOMAIN cs /\ ds \in Seq(Call)
      /\ Fresh(cs, st, v) => Fresh(ds, st, v)
      /\ OfView(cs, st, v) => OfView(ds, st, v)
      /\ Comes(cs) => Comes(ds)
      /\ Single(cs) => Single(ds)
  BY <1>1, MarksKeep DEF AllMarked
<1>3. Loading(cs) => Loading(ds)
  BY <1>1, <1>2 DEF Loading, Lists
<1> QED BY <1>2, <1>3 DEF ds

LEMMA SetViewKeeps ==
  ASSUME IInv, NEW v \in Views, SetView(v)
  PROVE  IInv'
<1>1. Shape
  BY DEF IInv
<1>2. /\ view' = v /\ searching' = FALSE /\ open' = None /\ wanted' = None /\ gets' = Dropped(gets)
      /\ calls' = Load(v, FALSE, Unadvanced(calls))
      /\ UNCHANGED <<store, rows, offer, owed>>
  BY DEF SetView
<1>3. Unadvanced(calls) \in Seq(Call) /\ store \in [Threads -> Row]
  BY <1>1, UnadvancedKeeps DEF Shape
<1>4. /\ calls' \in Seq(Call)
      /\ Fresh(calls', store', view') /\ OfView(calls', store', view')
      /\ Loading(calls') /\ Single(calls')
  <2> DEFINE ds == Load(v, FALSE, Unadvanced(calls))
  <2>1. /\ ds \in Seq(Call)
        /\ Fresh(ds, store, v) /\ OfView(ds, store, v)
        /\ Loading(ds) /\ Single(ds)
    BY <1>3, LoadIsFresh
  <2> HIDE DEF ds
  <2>2. calls' = ds /\ view' = v /\ store' = store
    BY <1>2 DEF ds
  <2> QED BY <2>1, <2>2
<1>5. Dropped(gets) \in SUBSET Gets /\ Asked(Dropped(gets), None)
  BY <1>1, DroppedGets DEF Shape
<1>6. Shape'
  BY <1>1, <1>2, <1>4, <1>5 DEF Shape
<1>7. Asked(gets', wanted')
  BY <1>2, <1>5
<1> QED BY <1>4, <1>6, <1>7 DEF IInv, Right

LEMMA SearchKeeps ==
  ASSUME IInv, Search
  PROVE  IInv'
<1> DEFINE ds == Append(Stale(calls, {"search"}), Read("search", Found(store), FALSE))
<1>1. Shape
  BY DEF IInv
<1>2. calls' = ds /\ UNCHANGED <<store, view, rows, searching, gets, open, wanted, offer, owed>>
  BY DEF Search, paneVars
<1>3. calls \in Seq(Call) /\ store \in [Threads -> Row]
  BY <1>1 DEF Shape
<1>4. /\ ds \in Seq(Call)
      /\ Comes(calls) => Comes(ds)
      /\ Loading(calls) => Loading(ds)
      /\ Single(calls) => Single(ds)
      /\ Fresh(calls, store, view) => Fresh(ds, store, view)
      /\ OfView(calls, store, view) => OfView(ds, store, view)
  BY <1>3, SearchedAgain
<1> HIDE DEF ds
<1>5. offer' \in Offers /\ gets' \in SUBSET Gets /\ Asked(gets', wanted') /\ open' \in Threads \cup {None}
  BY <1>1, <1>2 DEF IInv, Shape
<1> QED BY <1>2, <1>4, <1>5, StillKeeps

LEMMA LeaveSearchKeeps ==
  ASSUME IInv, LeaveSearch
  PROVE  IInv'
<1> DEFINE cs == Stale(calls, {"search"})
<1>1. Shape
  BY DEF IInv
<1>2. /\ searching' = FALSE
      /\ calls' = (IF searching THEN Load(view, FALSE, cs) ELSE cs)
      /\ UNCHANGED <<store, view, rows, gets, open, wanted, offer, owed>>
  BY DEF LeaveSearch, paneVars
<1>3. calls \in Seq(Call) /\ store \in [Threads -> Row]
  BY <1>1 DEF Shape
<1>4. /\ AllMarked(calls, cs) /\ cs \in Seq(Call)
      /\ Loading(calls) => Loading(cs)
  BY <1>3, StaleSearch
<1>5. /\ Comes(calls) => Comes(cs)
      /\ Single(calls) => Single(cs)
      /\ Fresh(calls, store, view) => Fresh(cs, store, view)
      /\ OfView(calls, store, view) => OfView(cs, store, view)
  BY <1>3, <1>4, MarksKeep
<1> HIDE DEF cs
<1>6. offer' \in Offers /\ gets' \in SUBSET Gets /\ Asked(gets', wanted') /\ open' \in Threads \cup {None}
  BY <1>1, <1>2 DEF IInv, Shape
<1>7. CASE searching
  <2> DEFINE ds == Load(view, FALSE, cs)
  <2>1. /\ ds \in Seq(Call)
        /\ Fresh(ds, store, view) /\ OfView(ds, store, view)
        /\ Loading(ds) /\ Single(ds)
    BY <1>3, <1>4, LoadIsFresh
  <2> HIDE DEF ds
  <2>2. calls' = ds /\ view' = view /\ store' = store
    BY <1>2, <1>7 DEF ds
  <2>3. Shape'
    BY <1>1, <1>2, <1>6, <2>1, <2>2 DEF Shape
  <2> QED BY <1>6, <2>1, <2>2, <2>3 DEF IInv, Right
<1>8. CASE ~searching
  <2>1. calls' = cs /\ searching' = searching
    BY <1>1, <1>2, <1>8 DEF Shape
  <2> QED BY <1>2, <1>4, <1>5, <1>6, <2>1, StillKeeps
<1> QED BY <1>7, <1>8

LEMMA OpenThreadKeeps ==
  ASSUME IInv, NEW t \in Threads, OpenThread(t)
  PROVE  IInv'
<1>1. Shape /\ calls \in Seq(Call) /\ gets \in SUBSET Gets
  BY DEF IInv, Shape
<1>2. Open(t) /\ calls' = Unadvanced(calls) /\ UNCHANGED <<store, view, rows, searching, owed, offer>>
  BY DEF OpenThread, listVars
<1>3. gets' \in SUBSET Gets /\ Asked(gets', wanted') /\ open' = open
  BY <1>1, <1>2, Opened
<1>4. offer' \in Offers /\ open' \in Threads \cup {None}
  BY <1>1, <1>2, <1>3 DEF Shape
<1> QED BY <1>1, <1>2, <1>3, <1>4, UnadvancedKeeps, StillKeeps

LEMMA CloseThreadKeeps ==
  ASSUME IInv, CloseThread
  PROVE  IInv'
<1>1. Shape /\ calls \in Seq(Call) /\ gets \in SUBSET Gets
  BY DEF IInv, Shape
<1>2. /\ open' = None /\ wanted' = None /\ gets' = Dropped(gets)
      /\ calls' = Unadvanced(calls) /\ UNCHANGED <<store, view, rows, searching, owed, offer>>
  BY DEF CloseThread, listVars
<1>3. gets' \in SUBSET Gets /\ Asked(gets', wanted')
  BY <1>1, <1>2, DroppedGets
<1>4. offer' \in Offers /\ open' \in Threads \cup {None}
  BY <1>1, <1>2 DEF Shape
<1> QED BY <1>1, <1>2, <1>3, <1>4, UnadvancedKeeps, StillKeeps

-----------------------------------------------------------------------------
(* What lands. *)

LEMMA RenewKeeps ==
  ASSUME IInv, calls # <<>>, Head(calls).kind \notin Lists,
         calls' = Load(view, searching, Tail(calls)),
         store' = store, view' = view, searching' = searching, rows' = rows, owed' = owed,
         offer' \in Offers, gets' \in SUBSET Gets, Asked(gets', wanted'), open' \in Threads \cup {None}
  PROVE  IInv'
<1>1. Shape /\ calls \in Seq(Call) /\ store \in [Threads -> Row]
  BY DEF IInv, Shape
<1>2. Tail(calls) \in Seq(Call) /\ Single(Tail(calls))
  BY <1>1, Tailed, TailKeeps DEF IInv
<1>3. CASE searching
  <2> DEFINE ds == SearchAgain(Tail(calls))
  <2>1. ds \in Seq(Call) /\ OfView(ds, store, view)
    BY <1>1, SearchFollows DEF IInv
  <2>2. Single(ds)
    BY <1>1, <1>2, SearchedAgain DEF SearchAgain
  <2> HIDE DEF ds
  <2>3. calls' = ds
    BY <1>3 DEF Load, ds
  <2>4. Shape'
    BY <1>1, <2>1, <2>3 DEF Shape
  <2> QED BY <1>3, <2>1, <2>2, <2>3, <2>4 DEF IInv
<1>4. CASE ~searching
  <2> DEFINE ds == Load(view, FALSE, Tail(calls))
  <2>1. /\ ds \in Seq(Call)
        /\ Fresh(ds, store, view) /\ OfView(ds, store, view)
        /\ Loading(ds) /\ Single(ds)
    BY <1>1, <1>2, LoadIsFresh
  <2> HIDE DEF ds
  <2>2. calls' = ds
    BY <1>1, <1>4 DEF ds, Load
  <2>3. Shape'
    BY <1>1, <2>1, <2>2 DEF Shape
  <2> QED BY <1>4, <2>1, <2>2, <2>3 DEF IInv, Right
<1> QED BY <1>3, <1>4

LEMMA ChangedLandsKeeps ==
  ASSUME IInv, calls # <<>>, ChangedLands(Head(calls), Tail(calls)), UNCHANGED <<store, counted>>
  PROVE  IInv'
<1>1. Shape
  BY DEF IInv
<1>2. /\ Head(calls).kind = "changed" /\ calls' = Load(view, searching, Tail(calls))
      /\ gets' = RefreshOpen(gets)
      /\ UNCHANGED <<store, view, rows, searching, owed, open, wanted, offer>>
  BY DEF ChangedLands, listVars
<1>3. gets' \in SUBSET Gets /\ Asked(gets', wanted')
  BY <1>1, <1>2, Refreshed DEF IInv, Shape
<1>4. offer' \in Offers /\ open' \in Threads \cup {None} /\ Head(calls).kind \notin Lists
  BY <1>1, <1>2 DEF Shape, Lists
<1> QED BY <1>2, <1>3, <1>4, RenewKeeps

(* A call that is answered and has nothing read again. *)
LEMMA PassedKeeps ==
  ASSUME IInv, calls # <<>>, ~Renews(Head(calls)), ~IsList(Head(calls)),
         NEW cs, cs = Tail(calls)
  PROVE  /\ cs \in Seq(Call)
         /\ Fresh(calls, store, view) => Fresh(cs, store, view)
         /\ OfView(cs, store, view) /\ Single(cs)
         /\ Comes(calls) \/ Loading(calls) => Comes(cs) \/ Loading(cs)
<1>1. calls \in Seq(Call)
  BY DEF IInv, Shape
<1>2. ~News(Head(calls))
  BY DEF Renews
<1>3. cs \in Seq(Call)
  BY <1>1, Tailed
<1>4. /\ Comes(calls) => Comes(cs)
      /\ Loading(calls) => Loading(cs)
      /\ Single(calls) => Single(cs)
      /\ Fresh(calls, store, view) => Fresh(cs, store, view)
      /\ OfView(calls, store, view) => OfView(cs, store, view)
  BY <1>1, <1>2, TailKeeps
<1> QED BY <1>3, <1>4 DEF IInv

LEMMA ListLandsKeeps ==
  ASSUME IInv, calls # <<>>, ListLands(Head(calls), Tail(calls)), UNCHANGED <<store, counted>>
  PROVE  IInv'
<1> DEFINE c == Head(calls)
           d == [c EXCEPT !.kind = "counts"]
           cs == Tail(calls)
           ds == Append(cs, d)
<1>1. Shape /\ calls \in Seq(Call)
  BY DEF IInv, Shape
<1>2. /\ c.kind = "list" /\ calls' = ds
      /\ UNCHANGED <<store, view, rows, searching, owed, gets, open, wanted, offer>>
  BY DEF ListLands, listVars, paneVars
<1>3. c \in Call /\ cs \in Seq(Call) /\ c = calls[1] /\ 1 \in DOMAIN calls
  BY <1>1, Tailed
<1>4. c \in Reads
  BY <1>2, <1>3, Kinds
<1>5. d \in Reads /\ d.kind = "counts" /\ d.page = c.page /\ d.live = c.live /\ d.behind = c.behind
  BY <1>4 DEF Reads
<1> HIDE DEF c, d, cs
<1>6. d \in Call /\ (IsList(d) <=> IsList(c)) /\ ~Renews(c) /\ ~News(c)
  BY <1>2, <1>5 DEF Call, IsList, Lists, Renews, News
<1>7. /\ Comes(calls) => Comes(cs)
      /\ Fresh(calls, store, view) => Fresh(cs, store, view)
      /\ OfView(calls, store, view) => OfView(cs, store, view)
      /\ Single(calls) => Single(cs) /\ (IsList(c) => ~Loading(cs))
      /\ ~IsList(c) /\ Loading(calls) => Loading(cs)
  BY <1>1, <1>6, TailKeeps DEF c, cs
<1>8. /\ ds \in Seq(Call)
      /\ DOMAIN ds = DOMAIN cs \cup {Len(cs) + 1}
      /\ \A i \in DOMAIN cs : ds[i] = cs[i]
      /\ ds[Len(cs) + 1] = d
      /\ Comes(cs) => Comes(ds)
      /\ Loading(cs) \/ IsList(d) => Loading(ds)
  BY <1>3, <1>6, Appended
<1>9. Single(ds)
  BY <1>3, <1>6, <1>7, AppendKeeps DEF IInv
<1>10. Fresh(calls, store, view) => Fresh(ds, store, view)
  <2> SUFFICES ASSUME Fresh(calls, store, view) PROVE Fresh(ds, store, view)
    OBVIOUS
  <2>1. CASE Comes(calls)
    BY <1>7, <1>8, <2>1 DEF Fresh
  <2>2. CASE ~Comes(calls)
    <3>1. IsList(d) /\ ~d.behind => d.page = Page(store, view)
      BY <1>3, <1>5, <1>6, <2>2 DEF Fresh
    <3> QED BY <1>3, <1>6, <1>7, <3>1, AppendKeeps
  <2> QED BY <2>1, <2>2
<1>11. OfView(ds, store, view)
  <2>1. CASE IsList(c) /\ Follows(calls, 1)
    <3>1. PICK j \in DOMAIN calls : j > 1 /\ News(calls[j])
      BY <1>2, <1>3, <2>1 DEF Follows
    <3>2. j - 1 \in DOMAIN cs /\ calls[j] = cs[j - 1]
      BY <1>1, <3>1, Tailed DEF cs
    <3>3. j - 1 \in DOMAIN ds /\ News(ds[j - 1])
      BY <1>8, <3>1, <3>2
    <3> HIDE DEF ds
    <3>4. Follows(ds, Len(cs) + 1)
      BY <1>5, <1>8, <3>3 DEF Follows
    <3>5. \A i \in DOMAIN cs : ~IsList(ds[i])
      BY <1>7, <1>8, <2>1 DEF IInv, Loading, IsList
    <3> QED BY <1>8, <3>4, <3>5 DEF OfView
  <2>2. CASE ~(IsList(c) /\ Follows(calls, 1))
    <3>1. IsList(d) => \A t \in DOMAIN d.page : store[t].at = view
      BY <1>3, <1>5, <1>6, <2>2 DEF IInv, OfView
    <3> QED BY <1>3, <1>6, <1>7, <3>1, AppendKeeps DEF IInv
  <2> QED BY <2>1, <2>2
<1>12. Comes(calls) \/ Loading(calls) => Comes(ds) \/ Loading(ds)
  BY <1>6, <1>7, <1>8
<1>13. offer' \in Offers /\ gets' \in SUBSET Gets /\ Asked(gets', wanted') /\ open' \in Threads \cup {None}
  BY <1>1, <1>2 DEF IInv, Shape
<1> HIDE DEF ds
<1> QED BY <1>2, <1>8, <1>9, <1>10, <1>11, <1>12, <1>13, StillKeeps

LEMMA CountsLandKeeps ==
  ASSUME IInv, calls # <<>>, CountsLand(Head(calls), Tail(calls)), UNCHANGED <<store, counted>>
  PROVE  IInv'
<1> DEFINE c == Head(calls)
           cs == Tail(calls)
<1>1. Shape /\ calls \in Seq(Call)
  BY DEF IInv, Shape
<1>2. /\ c.kind = "counts" /\ calls' = cs
      /\ UNCHANGED <<store, view, gets, open, wanted, offer>>
  BY DEF CountsLand, paneVars
<1>3. c \in Call /\ cs \in Seq(Call) /\ c = calls[1] /\ 1 \in DOMAIN calls
  BY <1>1, Tailed
<1>4. c \in Reads
  BY <1>2, <1>3, Kinds
<1>5. ~Renews(c) /\ ~News(c)
  BY <1>2 DEF Renews, News
<1>6. gets' \in SUBSET Gets /\ Asked(gets', wanted')
  BY <1>1, <1>2 DEF IInv, Shape
<1>7. offer' \in Offers /\ open' \in Threads \cup {None}
  BY <1>1, <1>2 DEF Shape
<1>8. /\ Comes(calls) => Comes(cs)
      /\ Fresh(calls, store, view) => Fresh(cs, store, view)
      /\ OfView(cs, store, view)
      /\ Single(cs) /\ (IsList(c) => ~Loading(cs))
  BY <1>1, <1>5, TailKeeps DEF IInv
<1>9. CASE ~c.live
  <2>1. UNCHANGED <<rows, searching, owed>>
    BY <1>9 DEF CountsLand, Newest
  <2>2. ~IsList(c)
    BY <1>9 DEF IsList
  <2> HIDE DEF c, cs
  <2>3. Comes(calls) \/ Loading(calls) => Comes(cs) \/ Loading(cs)
    BY <1>5, <2>2, PassedKeeps DEF c, cs
  <2> QED BY <1>2, <1>3, <1>6, <1>7, <1>8, <2>1, <2>3, StillKeeps
<1>10. CASE c.live
  <2>1. rows' = c.page /\ searching' = FALSE /\ owed' = (searching \/ c.behind)
    BY <1>10 DEF CountsLand, Newest
  <2>2. IsList(c)
    BY <1>2, <1>10 DEF IsList, Lists
  <2>3. c.page \in Pages /\ c.behind \in BOOLEAN
    BY <1>4 DEF Reads
  <2> HIDE DEF c, cs
  <2>4. Shape'
    BY <1>1, <1>2, <1>3, <1>6, <1>7, <2>1, <2>3 DEF Shape
  <2>5. Fresh(cs, store, view)
    BY <1>8, <2>2 DEF Fresh, Loading, IsList
  <2>6. ASSUME ~owed'
        PROVE  Right(rows', cs, store, view)
    <3>1. ~searching /\ ~c.behind
      BY <1>1, <2>1, <2>6 DEF Shape
    <3>2. c.page = Page(store, view) \/ Comes(calls)
      BY <1>3, <2>2, <3>1 DEF IInv, Fresh
    <3> QED BY <1>8, <2>1, <3>2 DEF Right
  <2> QED BY <1>2, <1>6, <1>8, <2>4, <2>5, <2>6 DEF IInv
<1>11. c.live \in BOOLEAN
  BY <1>4 DEF Reads
<1> QED BY <1>9, <1>10, <1>11

LEMMA SearchLandsKeeps ==
  ASSUME IInv, calls # <<>>, SearchLands(Head(calls), Tail(calls)), UNCHANGED <<store, counted>>
  PROVE  IInv'
<1> DEFINE c == Head(calls)
           cs == Tail(calls)
<1>1. Shape /\ calls \in Seq(Call)
  BY DEF IInv, Shape
<1>2. /\ c.kind = "search" /\ calls' = cs
      /\ UNCHANGED <<store, view, owed, gets, wanted, offer>>
      /\ open' \in {open, None}
  BY DEF SearchLands
<1>3. c \in Reads
  BY <1>1, <1>2, Tailed, Kinds
<1>4. ~Renews(c) /\ ~IsList(c)
  BY <1>2 DEF Renews, News, IsList, Lists
<1>5. /\ cs \in Seq(Call)
      /\ Fresh(calls, store, view) => Fresh(cs, store, view)
      /\ OfView(cs, store, view) /\ Single(cs)
      /\ Comes(calls) \/ Loading(calls) => Comes(cs) \/ Loading(cs)
  BY <1>4, PassedKeeps
<1>6. gets' \in SUBSET Gets /\ Asked(gets', wanted')
  BY <1>1, <1>2 DEF IInv, Shape
<1>7. offer' \in Offers /\ open' \in Threads \cup {None}
  BY <1>1, <1>2 DEF Shape
<1>8. CASE ~c.live
  <2>1. UNCHANGED <<rows, searching>>
    BY <1>8 DEF SearchLands, Newest
  <2> HIDE DEF c, cs
  <2> QED BY <1>2, <1>5, <1>6, <1>7, <2>1, StillKeeps
<1>9. CASE c.live
  <2>1. rows' = c.page /\ searching' = TRUE
    BY <1>9 DEF SearchLands, Newest
  <2>2. c.page \in Pages
    BY <1>3 DEF Reads
  <2> HIDE DEF c, cs
  <2>3. Shape'
    BY <1>1, <1>2, <1>5, <1>6, <1>7, <2>1, <2>2 DEF Shape
  <2> QED BY <1>2, <1>5, <1>6, <2>1, <2>3 DEF IInv
<1> QED BY <1>8, <1>9

LEMMA ActLandsKeeps ==
  ASSUME IInv, calls # <<>>, ActLands(Head(calls), Tail(calls)), UNCHANGED <<store, counted>>
  PROVE  IInv'
<1> DEFINE c == Head(calls)
           cs == Tail(calls)
<1>1. Shape /\ calls \in Seq(Call)
  BY DEF IInv, Shape
<1>2. /\ c.kind = "act" /\ offer' = (IF ~c.ok THEN offer ELSE c.undo)
      /\ UNCHANGED <<store, view, rows, searching, query, owed>>
  BY DEF ActLands, listVars
<1>3. c \in Acts
  BY <1>1, <1>2, Tailed, Kinds
<1>4. c.undo \in Offers /\ c.ok \in BOOLEAN /\ c.reloads \in BOOLEAN /\ c.advance \in BOOLEAN
  BY <1>3 DEF Acts
<1>5. offer' \in Offers
  BY <1>1, <1>2, <1>4 DEF Shape
<1>6. ~IsList(c) /\ c.kind \notin Lists
  BY <1>2 DEF IsList, Lists
<1>7. CASE c.ok /\ c.advance /\ rows # <<>>
  <2>1. PICK t \in DOMAIN rows : Open(t) /\ calls' = Unadvanced(cs)
    BY <1>7 DEF ActLands
  <2>2. t \in Threads
    BY <1>1, PageShape DEF Shape
  <2>3. gets' \in SUBSET Gets /\ Asked(gets', wanted') /\ open' = open
    BY <1>1, <2>1, <2>2, Opened DEF Shape
  <2>4. ~Renews(c)
    BY <1>2, <1>7 DEF Renews, News
  <2>5. /\ cs \in Seq(Call)
        /\ Fresh(calls, store, view) => Fresh(cs, store, view)
        /\ OfView(cs, store, view) /\ Single(cs)
        /\ Comes(calls) \/ Loading(calls) => Comes(cs) \/ Loading(cs)
    BY <1>6, <2>4, PassedKeeps
  <2>6. open' \in Threads \cup {None}
    BY <1>1, <2>3 DEF Shape
  <2> DEFINE ds == Unadvanced(cs)
  <2>7. /\ ds \in Seq(Call)
        /\ Fresh(cs, store, view) => Fresh(ds, store, view)
        /\ OfView(cs, store, view) => OfView(ds, store, view)
        /\ Comes(cs) => Comes(ds)
        /\ Single(cs) => Single(ds)
        /\ Loading(cs) => Loading(ds)
    BY <2>5, UnadvancedKeeps
  <2> HIDE DEF c, cs, ds
  <2>8. calls' = ds
    BY <2>1 DEF ds
  <2> QED BY <1>2, <1>5, <2>3, <2>5, <2>6, <2>7, <2>8, StillKeeps
<1>8. CASE ~(c.ok /\ c.advance /\ rows # <<>>)
  <2>1. /\ calls' = (IF ~c.ok /\ c.reloads THEN Load(view, searching, cs) ELSE cs)
        /\ UNCHANGED <<gets, open, wanted>>
    BY <1>8 DEF ActLands, paneVars
  <2>2. gets' \in SUBSET Gets /\ Asked(gets', wanted') /\ open' \in Threads \cup {None}
    BY <1>1, <2>1 DEF IInv, Shape
  <2>3. CASE ~c.ok /\ c.reloads
    BY <1>2, <1>5, <1>6, <2>1, <2>2, <2>3, RenewKeeps
  <2>4. CASE ~(~c.ok /\ c.reloads)
    <3>1. ~Renews(c) /\ calls' = cs
      BY <1>2, <2>1, <2>4 DEF Renews, News
    <3>2. /\ cs \in Seq(Call)
          /\ Fresh(calls, store, view) => Fresh(cs, store, view)
          /\ OfView(cs, store, view) /\ Single(cs)
          /\ Comes(calls) \/ Loading(calls) => Comes(cs) \/ Loading(cs)
      BY <1>6, <3>1, PassedKeeps
    <3> HIDE DEF c, cs
    <3> QED BY <1>2, <1>5, <2>2, <3>1, <3>2, StillKeeps
  <2> QED BY <2>3, <2>4
<1> QED BY <1>7, <1>8

LEMMA UndoneLandsKeeps ==
  ASSUME IInv, calls # <<>>, UndoneLands(Head(calls), Tail(calls)), UNCHANGED <<store, counted>>
  PROVE  IInv'
<1> DEFINE c == Head(calls)
           cs == Tail(calls)
<1>1. Shape
  BY DEF IInv
<1>2. /\ c.kind = "undone" /\ offer' = NoOffer
      /\ calls' = (IF c.ok THEN Load(view, searching, cs) ELSE cs)
      /\ gets' = (IF c.ok THEN RefreshOpen(gets) ELSE gets)
      /\ UNCHANGED <<store, view, rows, searching, owed, open, wanted>>
  BY DEF UndoneLands, listVars
<1>3. offer' \in Offers /\ open' \in Threads \cup {None}
  BY <1>1, <1>2 DEF Shape, Offers
<1>4. RefreshOpen(gets) \in SUBSET Gets /\ Asked(RefreshOpen(gets), wanted)
  BY <1>1, Refreshed DEF IInv, Shape
<1>5. gets' \in SUBSET Gets /\ Asked(gets', wanted')
  BY <1>1, <1>2, <1>4 DEF IInv, Shape
<1>6. ~IsList(c) /\ c.kind \notin Lists
  BY <1>2 DEF IsList, Lists
<1>7. CASE c.ok
  BY <1>2, <1>3, <1>5, <1>6, <1>7, RenewKeeps
<1>8. CASE ~c.ok
  <2>1. ~Renews(c) /\ calls' = cs
    BY <1>2, <1>8 DEF Renews, News
  <2>2. /\ cs \in Seq(Call)
        /\ Fresh(calls, store, view) => Fresh(cs, store, view)
        /\ OfView(cs, store, view) /\ Single(cs)
        /\ Comes(calls) \/ Loading(calls) => Comes(cs) \/ Loading(cs)
    BY <1>6, <2>1, PassedKeeps
  <2> HIDE DEF c, cs
  <2> QED BY <1>2, <1>3, <1>5, <2>1, <2>2, StillKeeps
<1> QED BY <1>7, <1>8

LEMMA OpenLandsKeeps ==
  ASSUME IInv, NEW g \in gets, OpenLands(g)
  PROVE  IInv'
<1> DEFINE t == g.thread
           to == [store[t] EXCEPT !.unread = FALSE]
           too == [rows[t] EXCEPT !.unread = FALSE]
<1>1. Shape /\ calls \in Seq(Call) /\ gets \in SUBSET Gets
  BY DEF IInv, Shape
<1>2. /\ gets' = gets \ {g}
      /\ open' \in {open, g.thread}
      /\ UNCHANGED <<view, searching, owed, wanted, offer>>
      /\ \/ UNCHANGED <<store, rows, calls>>
         \/ /\ t \in DOMAIN rows /\ Write(t, to)
            /\ rows' = [rows EXCEPT ![t] = too] /\ calls' = Behind(calls)
  BY DEF OpenLands
<1>3. t \in Threads
  BY <1>1 DEF Gets
<1>4. gets' \in SUBSET Gets /\ Asked(gets', wanted') /\ open' \in Threads \cup {None} /\ offer' \in Offers
  BY <1>1, <1>2, <1>3 DEF IInv, Shape, Asked
<1>5. CASE UNCHANGED <<store, rows, calls>>
  BY <1>1, <1>2, <1>4, <1>5, StillKeeps
<1>6. CASE /\ t \in DOMAIN rows /\ Write(t, to)
           /\ rows' = [rows EXCEPT ![t] = too] /\ calls' = Behind(calls)
  <2>1. store[t] \in Row /\ rows[t] \in Row /\ store \in [Threads -> Row]
    BY <1>1, <1>3, <1>6, PageShape DEF Shape
  <2>2. to \in Row /\ to.at = store[t].at /\ too \in Row
    BY <2>1, Dots
  <2>3. rows[t] = store[t] => too = to
    OBVIOUS
  <2> HIDE DEF to, too
  <2>4. /\ store' \in [Threads -> Row]
        /\ \A u \in Threads : store'[u].at = store[u].at
    <3>1. /\ store' \in [Threads -> Row]
          /\ store[t].at # "gone" => store'[t] = to
          /\ store[t].at = "gone" => store' = store
          /\ \A u \in Threads : u # t => store'[u] = store[u]
      BY <1>3, <1>6, <2>1, <2>2, Written
    <3> QED BY <2>2, <3>1
  <2>5. rows' \in Pages
    BY <1>1, <1>6, <2>2, RowTyped DEF Shape
  <2> DEFINE ds == Behind(calls)
  <2>6. /\ AllMarked(calls, ds)
        /\ \A i \in DOMAIN calls : /\ calls[i].kind \in Lists => ds[i].behind
                                   /\ calls[i].kind \in Lists => ds[i].live = calls[i].live
    BY <1>1, BehindMarks
  <2> HIDE DEF ds
  <2>7. /\ DOMAIN ds = DOMAIN calls /\ ds \in Seq(Call)
        /\ Comes(calls) => Comes(ds)
        /\ Single(calls) => Single(ds)
        /\ OfView(calls, store, view) => OfView(ds, store, view)
    BY <1>1, <2>6, MarksKeep DEF AllMarked
  <2>8. \A i \in DOMAIN calls : ds[i].kind = calls[i].kind
    BY <2>6 DEF AllMarked, Marked
  <2>9. Loading(calls) => Loading(ds)
    BY <2>6, <2>7, <2>8 DEF Loading
  <2>10. Fresh(ds, store', view)
    BY <2>6, <2>7, <2>8 DEF Fresh, IsList
  <2>11. OfView(ds, store', view)
    <3>1. ASSUME NEW i \in DOMAIN ds, IsList(ds[i])
          PROVE  DOMAIN ds[i].page \subseteq Threads
      <4>1. ds[i] \in Call
        BY <2>7, At
      <4>2. ds[i] \in Reads
        BY <3>1, <4>1, Kinds DEF IsList, Lists
      <4> QED BY <4>2, ReadIs, PageShape
    <3>2. OfView(ds, store, view)
      BY <2>7 DEF IInv
    <3> QED BY <2>4, <3>1, <3>2 DEF OfView
  <2>12. calls' = ds
    BY <1>6 DEF ds
  <2>13. ASSUME ~searching', ~owed'
         PROVE  Right(rows', ds, store', view)
    <3>1. CASE rows = Page(store, view)
      <4>1. rows[t] = store[t] /\ store[t].at = view
        BY <1>1, <1>6, <3>1, RowsArePage
      <4>2. too = to /\ to.at = view
        BY <2>2, <2>3, <4>1
      <4>3. [rows EXCEPT ![t] = to] = Page(store', view)
        BY <1>1, <1>6, <2>2, <3>1, <4>2, RowChanges
      <4> QED BY <1>6, <4>2, <4>3 DEF Right
    <3>2. CASE Comes(calls) \/ Loading(calls)
      BY <2>7, <2>9, <3>2 DEF Right
    <3> QED BY <1>2, <2>13, <3>1, <3>2 DEF IInv, Right
  <2>14. Shape'
    BY <1>1, <1>2, <1>4, <2>4, <2>5, <2>7, <2>12 DEF Shape
  <2> QED BY <1>2, <1>4, <2>7, <2>10, <2>11, <2>12, <2>13, <2>14 DEF IInv
<1> QED BY <1>2, <1>5, <1>6

LEMMA RefreshLandsKeeps ==
  ASSUME IInv, NEW g \in gets, RefreshLands(g)
  PROVE  IInv'
<1>1. Shape /\ calls \in Seq(Call) /\ gets \in SUBSET Gets
  BY DEF IInv, Shape
<1>2. UNCHANGED <<store, view, rows, searching, owed, offer>>
  BY DEF RefreshLands, listVars
<1>3. gets \ {g} \in SUBSET Gets
  BY <1>1
<1>4. offer' \in Offers
  BY <1>1, <1>2 DEF Shape
<1>5. CASE /\ open' = None /\ wanted' = None
           /\ gets' = Dropped(gets \ {g}) /\ calls' = Unadvanced(calls)
  <2>1. gets' \in SUBSET Gets /\ Asked(gets', wanted') /\ open' \in Threads \cup {None}
    BY <1>3, <1>5, DroppedGets
  <2> QED BY <1>1, <1>2, <1>4, <1>5, <2>1, UnadvancedKeeps, StillKeeps
<1>6. CASE gets' = gets \ {g} /\ UNCHANGED <<open, wanted, calls>>
  <2>1. gets' \in SUBSET Gets /\ Asked(gets', wanted') /\ open' \in Threads \cup {None}
    BY <1>1, <1>3, <1>6 DEF IInv, Shape, Asked
  <2> QED BY <1>1, <1>2, <1>4, <1>6, <2>1, StillKeeps
<1> QED BY <1>5, <1>6 DEF RefreshLands

-----------------------------------------------------------------------------

LEMMA InitHolds ==
  ASSUME Init
  PROVE  IInv
<1>1. store \in [Threads -> Row]
  BY DEF Init, Row, Places
<1>2. view \in Views /\ searching \in BOOLEAN /\ owed \in BOOLEAN /\ open \in Threads \cup {None}
      /\ gets \in SUBSET Gets
  BY DEF Init, Views
<1>3. rows \in Pages
  BY <1>1, PageIs DEF Init
<1>4. offer \in Offers
  BY DEF Init, Offers
<1>5. calls \in Seq(Call) /\ DOMAIN calls = {}
  BY DEF Init
<1>6. Shape
  BY <1>1, <1>2, <1>3, <1>4, <1>5 DEF Shape
<1>7. Fresh(calls, store, view) /\ OfView(calls, store, view) /\ Single(calls)
  BY <1>5 DEF Fresh, OfView, Single
<1>8. rows = Page(store, view) /\ Asked(gets, wanted)
  BY DEF Init, Asked
<1> QED BY <1>6, <1>7, <1>8 DEF IInv, Right

LEMMA NextKeeps ==
  ASSUME IInv, Next
  PROVE  IInv'
<1>1. ASSUME NEW t \in Threads, NEW to \in FromGmail(t), SyncChanges(t, to)
      PROVE  IInv'
  BY <1>1, SyncKeeps
<1>2. ASSUME NEW t \in Threads, Archive(t) \/ Snooze(t) \/ MoveToInbox(t) \/ OpenThread(t)
      PROVE  IInv'
  BY <1>2, ArchiveKeeps, SnoozeKeeps, MoveToInboxKeeps, OpenThreadKeeps
<1>3. ASSUME NEW t \in Threads, ToggleRead(t) \/ Star(t)
      PROVE  IInv'
  BY <1>3, ToggleReadKeeps, StarKeeps
<1>4. ASSUME NEW v \in Views, SetView(v)
      PROVE  IInv'
  BY <1>4, SetViewKeeps
<1>5. ASSUME NEW g \in gets, OpenLands(g) \/ RefreshLands(g)
      PROVE  IInv'
  BY <1>5, OpenLandsKeeps, RefreshLandsKeeps
<1>6. CASE Lands
  BY <1>6, ChangedLandsKeeps, ListLandsKeeps, CountsLandKeeps, SearchLandsKeeps, ActLandsKeeps,
     UndoneLandsKeeps DEF Lands
<1>7. CASE Undo \/ Search \/ LeaveSearch \/ CloseThread
  BY <1>7, UndoKeeps, SearchKeeps, LeaveSearchKeeps, CloseThreadKeeps
<1> QED BY <1>1, <1>2, <1>3, <1>4, <1>5, <1>6, <1>7 DEF Next

LEMMA StutterKeeps ==
  ASSUME IInv, UNCHANGED vars
  PROVE  IInv'
BY DEF IInv, Shape, Asked, Fresh, Right, OfView, Follows, Single, Comes, Loading, Page, Restrict, vars, listVars, paneVars

(* The calls on their way, the page on screen and the opening that was     *)
(* asked for stay in step with the store, through every order in which     *)
(* answers, keys, searches and news fall.                                  *)
THEOREM Invariance == Spec => []IInv
<1>1. Init => IInv
  BY InitHolds
<1>2. IInv /\ [Next]_vars => IInv'
  BY NextKeeps, StutterKeeps
<1> QED BY <1>1, <1>2, PTL DEF Spec

(* Once everything is answered the list is what the store holds for the    *)
(* view, but for the reads the code is known to drop (loadThreads,         *)
(* invalidateThreadList).                                                  *)
THEOREM ListAgrees == Spec => []Agrees
<1>1. IInv => Agrees
  <2> SUFFICES ASSUME IInv, calls = <<>>, ~searching, ~owed PROVE rows = Page(store, view)
    BY DEF Agrees
  <2>1. DOMAIN calls = {}
    OBVIOUS
  <2> QED BY <2>1 DEF IInv, Right, Comes, Loading
<1> QED BY <1>1, Invariance, PTL

LEMMA RowsFew ==
  ASSUME IInv,
         \/ \E t \in Threads : \E to \in FromGmail(t) : SyncChanges(t, to)
         \/ \E t \in Threads : Archive(t) \/ Snooze(t) \/ MoveToInbox(t) \/ OpenThread(t)
         \/ \E t \in Threads : ToggleRead(t) \/ Star(t)
         \/ Undo
         \/ \E v \in Views : SetView(v)
         \/ Search \/ LeaveSearch \/ CloseThread
         \/ \E g \in gets : OpenLands(g) \/ RefreshLands(g)
         \/ UNCHANGED vars
  PROVE  DOMAIN rows' \subseteq DOMAIN rows
<1>1. rows \in Pages
  BY DEF IInv, Shape
<1>2. \A t : DOMAIN Without(rows, t) \subseteq DOMAIN rows
  BY <1>1, WithoutIs
<1>3. \A t, r : DOMAIN [rows EXCEPT ![t] = r] = DOMAIN rows
  OBVIOUS
<1>4. ASSUME NEW t \in Threads, Archive(t) \/ Snooze(t)
      PROVE  DOMAIN rows' \subseteq DOMAIN rows
  BY <1>2, <1>4 DEF Archive, Snooze
<1>5. ASSUME NEW t \in Threads, MoveToInbox(t)
      PROVE  DOMAIN rows' \subseteq DOMAIN rows
  BY <1>2, <1>3, <1>5 DEF MoveToInbox
<1>6. ASSUME NEW t \in Threads, ToggleRead(t) \/ Star(t)
      PROVE  DOMAIN rows' \subseteq DOMAIN rows
  BY <1>3, <1>6 DEF ToggleRead, Star
<1>7. ASSUME NEW g \in gets, OpenLands(g)
      PROVE  DOMAIN rows' \subseteq DOMAIN rows
  BY <1>3, <1>7 DEF OpenLands
<1>8. ASSUME \/ \E t \in Threads : \E to \in FromGmail(t) : SyncChanges(t, to)
             \/ \E t \in Threads : OpenThread(t)
             \/ Undo
             \/ \E v \in Views : SetView(v)
             \/ Search \/ LeaveSearch \/ CloseThread
             \/ \E g \in gets : RefreshLands(g)
             \/ UNCHANGED vars
      PROVE  rows' = rows
  BY <1>8 DEF SyncChanges, OpenThread, Undo, SetView, Search, LeaveSearch, CloseThread, RefreshLands, vars, listVars
<1> QED BY <1>4, <1>5, <1>6, <1>7, <1>8

LEMMA CountsComeBack ==
  ASSUME IInv, calls # <<>>, CountsLand(Head(calls), Tail(calls)), UNCHANGED <<store, counted>>,
         NEW t \in DOMAIN rows' \ DOMAIN rows
  PROVE  store'[t].at = view' \/ OnItsWay'
<1> DEFINE c == Head(calls)
           cs == Tail(calls)
<1>1. calls \in Seq(Call)
  BY DEF IInv, Shape
<1>2. /\ c = calls[1] /\ 1 \in DOMAIN calls
      /\ \A i \in DOMAIN calls : i # 1 => i - 1 \in DOMAIN cs /\ calls[i] = cs[i - 1]
  BY <1>1, Tailed
<1>3. c.kind = "counts" /\ calls' = cs /\ store' = store /\ view' = view
  BY DEF CountsLand
<1>4. c.live /\ rows' = c.page
  BY DEF CountsLand, Newest
<1> HIDE DEF c, cs
<1>5. IsList(c)
  BY <1>3, <1>4 DEF IsList, Lists
<1>6. CASE Follows(calls, 1)
  <2>1. PICK j \in DOMAIN calls : News(calls[j]) \/ (j > 1 /\ calls[j].kind = "search")
    BY <1>2, <1>3, <1>6 DEF Follows
  <2>2. calls[j].kind \in {"changed", "undone", "search"}
    BY <2>1 DEF News
  <2>3. j # 1
    BY <1>2, <1>3, <2>2
  <2>4. j - 1 \in DOMAIN cs /\ cs[j - 1].kind \in {"changed", "undone", "search"}
    BY <1>2, <2>2, <2>3
  <2> QED BY <1>3, <2>4 DEF OnItsWay
<1>7. CASE ~Follows(calls, 1)
  <2>1. \A u \in DOMAIN c.page : store[u].at = view
    BY <1>2, <1>5, <1>7 DEF IInv, OfView
  <2> QED BY <1>3, <1>4, <2>1
<1> QED BY <1>6, <1>7

(* A row that comes into a list is of that list by what the store holds,   *)
(* or news of it is on its way: no read that began before a key brings     *)
(* back what the key took away (listSeq, searchSeq).                       *)
THEOREM NoRowReturns == Spec => NothingComesBack
<1>1. ASSUME IInv, Next, ~searching', NEW t \in DOMAIN rows' \ DOMAIN rows
      PROVE  store'[t].at = view' \/ OnItsWay'
  <2>1. Lands
    BY <1>1, RowsFew DEF Next
  <2> DEFINE c == Head(calls)
             cs == Tail(calls)
  <2>2. calls # <<>> /\ UNCHANGED <<store, counted>>
    BY <2>1 DEF Lands
  <2>3. CASE CountsLand(c, cs)
    BY <1>1, <2>2, <2>3, CountsComeBack
  <2>4. CASE SearchLands(c, cs)
    BY <1>1, <2>4 DEF SearchLands
  <2>5. CASE ChangedLands(c, cs) \/ ListLands(c, cs) \/ ActLands(c, cs) \/ UndoneLands(c, cs)
    BY <1>1, <2>5 DEF ChangedLands, ListLands, ActLands, UndoneLands, listVars
  <2> QED BY <2>1, <2>3, <2>4, <2>5 DEF Lands
<1>2. ASSUME IInv, UNCHANGED vars, NEW t \in DOMAIN rows' \ DOMAIN rows
      PROVE  store'[t].at = view' \/ OnItsWay'
  BY <1>2, RowsFew
<1>3. IInv /\ [Next]_vars => [~searching' => \A t \in DOMAIN rows' \ DOMAIN rows :
                                store'[t].at = view' \/ OnItsWay']_vars
  BY <1>1
<1> QED BY <1>3, Invariance, PTL DEF Spec, NothingComesBack

(* What opens is what was asked for last: not a thread that was archived   *)
(* or left while it was on its way (openSeq).                              *)
THEOREM OpensWhatWasAsked == Spec => OpenIsAsked
<1>1. ASSUME IInv, Next, open' \notin {None, open}
      PROVE  open' = wanted
  <2>1. ASSUME NEW g \in gets, OpenLands(g)
        PROVE  open' = wanted
    BY <1>1, <2>1 DEF OpenLands, LastAsked, IInv, Asked
  <2>2. ASSUME NEW t \in Threads, Archive(t) \/ Snooze(t) \/ MoveToInbox(t) \/ OpenThread(t) \/ ToggleRead(t) \/ Star(t)
        PROVE  FALSE
    BY <1>1, <2>2 DEF Archive, Snooze, MoveToInbox, OpenThread, Open, ToggleRead, Star, paneVars
  <2>3. ASSUME NEW g \in gets, RefreshLands(g)
        PROVE  FALSE
    BY <1>1, <2>3 DEF RefreshLands
  <2>4. CASE Lands
    BY <1>1, <2>4 DEF Lands, ChangedLands, ListLands, CountsLand, SearchLands, ActLands, UndoneLands, Open, paneVars
  <2>5. ASSUME \/ \E t \in Threads : \E to \in FromGmail(t) : SyncChanges(t, to)
               \/ Undo
               \/ \E v \in Views : SetView(v)
               \/ Search \/ LeaveSearch \/ CloseThread
        PROVE  FALSE
    BY <1>1, <2>5 DEF SyncChanges, Undo, SetView, Search, LeaveSearch, CloseThread, paneVars
  <2> QED BY <1>1, <2>1, <2>2, <2>3, <2>4, <2>5 DEF Next
<1>2. IInv /\ [Next]_vars => [open' \notin {None, open} => open' = wanted]_vars
  BY <1>1
<1> QED BY <1>2, Invariance, PTL DEF Spec, OpenIsAsked

-----------------------------------------------------------------------------
(* The queues of the store, for any threads, lengths of days and weeks,    *)
(* waits and bounds.                                                       *)

(* What is assumed of the lengths and the clock. *)
LEMMA DaysNumbers ==
  /\ Day \in Nat \ {0} /\ Four \in 0 .. Day - 1 /\ Gap \in Nat \ {0}
  /\ Week \in Nat \ {0} /\ Waits \subseteq Nat \ {0}
  /\ First \in Nat /\ MaxClock \in Nat /\ First <= MaxClock /\ MaxBack \in Nat /\ MaxBack + 1 < Week
  /\ First > Week + Day + MaxBack + 1
  /\ MaxMoves \in Nat /\ MaxGone \in Nat
BY DaysAssumption DEF Days!QueuesAssumption

(* No activity is recorded ahead of the clock there was. *)
RecordedIsPast == lastActive <= peak

DaysInv == Days!TypeOK /\ RecordedIsPast /\ Days!BeginsBehindActivity /\ Days!WeeklyIsYoung

(* A week begins less than a week before any of its moments. *)
LEMMA WeekBounds ==
  ASSUME NEW t \in Nat, t > Week
  PROVE  Days!WeekBoundaryBefore(t) \in 1 .. t /\ Days!WeekBoundaryBefore(t) > t - Week
<1>1. (t - Four) % Week \in 0 .. Week - 1
  BY DaysNumbers
<1> QED
  BY <1>1, DaysNumbers DEF Days!WeekBoundaryBefore

(* So does a day. *)
LEMMA DayBounds ==
  ASSUME NEW t \in Nat, t > Day
  PROVE  Days!DayBoundaryBefore(t) \in 1 .. t
<1>1. (t - Four) % Day \in 0 .. Day - 1
  BY DaysNumbers
<1> QED
  BY <1>1, DaysNumbers DEF Days!DayBoundaryBefore

(* The initial states satisfy the invariant. *)
LEMMA InitDays == Days!Init => DaysInv
<1> SUFFICES ASSUME Days!Init PROVE DaysInv
  OBVIOUS
<1>1. First \in Nat /\ First > Week /\ First > Day /\ First <= MaxClock
  BY DaysNumbers
<1>2. Days!DayBoundaryBefore(First) \in 1 .. First /\ Days!WeekBoundaryBefore(First) \in 1 .. First
  BY <1>1, WeekBounds, DayBounds
<1>3. Days!NoItem \in Days!Entry /\ Days!NoReminder \in [due : 0 .. MaxClock, since : 0 .. MaxClock]
  BY DaysNumbers DEF Days!NoItem, Days!NoReminder, Days!Entry
<1>4. Days!TypeOK
  <2>1. /\ peak \in First .. MaxClock /\ clock \in peak - MaxBack .. peak
        /\ dayStart \in 0 .. MaxClock /\ weekStart \in 0 .. MaxClock /\ lastActive \in 0 .. MaxClock
    BY <1>1, <1>2, DaysNumbers DEF Days!Init
  <2>2. /\ here \in [Queued -> BOOLEAN] /\ inbox \in [Queued -> BOOLEAN]
        /\ junk \in [Queued -> BOOLEAN] /\ important \in [Queued -> BOOLEAN] /\ sendDue \in BOOLEAN
    BY DEF Days!Init
  <2>3. mail \in [Queued -> 0 .. MaxClock] /\ last \in [Queued -> 0 .. MaxClock]
    <3>1. First \in 0 .. MaxClock /\ 0 \in 0 .. MaxClock
      BY <1>1, DaysNumbers
    <3>2. mail \in [Queued -> 0 .. MaxClock]
      BY <3>1, Zenon DEF Days!Init
    <3> QED
      BY <3>2 DEF Days!Init
  <2>4. item \in [Queued -> Days!Entry] /\ reminder \in [Queued -> [due : 0 .. MaxClock, since : 0 .. MaxClock]]
    BY <1>3 DEF Days!Init
  <2>5. /\ snooze \in [Queued -> 0 .. MaxClock]
        /\ fired \in [Queued -> [at : 0 .. MaxClock, since : 0 .. MaxClock]]
        /\ moves \in 0 .. MaxMoves /\ gone \in 0 .. MaxGone
    BY <1>1, DaysNumbers DEF Days!Init
  <2> QED
    BY <2>1, <2>2, <2>3, <2>4, <2>5 DEF Days!TypeOK
<1>5. RecordedIsPast /\ Days!BeginsBehindActivity
  BY <1>1, <1>2 DEF Days!Init, RecordedIsPast, Days!BeginsBehindActivity
<1>6. Days!WeeklyIsYoung
  BY DEF Days!Init, Days!WeeklyIsYoung, Days!NoItem
<1> QED
  BY <1>4, <1>5, <1>6 DEF DaysInv

(* The time now is within the clock, and old enough for a week before it. *)
LEMMA TheTime ==
  ASSUME Days!TypeOK
  PROVE  clock \in 0 .. MaxClock /\ clock > Week + Day + 1 /\ clock <= peak /\ peak <= clock + MaxBack
BY DaysNumbers DEF Days!TypeOK

(* What is put into a queue now is younger than a week. *)
LEMMA YoungNow ==
  ASSUME Days!TypeOK, RecordedIsPast, Days!BeginsBehindActivity, NEW at \in {clock - 1, clock}
  PROVE  at \in 0 .. MaxClock /\ at > Week + Day /\ at <= peak /\ at > weekStart - Week
BY TheTime, DaysNumbers DEF Days!TypeOK, RecordedIsPast, Days!BeginsBehindActivity

(* A step that leaves the days alone and puts into Weekly 0 only now keeps *)
(* everything but the types.                                               *)
LEMMA SameDays ==
  ASSUME DaysInv, UNCHANGED Days!days, peak' = peak \/ peak' = Days!Later(peak, clock'),
         clock' \in Int,
         \A t \in Queued : \/ item'[t] = item[t]
                            \/ item'[t].queue # "weekly"
                            \/ item'[t].at = clock
  PROVE  RecordedIsPast' /\ Days!BeginsBehindActivity' /\ Days!WeeklyIsYoung'
<1> USE DEF DaysInv, Days!days
<1>1. RecordedIsPast'
  BY DEF RecordedIsPast, Days!TypeOK, Days!Later
<1>2. Days!BeginsBehindActivity'
  BY DEF Days!BeginsBehindActivity
<1>3. clock > weekStart - Week
  BY YoungNow
<1>4. Days!WeeklyIsYoung'
  BY <1>3 DEF Days!WeeklyIsYoung
<1> QED
  BY <1>1, <1>2, <1>4

(* A new row of a queue, made now. *)
LEMMA NewEntries ==
  ASSUME Days!TypeOK, NEW q \in {"unset", "none", "daily", "weekly", "later"}, NEW at \in 0 .. MaxClock
  PROVE  [queue |-> q, at |-> at] \in Days!Entry /\ Days!NoItem \in Days!Entry
BY DaysNumbers DEF Days!Entry, Days!NoItem

(* Every key keeps the invariant. *)
LEMMA KeyKeepsDays == DaysInv /\ Days!Key => DaysInv'
<1> SUFFICES ASSUME DaysInv, Days!Key PROVE DaysInv'
  OBVIOUS
<1> USE DaysNumbers
<1>0. Days!TypeOK /\ clock \in 0 .. MaxClock /\ Days!NoItem \in Days!Entry
  BY TheTime, NewEntries DEF DaysInv, Days!TypeOK
<1>1. CASE Days!QueueSend
  <2>1. Days!TypeOK'
    BY <1>0, <1>1 DEF Days!TypeOK, Days!QueueSend, Days!Move, Days!days, Days!row
  <2> QED
    BY <1>0, <1>1, <2>1, SameDays DEF DaysInv, Days!QueueSend, Days!TypeOK, Days!Move
<1>2. ASSUME NEW t \in Queued, NEW q \in {"daily", "weekly"}, Days!ToggleQueue(t, q) PROVE DaysInv'
  <2>1. PICK n \in {"none", "daily", "weekly"} : item' = [item EXCEPT ![t] = [queue |-> n, at |-> clock]]
    BY <1>2 DEF Days!ToggleQueue, Days!SetQueue
  <2>2. [queue |-> n, at |-> clock] \in Days!Entry
    BY <1>0, NewEntries
  <2>3. Days!TypeOK'
    BY <1>0, <1>2, <2>1, <2>2 DEF Days!TypeOK, Days!ToggleQueue, Days!Move, Days!days, Days!row
  <2>4. \A s \in Queued : item'[s] = item[s] \/ item'[s].at = clock
    BY <1>0, <2>1 DEF Days!TypeOK
  <2> QED
    BY <1>0, <1>2, <2>3, <2>4, SameDays DEF DaysInv, Days!ToggleQueue, Days!TypeOK
<1>3. ASSUME NEW t \in Queued, NEW toTrash \in BOOLEAN, Days!Archive(t, toTrash) PROVE DaysInv'
  <2>1. junk' \in [Queued -> BOOLEAN]
    BY <1>0, <1>3, Zenon DEF Days!TypeOK, Days!Archive
  <2>2. Days!TypeOK'
    BY <1>0, <1>3, <2>1 DEF Days!TypeOK, Days!Archive, Days!Move, Days!days
  <2>3. \A s \in Queued : item'[s] = item[s] \/ item'[s].queue # "weekly"
    BY <1>0, <1>3 DEF Days!TypeOK, Days!Archive, Days!NoItem
  <2> QED
    BY <1>0, <1>3, <2>2, <2>3, SameDays DEF DaysInv, Days!Archive, Days!TypeOK
<1>4. ASSUME NEW t \in Queued, Days!MoveToInbox(t) PROVE DaysInv'
  <2>1. Days!TypeOK'
    BY <1>0, <1>4 DEF Days!TypeOK, Days!MoveToInbox, Days!Move, Days!days
  <2> QED
    BY <1>0, <1>4, <2>1, SameDays DEF DaysInv, Days!MoveToInbox, Days!TypeOK
<1>5. ASSUME NEW t \in Queued, Days!Unsnooze(t) PROVE DaysInv'
  <2>1. inbox' \in [Queued -> BOOLEAN]
    BY <1>0, <1>5, Zenon DEF Days!TypeOK, Days!Unsnooze
  <2>2. Days!TypeOK'
    BY <1>0, <1>5, <2>1 DEF Days!TypeOK, Days!Unsnooze, Days!days
  <2> QED
    BY <1>0, <1>5, <2>2, SameDays DEF DaysInv, Days!Unsnooze, Days!TypeOK
<1>6. ASSUME NEW t \in Queued, NEW wait \in Waits, Days!Snooze(t, wait) PROVE DaysInv'
  <2>1. clock + wait \in 0 .. MaxClock
    BY <1>0, <1>6 DEF Days!Snooze
  <2>2. Days!TypeOK'
    BY <1>0, <1>6, <2>1 DEF Days!TypeOK, Days!Snooze, Days!Move, Days!days
  <2>3. \A s \in Queued : item'[s] = item[s] \/ item'[s].queue # "weekly"
    BY <1>0, <1>6 DEF Days!TypeOK, Days!Snooze, Days!NoItem
  <2> QED
    BY <1>0, <1>6, <2>2, <2>3, SameDays DEF DaysInv, Days!Snooze, Days!TypeOK
<1>7. ASSUME NEW t \in Queued, NEW wait \in Waits, Days!Remind(t, wait) PROVE DaysInv'
  <2>1. [due |-> clock + wait, since |-> last[t]] \in [due : 0 .. MaxClock, since : 0 .. MaxClock]
    BY <1>0, <1>7 DEF Days!Remind, Days!TypeOK
  <2>2. Days!TypeOK'
    BY <1>0, <1>7, <2>1 DEF Days!TypeOK, Days!Remind, Days!Move, Days!days, Days!row
  <2> QED
    BY <1>0, <1>7, <2>2, SameDays DEF DaysInv, Days!Remind, Days!TypeOK
<1> QED
  BY <1>1, <1>2, <1>3, <1>4, <1>5, <1>6, <1>7 DEF Days!Key

(* Every change made by Gmail, the classifier or a sent message keeps it. *)
LEMMA ElsewhereKeepsDays == DaysInv /\ Days!Elsewhere => DaysInv'
<1> SUFFICES ASSUME DaysInv, NEW t \in Queued,
                    \/ \E d \in {clock - 1, clock}, inbound \in BOOLEAN : Days!Land(t, d, inbound)
                    \/ Days!Relabel(t) \/ Days!File(t) \/ Days!Vanish(t)
                    \/ \E wait \in Waits : Days!ClientReminder(t, wait)
             PROVE  DaysInv'
  BY DEF Days!Elsewhere
<1> USE DaysNumbers
<1>0. Days!TypeOK /\ clock \in 0 .. MaxClock /\ Days!NoItem \in Days!Entry
  BY TheTime, NewEntries DEF DaysInv, Days!TypeOK
<1>1. ASSUME NEW d \in {clock - 1, clock}, NEW inbound \in BOOLEAN, Days!Land(t, d, inbound) PROVE DaysInv'
  <2>1. d \in 0 .. MaxClock
    BY <1>0, <1>1 DEF Days!Land
  <2>2. mail' \in [Queued -> 0 .. MaxClock] /\ last' \in [Queued -> 0 .. MaxClock]
    <3>1. Days!Later(mail[t], d) \in 0 .. MaxClock /\ Days!Later(last[t], d) \in 0 .. MaxClock
      BY <1>0, <2>1 DEF Days!Later, Days!TypeOK
    <3> QED
      BY <1>0, <1>1, <3>1 DEF Days!Land, Days!TypeOK
  <2>3. inbox' \in [Queued -> BOOLEAN]
    BY <1>0, <1>1, Zenon DEF Days!TypeOK, Days!Land
  <2>4. Days!TypeOK'
    BY <1>0, <1>1, <2>2, <2>3 DEF Days!TypeOK, Days!Land, Days!Move, Days!days
  <2> QED
    BY <1>0, <1>1, <2>4, SameDays DEF DaysInv, Days!Land, Days!TypeOK
<1>2. CASE Days!Relabel(t)
  <2>1. inbox' \in [Queued -> BOOLEAN] /\ junk' \in [Queued -> BOOLEAN]
    BY <1>0, <1>2, Zenon DEF Days!TypeOK, Days!Relabel
  <2>2. Days!TypeOK'
    BY <1>0, <1>2, <2>1 DEF Days!TypeOK, Days!Relabel, Days!Move, Days!days
  <2> QED
    BY <1>0, <1>2, <2>2, SameDays DEF DaysInv, Days!Relabel, Days!TypeOK
<1>3. CASE Days!File(t)
  <2>1. important' \in [Queued -> BOOLEAN]
    BY <1>0, <1>3, Zenon DEF Days!TypeOK, Days!File
  <2>2. Days!TypeOK'
    BY <1>0, <1>3, <2>1 DEF Days!TypeOK, Days!File, Days!Move, Days!days
  <2> QED
    BY <1>0, <1>3, <2>2, SameDays DEF DaysInv, Days!File, Days!TypeOK
<1>4. CASE Days!Vanish(t)
  <2>1. Days!TypeOK'
    BY <1>0, <1>4 DEF Days!TypeOK, Days!Vanish, Days!days
  <2>2. \A s \in Queued : item'[s] = item[s] \/ item'[s].queue # "weekly"
    BY <1>0, <1>4 DEF Days!TypeOK, Days!Vanish, Days!NoItem
  <2> QED
    BY <1>0, <1>4, <2>1, <2>2, SameDays DEF DaysInv, Days!Vanish, Days!TypeOK
<1>5. ASSUME NEW wait \in Waits, Days!ClientReminder(t, wait) PROVE DaysInv'
  <2>1. [due |-> clock + wait, since |-> clock] \in [due : 0 .. MaxClock, since : 0 .. MaxClock]
    BY <1>0, <1>5 DEF Days!ClientReminder
  <2>2. Days!Later(last[t], clock) \in 0 .. MaxClock
    BY <1>0 DEF Days!Later, Days!TypeOK
  <2>3. Days!TypeOK'
    BY <1>0, <1>5, <2>1, <2>2 DEF Days!TypeOK, Days!ClientReminder, Days!Move, Days!days
  <2> QED
    BY <1>0, <1>5, <2>3, SameDays DEF DaysInv, Days!ClientReminder, Days!TypeOK
<1> QED
  BY <1>1, <1>2, <1>3, <1>4, <1>5

(* The tick keeps it. *)
LEMMA TickKeepsDays == DaysInv /\ Days!Tick => DaysInv'
<1> SUFFICES ASSUME DaysInv, Days!Tick PROVE DaysInv'
  OBVIOUS
<1>0. Days!TypeOK /\ clock \in 0 .. MaxClock /\ [queue |-> "daily", at |-> clock] \in Days!Entry
  BY TheTime, NewEntries DEF DaysInv
<1>1. PICK W \in SUBSET Queued, R \in SUBSET Queued :
        LET F == {t \in R : ~Days!Answered(t)}
            back == W \cup {t \in F : here[t]}
        IN /\ snooze' = [t \in Queued |-> IF t \in W THEN 0 ELSE snooze[t]]
           /\ reminder' = [t \in Queued |-> IF t \in R THEN Days!NoReminder ELSE reminder[t]]
           /\ fired' = [t \in Queued |->
                IF t \in F THEN [at |-> clock, since |-> reminder[t].since] ELSE fired[t]]
           /\ inbox' = [t \in Queued |-> IF t \in back THEN ~junk[t] ELSE inbox[t]]
           /\ item' = [t \in Queued |->
                IF t \in back THEN [queue |-> "daily", at |-> clock] ELSE item[t]]
           /\ sendDue' = (sendDue /\ (Days!SnoozesFail \/ \E t \in R : Days!Fails(t)))
  <2>1. Days!UntilFailure(Days!DueSnoozes, snooze) \subseteq SUBSET Queued
    BY DEF Days!UntilFailure, Days!DueSnoozes
  <2>2. Days!Reached \subseteq SUBSET Queued
    BY DEF Days!Reached, Days!UntilFailure, Days!DueReminders
  <2> QED
    BY <2>1, <2>2 DEF Days!Tick
<1>2. UNCHANGED <<clock, peak, Days!days, here, mail, last, junk, important, moves, gone>>
  BY DEF Days!Tick
<1>3. snooze' \in [Queued -> 0 .. MaxClock]
  BY <1>0, <1>1, DaysNumbers DEF Days!TypeOK
<1>4. reminder' \in [Queued -> [due : 0 .. MaxClock, since : 0 .. MaxClock]]
  BY <1>0, <1>1, DaysNumbers DEF Days!TypeOK, Days!NoReminder
<1>5. fired' \in [Queued -> [at : 0 .. MaxClock, since : 0 .. MaxClock]]
  BY <1>0, <1>1 DEF Days!TypeOK
<1>6. inbox' \in [Queued -> BOOLEAN]
  BY <1>0, <1>1, Zenon DEF Days!TypeOK
<1>7. sendDue' \in BOOLEAN
  BY <1>1, Zenon
<1>8. item' \in [Queued -> Days!Entry]
  BY <1>0, <1>1 DEF Days!TypeOK
<1>9. Days!TypeOK'
  BY <1>0, <1>2, <1>3, <1>4, <1>5, <1>6, <1>7, <1>8 DEF Days!TypeOK, Days!days
<1>10. \A t \in Queued : item'[t] = item[t] \/ item'[t].queue # "weekly"
  BY <1>1
<1> QED
  BY <1>0, <1>2, <1>9, <1>10, SameDays DEF DaysInv, Days!TypeOK

(* What an activity leaves in a row of a queue: what was there, Weekly 0   *)
(* from now on, or Later from now on, and no week of Weekly 0 if a week    *)
(* begins.                                                                 *)
LEMMA AfterActivity ==
  ASSUME Days!TypeOK, NEW t \in Queued, NEW at \in 0 .. MaxClock
  PROVE  LET i == Days!AfterWeek(Days!AfterDay(t, at), at)
         IN /\ i \in {item[t], [queue |-> "weekly", at |-> at], [queue |-> "later", at |-> at]}
            /\ Days!WeekRolls(at) /\ i.queue = "weekly" => i.at > at - Week
            /\ Days!DayRolls(at) /\ Days!LeftOver(t, at) => i = [queue |-> "weekly", at |-> at]
<1> DEFINE d == Days!AfterDay(t, at)
<1>1. d \in {item[t], [queue |-> "weekly", at |-> at]} /\ item[t].at \in Int
  BY DEF Days!AfterDay, Days!TypeOK, Days!Entry
<1>2. Days!DayRolls(at) /\ Days!LeftOver(t, at) => d = [queue |-> "weekly", at |-> at]
  BY DEF Days!AfterDay
<1> HIDE DEF d
<1>3. d.at \in Int
  BY <1>1
<1> QED
  BY <1>1, <1>2, <1>3, DaysNumbers DEF Days!AfterWeek, Days!TooOld, d

(* An activity keeps it. *)
LEMMA ActivityKeepsDays == DaysInv /\ Days!Activity => DaysInv'
<1> SUFFICES ASSUME DaysInv, NEW at \in {clock - 1, clock},
                    item' = [t \in Queued |-> Days!AfterWeek(Days!AfterDay(t, at), at)],
                    dayStart' = (IF Days!DayRolls(at) THEN Days!NextDayStart ELSE dayStart),
                    weekStart' = (IF Days!WeekRolls(at) THEN Days!WeekBoundaryBefore(at) ELSE weekStart),
                    lastActive' = Days!Recorded(at),
                    UNCHANGED <<clock, peak, Days!row, snooze, reminder, fired, sendDue, moves, gone>>
             PROVE  DaysInv'
  BY DEF Days!Activity
<1>0. /\ Days!TypeOK /\ RecordedIsPast /\ Days!BeginsBehindActivity /\ Days!WeeklyIsYoung
      /\ at \in 0 .. MaxClock /\ at > Week + Day /\ at <= peak /\ at > weekStart - Week
  BY YoungNow DEF DaysInv
<1>1. Days!WeekBoundaryBefore(at) \in 1 .. at
  BY <1>0, WeekBounds, DaysNumbers
<1>2. dayStart' \in 0 .. MaxClock /\ weekStart' \in 0 .. MaxClock /\ lastActive' \in 0 .. MaxClock
  BY <1>0, <1>1, DaysNumbers DEF Days!TypeOK, Days!NextDayStart, Days!Recorded, Days!Later
<1>3. item' \in [Queued -> Days!Entry]
  <2>1. \A t \in Queued : Days!AfterWeek(Days!AfterDay(t, at), at) \in Days!Entry
    BY <1>0, AfterActivity DEF Days!TypeOK, Days!Entry
  <2> QED
    BY <2>1
<1>4. Days!TypeOK'
  BY <1>0, <1>2, <1>3 DEF Days!TypeOK, Days!row
<1>5. RecordedIsPast' /\ Days!BeginsBehindActivity'
  BY <1>0, <1>1, DaysNumbers
     DEF RecordedIsPast, Days!BeginsBehindActivity, Days!Recorded, Days!Later, Days!NextDayStart, Days!TypeOK
<1>6. Days!WeeklyIsYoung'
  <2> SUFFICES ASSUME NEW t \in Queued, item'[t].queue = "weekly" PROVE item'[t].at > weekStart' - Week
    BY DEF Days!WeeklyIsYoung
  <2>1. /\ item'[t] \in {item[t], [queue |-> "weekly", at |-> at], [queue |-> "later", at |-> at]}
        /\ Days!WeekRolls(at) => item'[t].at > at - Week
    BY <1>0, AfterActivity
  <2>2. CASE Days!WeekRolls(at)
    <3>1. item'[t].at \in Int
      BY <1>3 DEF Days!Entry
    <3> QED
      BY <1>0, <1>1, <2>1, <2>2, <3>1, DaysNumbers
  <2>3. CASE ~Days!WeekRolls(at)
    BY <1>0, <2>1, <2>3 DEF Days!WeeklyIsYoung
  <2> QED
    BY <2>2, <2>3
<1> QED
  BY <1>4, <1>5, <1>6 DEF DaysInv

(* Every step keeps the invariant. *)
LEMMA StepKeepsDays == DaysInv /\ [Days!Next]_(Days!vars) => DaysInv'
<1> SUFFICES ASSUME DaysInv, [Days!Next]_(Days!vars) PROVE DaysInv'
  OBVIOUS
<1>1. CASE Days!Advance
  <2>1. Days!TypeOK'
    BY <1>1, DaysNumbers DEF DaysInv, Days!TypeOK, Days!Advance, Days!Later, Days!days, Days!row
  <2> QED
    BY <1>1, <2>1, SameDays DEF DaysInv, Days!Advance, Days!TypeOK
<1>2. CASE Days!SetBack
  <2>1. Days!TypeOK'
    BY <1>2, DaysNumbers DEF DaysInv, Days!TypeOK, Days!SetBack, Days!days, Days!row
  <2> QED
    BY <1>2, <2>1, SameDays DEF DaysInv, Days!SetBack, Days!TypeOK
<1>3. CASE UNCHANGED Days!vars
  BY <1>3 DEF Days!vars, DaysInv, Days!TypeOK, RecordedIsPast, Days!BeginsBehindActivity, Days!WeeklyIsYoung
<1> QED
  BY <1>1, <1>2, <1>3, KeyKeepsDays, ElsewhereKeepsDays, TickKeepsDays, ActivityKeepsDays DEF Days!Next

THEOREM DaysInvariance == Days!Spec => []DaysInv
<1> QED
  BY InitDays, StepKeepsDays, PTL DEF Days!Spec

(* The queues keep their types. *)
THEOREM DaysTypes == Days!Spec => []Days!TypeOK
<1>1. DaysInv => Days!TypeOK
  BY DEF DaysInv
<1> QED
  BY DaysInvariance, <1>1, PTL

(* A day and a week begin behind the last activity, however late it is     *)
(* reported and wherever the clock is set back to (detectBoundary).        *)
THEOREM DaysBehind == Days!Spec => []Days!BeginsBehindActivity
<1>1. DaysInv => Days!BeginsBehindActivity
  BY DEF DaysInv
<1> QED
  BY DaysInvariance, <1>1, PTL

(* Nothing stays in Weekly 0 for a second week (rolloverWeek). *)
THEOREM WeeklyYoung == Days!Spec => []Days!WeeklyIsYoung
<1>1. DaysInv => Days!WeeklyIsYoung
  BY DEF DaysInv
<1> QED
  BY DaysInvariance, <1>1, PTL

(* Every step but an activity leaves the days alone. *)
LEMMA OnlyActivity == Days!Next => Days!Activity \/ UNCHANGED <<dayStart, weekStart>>
<1> SUFFICES ASSUME Days!Next PROVE Days!Activity \/ UNCHANGED Days!days
  BY DEF Days!days
<1>1. Days!Key => UNCHANGED Days!days
  BY DEF Days!Key, Days!QueueSend, Days!ToggleQueue, Days!Archive, Days!MoveToInbox, Days!Unsnooze, Days!Snooze, Days!Remind
<1>2. Days!Elsewhere => UNCHANGED Days!days
  BY DEF Days!Elsewhere, Days!Land, Days!Relabel, Days!File, Days!Vanish, Days!ClientReminder
<1> QED
  BY <1>1, <1>2 DEF Days!Next, Days!Tick, Days!Advance, Days!SetBack

(* Beginning a day or a week drops no thread out of the queues.            *)
THEOREM NoneDropped == Days!Spec => NothingDropped
<1> DEFINE A == \A t \in Queued :
      /\ dayStart' # dayStart /\ Days!Queue(t) = "daily" => Days!Queue(t)' = "weekly"
      /\ weekStart' # weekStart /\ Days!Queue(t) \in {"weekly", "later"} => Days!Queue(t)' \in {"weekly", "later"}
<1>1. ASSUME DaysInv, [Days!Next]_(Days!vars) PROVE [A]_(Days!vars)
  <2> SUFFICES ASSUME Days!Activity, NEW t \in Queued
               PROVE  /\ dayStart' # dayStart /\ Days!Queue(t) = "daily" => Days!Queue(t)' = "weekly"
                      /\ weekStart' # weekStart /\ Days!Queue(t) \in {"weekly", "later"}
                           => Days!Queue(t)' \in {"weekly", "later"}
    BY <1>1, OnlyActivity DEF Days!vars
  <2>1. PICK at \in {clock - 1, clock} :
          /\ item' = [s \in Queued |-> Days!AfterWeek(Days!AfterDay(s, at), at)]
          /\ dayStart' = IF Days!DayRolls(at) THEN Days!NextDayStart ELSE dayStart
          /\ UNCHANGED <<Days!row, snooze>>
    BY DEF Days!Activity
  <2>2. at \in 0 .. MaxClock
    BY <1>1, YoungNow DEF DaysInv
  <2>3. /\ item'[t] \in {item[t], [queue |-> "weekly", at |-> at], [queue |-> "later", at |-> at]}
        /\ Days!DayRolls(at) /\ Days!LeftOver(t, at) => item'[t] = [queue |-> "weekly", at |-> at]
    BY <1>1, <2>1, <2>2, AfterActivity DEF DaysInv
  <2>4. UNCHANGED <<here, junk, snooze>>
    BY <2>1 DEF Days!row
  <2>5. Days!Queue(t) # "no" => here[t] /\ ~junk[t] /\ snooze[t] = 0
    BY DEF Days!Queue, Days!QueueAt, Days!Asleep
  <2>6. ASSUME here[t], ~junk[t], snooze[t] = 0, item'[t].queue \in {"weekly", "later"}
        PROVE  Days!Queue(t)' = item'[t].queue
    BY <2>4, <2>6 DEF Days!Queue, Days!QueueAt, Days!Asleep
  <2>7. Days!Queue(t) \in {"weekly", "later"} => item[t].queue = Days!Queue(t)
    BY DEF Days!Queue, Days!QueueAt, Days!Asleep
  <2>8. Days!Queue(t) = "daily" => Days!LeftOver(t, at)
    BY DEF Days!Queue, Days!LeftOver
  <2> QED
    BY <2>1, <2>3, <2>5, <2>6, <2>7, <2>8
<1> QED
  BY DaysInvariance, <1>1, PTL DEF Days!Spec, NothingDropped, Days!NothingDropped

(* When a row begins to say that nobody replied, it is true.               *)
THEOREM NoReplyTrue == Days!Spec => Days!NoReplyIsTrue
<1> DEFINE A == \A t \in Queued :
      fired'[t] # fired[t] /\ Days!NoReplyShown(t)' => mail'[t] <= fired'[t].since
<1>1. ASSUME DaysInv, [Days!Next]_(Days!vars) PROVE [A]_(Days!vars)
  <2>1. Days!Tick \/ UNCHANGED fired
    <3>1. Days!Key => UNCHANGED fired
      BY DEF Days!Key, Days!QueueSend, Days!ToggleQueue, Days!Archive, Days!MoveToInbox, Days!Unsnooze, Days!Snooze, Days!Remind
    <3>2. Days!Elsewhere => UNCHANGED fired
      BY DEF Days!Elsewhere, Days!Land, Days!Relabel, Days!File, Days!Vanish, Days!ClientReminder
    <3> QED
      BY <1>1, <3>1, <3>2 DEF Days!Next, Days!Advance, Days!SetBack, Days!Activity, Days!vars
  <2>2. ASSUME Days!Tick, NEW t \in Queued, fired'[t] # fired[t] PROVE mail'[t] <= fired'[t].since
    <3>1. PICK R : fired' = [s \in Queued |->
            IF s \in {r \in R : ~Days!Answered(r)} THEN [at |-> clock, since |-> reminder[s].since] ELSE fired[s]]
      BY <2>2 DEF Days!Tick
    <3>2. mail' = mail
      BY <2>2 DEF Days!Tick
    <3>3. ~Days!Answered(t) /\ fired'[t].since = reminder[t].since
      BY <2>2, <3>1
    <3> QED
      BY <1>1, <3>2, <3>3 DEF Days!Answered, DaysInv, Days!TypeOK
  <2> QED
    BY <2>1, <2>2
<1> QED
  BY DaysInvariance, <1>1, PTL DEF Days!Spec, Days!NoReplyIsTrue

=============================================================================
