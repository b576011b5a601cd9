---------------------------- MODULE CatalogProofs ----------------------------
(***************************************************************************)
(* Proofs about the catalog and the refresh engine, for any albums,        *)
(* providers, limits and set-ups.                                          *)
(***************************************************************************)
EXTENDS CatalogInvariants, FiniteSetTheorems, SequenceTheorems, TLAPS

----------------------------------------------------------------------------
(* The operators the steps are built from *)

\* The elements of a sequence are its head and those of its tail.
LEMMA HeadAndTail ==
  ASSUME NEW S, NEW s \in Seq(S), s # <<>>
  PROVE  /\ Head(s) \in S /\ Tail(s) \in Seq(S)
         /\ Len(Tail(s)) = Len(s) - 1
         /\ ToSet(s) = {Head(s)} \cup ToSet(Tail(s))
<1>1. Len(s) \in Nat /\ Len(s) > 0 /\ DOMAIN s = 1 .. Len(s) OBVIOUS
<1>2. /\ Head(s) = s[1] /\ Head(s) \in S /\ Tail(s) \in Seq(S)
      /\ Len(Tail(s)) = Len(s) - 1
  BY <1>1
<1>3. \A i \in 1 .. Len(s) - 1 : Tail(s)[i] = s[i + 1]
  BY <1>1
<1>4. DOMAIN Tail(s) = 1 .. Len(s) - 1
  BY <1>1, <1>2
<1>5. ToSet(s) \subseteq {Head(s)} \cup ToSet(Tail(s))
  <2> SUFFICES ASSUME NEW i \in 1 .. Len(s), i # 1 PROVE s[i] \in ToSet(Tail(s))
    BY <1>1, <1>2 DEF ToSet
  <2>1. i - 1 \in 1 .. Len(s) - 1 /\ Tail(s)[i - 1] = s[i]
    BY <1>1, <1>3
  <2> QED BY <2>1, <1>4 DEF ToSet
<1>6. {Head(s)} \cup ToSet(Tail(s)) \subseteq ToSet(s)
  <2>1. Head(s) \in ToSet(s)
    BY <1>1, <1>2 DEF ToSet
  <2> SUFFICES ASSUME NEW i \in 1 .. Len(s) - 1 PROVE Tail(s)[i] \in ToSet(s)
    BY <2>1, <1>4 DEF ToSet
  <2>2. i + 1 \in 1 .. Len(s) /\ Tail(s)[i] = s[i + 1]
    BY <1>1, <1>3
  <2> QED BY <2>2, <1>1 DEF ToSet
<1> QED BY <1>2, <1>5, <1>6

LEMMA EmptySet == ToSet(<<>>) = {}
  BY DEF ToSet

\* Every frame a step builds is a frame.
LEMMA FramesTyped ==
  /\ IdleFrame \in Frame /\ IdleFrame.pc = "idle"
  /\ NoMeta \in Meta /\ NoPlan \in Plan
  BY DEF IdleFrame, Frame, NoMeta, Meta, NoPlan, Plan, Pcs, Outcomes, Misses

\* A returning call holds its album and nothing else.
LEMMA ReturnFrame ==
  ASSUME NEW f \in Frame, f.album \in CatAlbums, NEW o \in Outcomes
  PROVE  /\ Return(f, o) \in Frame
         /\ Return(f, o).pc = "publish" /\ Return(f, o).album = f.album
         /\ Return(f, o).prev = NoMeta
<1>1. Return(f, o) \in Frame
  BY FramesTyped DEF Return, Frame, Pcs
<1>2. /\ Return(f, o).pc = "publish" /\ Return(f, o).album = f.album
      /\ Return(f, o).prev = NoMeta
  BY DEF Return, IdleFrame
<1> QED BY <1>1, <1>2

LEMMA AnsweredFrame ==
  ASSUME NEW f \in Frame, f.album \in CatAlbums, NEW o \in Outcomes, NEW c
  PROVE  /\ Answered(c, f, o) \in Frame
         /\ \/ Answered(c, f, o).pc = "idle"
            \/ c = Engine /\ Answered(c, f, o).pc = "book" /\ Answered(c, f, o).album = f.album
         /\ Answered(c, f, o).prev = NoMeta
<1>1. Answered(c, f, o) \in Frame
  BY FramesTyped DEF Answered, Frame, Pcs
<1>2. CASE c = Engine
  BY <1>1, <1>2 DEF Answered, IdleFrame
<1>3. CASE c # Engine
  BY <1>1, <1>3 DEF Answered, IdleFrame
<1> QED BY <1>2, <1>3

LEMMA WriteFullFrame ==
  ASSUME NEW f \in Frame, f.album \in CatAlbums, NEW p \in Sources \cup {NoSource}
  PROVE  /\ WriteFull(f, p) \in Frame
         /\ WriteFull(f, p).pc = "rows" /\ WriteFull(f, p).album = f.album
         /\ WriteFull(f, p).prev = NoMeta
         /\ WriteFull(f, p).plan.tracks = "full" /\ WriteFull(f, p).plan.partial = FALSE
<1>1. WriteFull(f, p) \in Frame
  BY FramesTyped DEF WriteFull, Frame, Pcs, Plan
<1>2. /\ WriteFull(f, p).pc = "rows" /\ WriteFull(f, p).album = f.album
      /\ WriteFull(f, p).prev = NoMeta
      /\ WriteFull(f, p).plan.tracks = "full" /\ WriteFull(f, p).plan.partial = FALSE
  BY DEF WriteFull, IdleFrame
<1> QED BY <1>1, <1>2

\* What a call may start as: on the album, with the row it read, and stamping
\* only if that row is partial.
LEMMA StartedFrames ==
  ASSUME NEW a \in CatAlbums, meta[a] \in Meta, process.order \in Seq(Sources),
         NEW f \in Started(a)
  PROVE  /\ f \in Frame /\ f.album = a /\ f.prev = meta[a]
         /\ \/ f.pc = "touch" /\ meta[a].partial
            \/ f.pc = "link" /\ ~meta[a].partial
            \/ /\ f.pc = "search" /\ ~meta[a].partial
               /\ f.todo = process.order /\ f.searched = {}
<1> DEFINE g == [IdleFrame EXCEPT !.album = a, !.prev = meta[a]]
<1>1. g \in Frame
  BY FramesTyped DEF Frame
<1>2. g.album = a /\ g.prev = meta[a] /\ g.searched = {}
  BY DEF IdleFrame
<1>3. \/ f = [g EXCEPT !.pc = "touch"] /\ meta[a].partial
      \/ f = [g EXCEPT !.pc = "link"] /\ ~meta[a].partial
      \/ f = [g EXCEPT !.pc = "search", !.todo = process.order] /\ ~meta[a].partial
  BY DEF Started
<1> HIDE DEF g
<1>4. CASE f = [g EXCEPT !.pc = "touch"] /\ meta[a].partial
  BY <1>1, <1>2, <1>4 DEF Frame, Pcs
<1>5. CASE f = [g EXCEPT !.pc = "link"] /\ ~meta[a].partial
  BY <1>1, <1>2, <1>5 DEF Frame, Pcs
<1>6. CASE f = [g EXCEPT !.pc = "search", !.todo = process.order] /\ ~meta[a].partial
  BY <1>1, <1>2, <1>6 DEF Frame, Pcs
<1> QED BY <1>3, <1>4, <1>5, <1>6

LEMMA MissKept ==
  ASSUME NEW m \in Misses, NEW k \in Misses
  PROVE  LET n == IF Rank(k) >= Rank(m) THEN k ELSE m
         IN n \in Misses /\ (n = "none" => m = "none" /\ k = "none")
  BY DEF Misses, Rank


\* A frame that is good to hold: the part of the invariant about one caller.
GoodFrame(f) ==
  /\ f.pc # "idle" => f.album \in CatAlbums
  /\ f.pc = "search" => f.todo # <<>>
  /\ f.pc \in {"rows", "meta"} => f.plan.tracks # "none"
  /\ f.pc = "search" /\ f.miss = "none" =>
       f.searched \cup ToSet(f.todo) = ToSet(process.order)
  /\ f.pc = "unmatch" => f.searched = ToSet(process.order)
  /\ f.pc = "meta" => rows[f.album] # "none"
  /\ f.pc # "idle" /\ f.prev.status = "fresh" => rows[f.album] # "none"

\* What a search goes on as: it searches on, calls the album unmatched, or
\* returns.
LEMMA NextSourceFrame ==
  ASSUME NEW f \in Frame, f.album \in CatAlbums, f.todo # <<>>, NEW k \in Misses, k # "none",
         f.prev.status = "fresh" => rows[f.album] # "none"
  PROVE  /\ NextSource(f, k) \in Frame
         /\ NextSource(f, k).album = f.album
         /\ NextSource(f, k).pc \in {"search", "publish"}
         /\ NextSource(f, k).prev = NoMeta
         /\ GoodFrame(NextSource(f, k))
<1> DEFINE miss == IF Rank(k) >= Rank(f.miss) THEN k ELSE f.miss
           g == [f EXCEPT !.pc = "search", !.todo = Tail(f.todo), !.miss = miss,
                          !.prev = NoMeta, !.searched = {}]
<1>1. miss \in Misses /\ miss # "none"
  BY MissKept DEF Frame
<1>2. Tail(f.todo) \in Seq(Sources)
  BY HeadAndTail DEF Frame
<1>3. g \in Frame
  BY <1>1, <1>2, FramesTyped DEF Frame, Pcs
<1>4. /\ g.pc = "search" /\ g.album = f.album /\ g.prev = NoMeta
      /\ g.todo = Tail(f.todo) /\ g.miss = miss
  BY DEF Frame
<1>5. NextSource(f, k) = IF g.todo = <<>> THEN Classified(g) ELSE g
  BY <1>1 DEF NextSource, Frame
<1>6. NoMeta.status = "none"
  BY DEF NoMeta
<1> HIDE DEF g, miss
<1>7. CASE g.todo = <<>>
  <2>1. NextSource(f, k) = Classified(g)
    BY <1>5, <1>7
  <2>2. PICK o \in Outcomes : Classified(g) = Return(g, o)
    <3>1. CASE miss \in {"transient", "ctx", "hard"}
      BY <1>4, <1>1, <3>1 DEF Classified, Outcomes
    <3>2. CASE miss \notin {"transient", "ctx", "hard"}
      BY <1>4, <1>1, <3>2 DEF Classified, Outcomes
    <3> QED BY <3>1, <3>2
  <2>3. Return(g, o) \in Frame /\ Return(g, o).pc = "publish"
        /\ Return(g, o).album = g.album /\ Return(g, o).prev = NoMeta
    BY <1>3, <1>4, ReturnFrame
  <2> QED BY <1>4, <1>6, <2>1, <2>2, <2>3 DEF GoodFrame
<1>8. CASE g.todo # <<>>
  <2>1. NextSource(f, k) = g
    BY <1>5, <1>8
  <2> QED BY <1>1, <1>3, <1>4, <1>6, <1>8, <2>1 DEF GoodFrame
<1> QED BY <1>7, <1>8

\* A provider that was asked and has nothing counts as searched.
LEMMA SearchedFrame ==
  ASSUME NEW f \in Frame, f.album \in CatAlbums, f.pc = "search", GoodFrame(f),
         process.order \in Seq(Sources), NEW g,
         g = NextSource([f EXCEPT !.searched = @ \cup {Head(f.todo)}], "none")
  PROVE  /\ g \in Frame /\ g.album = f.album
         /\ g.pc \in {"search", "unmatch", "publish"}
         /\ g.prev \in {f.prev, NoMeta}
         /\ GoodFrame(g)
<1> DEFINE h == [f EXCEPT !.searched = @ \cup {Head(f.todo)}, !.todo = Tail(f.todo)]
<1>1. Head(f.todo) \in Sources /\ Tail(f.todo) \in Seq(Sources)
      /\ ToSet(f.todo) = {Head(f.todo)} \cup ToSet(Tail(f.todo))
  BY HeadAndTail DEF Frame, GoodFrame
<1>2. h \in Frame
  BY <1>1 DEF Frame
<1>3. /\ h.pc = "search" /\ h.album = f.album /\ h.prev = f.prev /\ h.miss = f.miss
      /\ h.todo = Tail(f.todo) /\ h.searched = f.searched \cup {Head(f.todo)}
  BY DEF Frame
<1>4. CASE f.miss = "none"
  <2>1. g = IF h.todo = <<>> THEN [h EXCEPT !.pc = "unmatch"] ELSE h
    <3>1. Rank("none") = 0
      BY DEF Rank
    <3> QED BY <1>4, <3>1 DEF NextSource, Classified, Frame
  <2>2. h.searched \cup ToSet(h.todo) = ToSet(process.order)
    BY <1>1, <1>3, <1>4 DEF GoodFrame
  <2>3. h.todo # <<>> => GoodFrame(h)
    BY <1>2, <1>3, <2>2 DEF GoodFrame
  <2> DEFINE u == [h EXCEPT !.pc = "unmatch"]
  <2>4. u \in Frame /\ u.pc = "unmatch" /\ u.album = f.album /\ u.prev = f.prev
        /\ u.searched = h.searched
    BY <1>2, <1>3 DEF Frame, Pcs
  <2>5. h.todo = <<>> => GoodFrame(u)
    <3> HIDE DEF h, u
    <3> QED BY <2>2, <2>4, EmptySet DEF GoodFrame
  <2> HIDE DEF h, u
  <2>6. g = IF h.todo = <<>> THEN u ELSE h
    BY <2>1 DEF u
  <2> QED BY <1>2, <1>3, <2>3, <2>4, <2>5, <2>6
<1>5. CASE f.miss # "none"
  <2> DEFINE i == [f EXCEPT !.searched = @ \cup {Head(f.todo)}]
  <2>1. i \in Frame /\ i.album = f.album /\ i.todo = f.todo /\ i.miss = f.miss /\ i.prev = f.prev
    BY <1>1 DEF Frame
  <2>2. f.miss \in Misses
    BY DEF Frame
  <2>3. NextSource(i, "none") = NextSource(i, f.miss)
    <3>1. Rank("none") = 0 /\ Rank(f.miss) > 0 /\ Rank(f.miss) \in Nat
      BY <2>2, <1>5 DEF Rank, Misses
    <3> HIDE DEF i
    <3>2. /\ (IF Rank("none") >= Rank(i.miss) THEN "none" ELSE i.miss) = f.miss
          /\ (IF Rank(f.miss) >= Rank(i.miss) THEN f.miss ELSE i.miss) = f.miss
      BY <2>1, <3>1
    <3> QED BY <3>2, Zenon DEF NextSource
  <2>4. i.prev.status = "fresh" => rows[i.album] # "none"
    BY <2>1 DEF GoodFrame
  <2> HIDE DEF i
  <2>5. i.todo # <<>>
    BY <2>1 DEF GoodFrame
  <2>6. g = NextSource(i, f.miss)
    BY <2>3 DEF i
  <2> QED BY <1>5, <2>1, <2>2, <2>4, <2>5, <2>6, NextSourceFrame
<1> QED BY <1>4, <1>5

----------------------------------------------------------------------------
(* The invariant, by caller *)

FillGood == fill.pc = "meta" => fill.album \in CatAlbums /\ rows[fill.album] # "none"

\* Rows are replaced but never deleted.
RowsKeptUp == \A a \in CatAlbums : rows[a] # "none" => rows'[a] # "none"

LEMMA InvParts ==
  CatalogInv <=>
    /\ CatalogTypeOK
    /\ \A c \in Callers : GoodFrame(call[c])
    /\ call[Engine].pc # "idle" => batch # <<>>
    /\ FillGood
    /\ process.order # <<>>
    /\ OneWriter
    /\ FreshHasRows
  BY DEF CatalogInv, FramesWell, SearchAccounted, SearchedBeforeUnmatched,
         FreshToBeHasRows, GoodFrame, FillGood

LEMMA InvPartsNext ==
  CatalogInv' <=>
    /\ CatalogTypeOK'
    /\ \A c \in Callers : GoodFrame(call[c])'
    /\ (call[Engine].pc # "idle" => batch # <<>>)'
    /\ FillGood'
    /\ (process.order # <<>>)'
    /\ OneWriter'
    /\ FreshHasRows'
  BY DEF CatalogInv, FramesWell, SearchAccounted, SearchedBeforeUnmatched,
         FreshToBeHasRows, GoodFrame, FillGood

\* A good frame that nobody touches stays good.
LEMMA GoodKept ==
  ASSUME NEW f \in Frame, GoodFrame(f), RowsKeptUp, process'.order = process.order
  PROVE  GoodFrame(f)'
  BY DEF GoodFrame, RowsKeptUp

\* One caller takes a step: everything is kept if its new frame is good, it
\* owns the slot it works in, and it takes nobody else's.
LEMMA CallerMoves ==
  ASSUME CatalogInv, NEW c \in Callers, NEW f \in Frame, Set(c, f), GoodFrame(f)',
         f.pc \in Working => inflight'[f.album] = c,
         \A k \in Callers \ {c}, a \in CatAlbums : inflight[a] = k => inflight'[a] = k,
         inflight' \in [CatAlbums -> Callers \cup {NoCaller}],
         c = Engine => f.pc = "idle" \/ batch # <<>>,
         meta' \in [CatAlbums -> Meta],
         rows' \in [CatAlbums -> {"none", "library", "full", "single"}],
         RowsKeptUp, FreshHasRows',
         UNCHANGED <<queue, batch, fill, process>>
  PROVE  CatalogInv'
<1>1. /\ CatalogTypeOK /\ OneWriter /\ FillGood
      /\ \A k \in Callers : GoodFrame(call[k])
      /\ call[Engine].pc # "idle" => batch # <<>>
      /\ process.order # <<>>
      /\ call \in [Callers -> Frame]
  BY InvParts DEF CatalogTypeOK
<1>2. call' \in [Callers -> Frame] /\ call'[c] = f
      /\ \A k \in Callers \ {c} : call'[k] = call[k]
  BY <1>1 DEF Set
<1>3. CatalogTypeOK'
  BY <1>1, <1>2 DEF CatalogTypeOK
<1>4. \A k \in Callers : GoodFrame(call[k])'
  <2> SUFFICES ASSUME NEW k \in Callers, k # c PROVE GoodFrame(call[k])'
    BY <1>2 DEF GoodFrame
  <2>1. GoodFrame(call[k]) /\ call'[k] = call[k] /\ call[k] \in Frame
    BY <1>1, <1>2
  <2> QED BY <2>1 DEF GoodFrame, RowsKeptUp
<1>5. OneWriter'
  <2> SUFFICES ASSUME NEW k \in Callers, call'[k].pc \in Working
               PROVE  inflight'[call'[k].album] = k
    BY DEF OneWriter
  <2>1. CASE k = c
    BY <1>2, <2>1
  <2>2. CASE k # c
    <3>1. call'[k] = call[k] /\ inflight[call[k].album] = k
      BY <1>1, <1>2, <2>2 DEF OneWriter
    <3>2. call[k].album \in CatAlbums
      BY <1>1, <3>1 DEF GoodFrame, Working
    <3> QED BY <2>2, <3>1, <3>2
  <2> QED BY <2>1, <2>2
<1>6. (call[Engine].pc # "idle" => batch # <<>>)'
  BY <1>1, <1>2 DEF Callers
<1>7. FillGood' /\ (process.order # <<>>)'
  BY <1>1 DEF FillGood, RowsKeptUp
<1> QED BY <1>3, <1>4, <1>5, <1>6, <1>7, InvPartsNext

\* What is known of a caller in the middle of a call.
LEMMA AtWork ==
  ASSUME CatalogInv, NEW c \in Callers, call[c].pc # "idle"
  PROVE  /\ call[c] \in Frame /\ call[c].album \in CatAlbums /\ GoodFrame(call[c])
         /\ c = Engine => batch # <<>>
         /\ call[c].pc \in Working => inflight[call[c].album] = c
         /\ call[c].prev \in Meta /\ call[c].plan \in Plan
         /\ process.order \in Seq(Sources) /\ process.order # <<>>
         /\ meta \in [CatAlbums -> Meta]
         /\ rows \in [CatAlbums -> {"none", "library", "full", "single"}]
         /\ inflight \in [CatAlbums -> Callers \cup {NoCaller}]
         /\ FreshHasRows
<1>1. /\ CatalogTypeOK /\ OneWriter /\ FreshHasRows
      /\ GoodFrame(call[c])
      /\ call[Engine].pc # "idle" => batch # <<>>
      /\ process.order # <<>>
  BY InvParts
<1>2. call[c] \in Frame
  BY <1>1 DEF CatalogTypeOK
<1>3. call[c].prev \in Meta /\ call[c].plan \in Plan
  BY <1>2 DEF Frame
<1> QED BY <1>1, <1>2, <1>3 DEF CatalogTypeOK, OneWriter, GoodFrame

----------------------------------------------------------------------------
(* The steps of a call *)

\* A call that touches no table.
LEMMA CallerMovesOnly ==
  ASSUME CatalogInv, NEW c \in Callers, call[c].pc # "idle", NEW f \in Frame, Set(c, f),
         GoodFrame(f), f.pc \in Working => inflight[f.album] = c,
         UNCHANGED <<catalogVars, inflight, batch, fill, process>>
  PROVE  CatalogInv'
<1>1. UNCHANGED <<queue, meta, rows>>
  BY DEF catalogVars
<1>2. GoodFrame(f)'
  BY <1>1 DEF GoodFrame
<1>3. FreshHasRows'
  BY <1>1, AtWork DEF FreshHasRows
<1> QED BY <1>1, <1>2, <1>3, AtWork, CallerMoves DEF RowsKeptUp

\* A call that writes the metadata row of its album and returns.
LEMMA CallerWrites ==
  ASSUME CatalogInv, NEW c \in Callers, call[c].pc \in Working, NEW m \in Meta, NEW o \in Outcomes,
         meta' = [meta EXCEPT ![call[c].album] = m], Set(c, Return(call[c], o)),
         m.status = "fresh" => rows[call[c].album] # "none",
         UNCHANGED <<queue, rows, inflight, batch, fill, process>>
  PROVE  CatalogInv'
<1>1. call[c].pc # "idle"
  BY DEF Working
<1> PICK f : f = Return(call[c], o)
  OBVIOUS
<1>2. f \in Frame /\ f.pc = "publish" /\ f.album = call[c].album /\ f.prev = NoMeta
  BY <1>1, AtWork, ReturnFrame
<1>5. GoodFrame(f)'
  BY <1>1, <1>2, AtWork DEF GoodFrame, NoMeta
<1>3. FreshHasRows'
  BY <1>1, AtWork DEF FreshHasRows
<1>4. meta' \in [CatAlbums -> Meta]
  BY <1>1, AtWork
<1>6. Set(c, f)
  OBVIOUS
<1>7. inflight[f.album] = c
  BY <1>1, <1>2, AtWork
<1> QED BY <1>1, <1>2, <1>3, <1>4, <1>5, <1>6, <1>7, AtWork, CallerMoves DEF RowsKeptUp

LEMMA TouchPartialKept ==
  ASSUME CatalogInv, NEW c \in Callers, TouchPartial(c), UNCHANGED <<fill, process>>
  PROVE  CatalogInv'
<1>1. call[c].pc = "touch" /\ call[c].pc \in Working /\ call[c].pc # "idle"
  BY DEF TouchPartial, Working
<1> PICK m : m = [call[c].prev EXCEPT !.old = FALSE]
  OBVIOUS
<1>2. m \in Meta /\ m.status = call[c].prev.status
  BY <1>1, AtWork DEF Meta
<1>3. m.status = "fresh" => rows[call[c].album] # "none"
  BY <1>1, <1>2, AtWork DEF GoodFrame
<1> QED BY <1>1, <1>2, <1>3, CallerWrites DEF TouchPartial, Outcomes

LEMMA ClearProviderLinkKept ==
  ASSUME CatalogInv, NEW c \in Callers, ClearProviderLink(c), UNCHANGED <<fill, process>>
  PROVE  CatalogInv'
<1>1. call[c].pc = "unlink" /\ call[c].pc \in Working /\ call[c].pc # "idle"
  BY DEF ClearProviderLink, Working
<1> PICK m : m = [call[c].prev EXCEPT !.link = NoSource,
                    !.old = @ /\ Materialized(call[c].prev)]
  OBVIOUS
<1>2. m \in Meta /\ m.status = call[c].prev.status
  BY <1>1, AtWork DEF Meta, Materialized
<1>3. m.status = "fresh" => rows[call[c].album] # "none"
  BY <1>1, <1>2, AtWork DEF GoodFrame
<1> QED BY <1>1, <1>2, <1>3, CallerWrites DEF ClearProviderLink, Outcomes

LEMMA MarkUnmatchedKept ==
  ASSUME CatalogInv, NEW c \in Callers, MarkUnmatched(c), UNCHANGED <<fill, process>>
  PROVE  CatalogInv'
<1>1. call[c].pc = "unmatch" /\ call[c].pc \in Working /\ call[c].pc # "idle"
  BY DEF MarkUnmatched, Working
<1> PICK m : m = [call[c].prev EXCEPT !.status = "unmatched", !.old = FALSE]
  OBVIOUS
<1>2. m \in Meta /\ m.status = "unmatched"
  BY <1>1, AtWork DEF Meta
<1> QED BY <1>1, <1>2, CallerWrites DEF MarkUnmatched, Outcomes

LEMMA UpsertMaterializedKept ==
  ASSUME CatalogInv, NEW c \in Callers, UpsertMaterialized(c), UNCHANGED <<fill, process>>
  PROVE  CatalogInv'
<1>1. call[c].pc = "meta" /\ call[c].pc \in Working /\ call[c].pc # "idle"
  BY DEF UpsertMaterialized, Working
<1> PICK m : m = [link |-> call[c].plan.link, status |-> "fresh",
                  partial |-> call[c].plan.partial, old |-> FALSE]
  OBVIOUS
<1>2. m \in Meta
  BY <1>1, AtWork DEF Meta, Plan
<1>3. rows[call[c].album] # "none"
  BY <1>1, AtWork DEF GoodFrame
<1> PICK o : o = IF c = Matcher THEN "applied" ELSE "matched"
  OBVIOUS
<1> QED BY <1>1, <1>2, <1>3, CallerWrites DEF UpsertMaterialized, Outcomes

LEMMA FetchLinkKept ==
  ASSUME CatalogInv, NEW c \in Callers, FetchLink(c), UNCHANGED <<fill, process>>
  PROVE  CatalogInv'
<1>1. /\ call[c].pc = "link" /\ call[c].pc \in Working /\ call[c].pc # "idle"
      /\ UNCHANGED <<catalogVars, inflight, batch, fill, process>>
  BY DEF FetchLink, Working
<1>2. PICK f : /\ Set(c, f)
               /\ \/ f = WriteFull(call[c], call[c].prev.link)
                  \/ \E o \in {"later", "ctx"} : f = Return(call[c], o)
                  \/ f = [call[c] EXCEPT !.pc = "unlink"]
  BY DEF FetchLink
<1>3. f \in Frame /\ f.album = call[c].album /\ GoodFrame(f)
  <2>1. CASE f = WriteFull(call[c], call[c].prev.link)
    <3>1. call[c].prev.link \in Sources \cup {NoSource}
      BY <1>1, AtWork DEF Meta
    <3>2. /\ f \in Frame /\ f.album = call[c].album /\ f.pc = "rows"
          /\ f.prev = NoMeta /\ f.plan.tracks = "full"
      BY <1>1, <2>1, <3>1, AtWork, WriteFullFrame
    <3> QED BY <1>1, <3>2, AtWork DEF GoodFrame, NoMeta
  <2>2. CASE \E o \in {"later", "ctx"} : f = Return(call[c], o)
    BY <1>1, <2>2, AtWork, ReturnFrame DEF GoodFrame, NoMeta, Outcomes
  <2>3. CASE f = [call[c] EXCEPT !.pc = "unlink"]
    <3>1. f \in Frame /\ f.album = call[c].album /\ f.pc = "unlink" /\ f.prev = call[c].prev
      BY <1>1, <2>3, AtWork DEF Frame, Pcs
    <3> QED BY <1>1, <3>1, AtWork DEF GoodFrame
  <2> QED BY <1>2, <2>1, <2>2, <2>3
<1> QED BY <1>1, <1>2, <1>3, AtWork, CallerMovesOnly

LEMMA TrySourceKept ==
  ASSUME CatalogInv, NEW c \in Callers, TrySource(c), UNCHANGED <<fill, process>>
  PROVE  CatalogInv'
<1>1. /\ call[c].pc = "search" /\ call[c].pc \in Working /\ call[c].pc # "idle"
      /\ UNCHANGED <<catalogVars, inflight, batch, fill, process>>
  BY DEF TrySource, Working
<1> DEFINE s == [call[c] EXCEPT !.searched = @ \cup {Head(call[c].todo)}]
<1>2. PICK f : /\ Set(c, f)
               /\ \/ \E k \in {"cooling", "rate", "searchBusy", "transient"} :
                       f = NextSource(call[c], k)
                  \/ f = NextSource(s, "none")
                  \/ \E k \in {"rate", "fetchBusy", "ctx", "hard"} : f = NextSource(s, k)
                  \/ f = WriteFull(call[c], Head(call[c].todo))
  BY DEF TrySource
<1>3. /\ call[c] \in Frame /\ call[c].album \in CatAlbums /\ GoodFrame(call[c])
      /\ process.order \in Seq(Sources)
  BY <1>1, AtWork
<1>4. /\ call[c].todo # <<>> /\ Head(call[c].todo) \in Sources
      /\ call[c].prev.status = "fresh" => rows[call[c].album] # "none"
  BY <1>1, <1>3, HeadAndTail DEF GoodFrame, Frame
<1>5. f \in Frame /\ f.album = call[c].album /\ GoodFrame(f)
  <2>1. CASE \E k \in {"cooling", "rate", "searchBusy", "transient"} :
               f = NextSource(call[c], k)
    BY <1>3, <1>4, <2>1, NextSourceFrame DEF Misses
  <2>2. CASE f = NextSource(s, "none")
    BY <1>1, <1>3, <2>2, SearchedFrame
  <2>3. CASE \E k \in {"rate", "fetchBusy", "ctx", "hard"} : f = NextSource(s, k)
    <3>1. /\ s \in Frame /\ s.album = call[c].album /\ s.todo = call[c].todo
          /\ s.prev = call[c].prev
      BY <1>3, <1>4 DEF Frame
    <3> HIDE DEF s
    <3> QED BY <1>3, <1>4, <2>3, <3>1, NextSourceFrame DEF Misses
  <2>4. CASE f = WriteFull(call[c], Head(call[c].todo))
    <3>1. /\ f \in Frame /\ f.album = call[c].album /\ f.pc = "rows"
          /\ f.prev = NoMeta /\ f.plan.tracks = "full"
      BY <1>3, <1>4, <2>4, WriteFullFrame
    <3> QED BY <1>3, <3>1 DEF GoodFrame, NoMeta
  <2> HIDE DEF s
  <2> QED BY <1>2, <2>1, <2>2, <2>3, <2>4
<1> QED BY <1>1, <1>2, <1>5, AtWork, CallerMovesOnly

LEMMA ReplaceAlbumTracksKept ==
  ASSUME CatalogInv, NEW c \in Callers, ReplaceAlbumTracks(c), UNCHANGED <<fill, process>>
  PROVE  CatalogInv'
<1>1. /\ call[c].pc = "rows" /\ call[c].pc \in Working /\ call[c].pc # "idle"
      /\ rows' = [rows EXCEPT ![call[c].album] = call[c].plan.tracks]
      /\ UNCHANGED <<queue, meta, inflight, batch, fill, process>>
  BY DEF ReplaceAlbumTracks, Working
<1> PICK f : f = [call[c] EXCEPT !.pc = "meta"]
  OBVIOUS
<1>2. f \in Frame /\ f.album = call[c].album /\ f.pc = "meta"
      /\ f.prev = call[c].prev /\ f.plan = call[c].plan
  BY <1>1, AtWork DEF Frame, Pcs
<1>3. call[c].plan.tracks \in {"full", "single"}
  BY <1>1, AtWork DEF GoodFrame, Plan
<1>4. /\ rows' \in [CatAlbums -> {"none", "library", "full", "single"}]
      /\ rows'[f.album] # "none" /\ RowsKeptUp
  BY <1>1, <1>2, <1>3, AtWork DEF RowsKeptUp
<1>5. GoodFrame(f)'
  BY <1>1, <1>2, <1>3, <1>4, AtWork DEF GoodFrame
<1>6. FreshHasRows'
  BY <1>1, <1>4, AtWork DEF FreshHasRows, RowsKeptUp
<1>7. Set(c, f)
  BY DEF ReplaceAlbumTracks
<1> QED BY <1>1, <1>2, <1>4, <1>5, <1>6, <1>7, AtWork, CallerMoves

\* A caller that owns nothing more, or waits for another one, is done.
LEMMA ContextEndsKept ==
  ASSUME CatalogInv, NEW c \in Callers, ContextEnds(c), UNCHANGED <<fill, process>>
  PROVE  CatalogInv'
<1>1. /\ call[c].pc \in Working /\ call[c].pc # "idle"
      /\ UNCHANGED <<catalogVars, inflight, batch, fill, process>>
  BY DEF ContextEnds, Working
<1> PICK f : f = Return(call[c], "ctx")
  OBVIOUS
<1>2. f \in Frame /\ f.album = call[c].album /\ GoodFrame(f)
  BY <1>1, AtWork, ReturnFrame DEF GoodFrame, NoMeta, Outcomes
<1>3. Set(c, f)
  BY DEF ContextEnds
<1> QED BY <1>1, <1>2, <1>3, AtWork, CallerMovesOnly

LEMMA IdleGood == IdleFrame \in Frame /\ GoodFrame(IdleFrame) /\ IdleFrame.pc \notin Working
<1>1. IdleFrame \in Frame /\ IdleFrame.pc = "idle"
  BY FramesTyped
<1> QED BY <1>1 DEF GoodFrame, Working

LEMMA WaitEndsKept ==
  ASSUME CatalogInv, NEW c \in Callers, WaitEnds(c), UNCHANGED <<fill, process>>
  PROVE  CatalogInv'
<1>1. /\ call[c].pc # "idle" /\ Set(c, IdleFrame)
      /\ UNCHANGED <<catalogVars, inflight, batch, fill, process>>
  BY DEF WaitEnds
<1> QED BY <1>1, IdleGood, CallerMovesOnly

\* The outcome goes to the owner and to everybody who joined.
LEMMA FinishCallFrames ==
  ASSUME CatalogInv, NEW c \in Callers, FinishCall(c), UNCHANGED <<fill, process>>
  PROVE  /\ call' = [k \in Callers |-> call'[k]]
         /\ \A k \in Callers :
              /\ call'[k] \in Frame
              /\ \/ call'[k] = call[k] /\ k # c
                 \/ /\ call'[k].pc \in {"idle", "cleanup", "book"} /\ call'[k].prev = NoMeta
                    /\ call'[k].pc # "idle" => call'[k].album = call[c].album
                    /\ k = Engine => call[k].pc # "idle"
<1>1. /\ call[c].pc = "publish" /\ call[c].pc # "idle" /\ call[c].pc \in Working
      /\ inflight' = [inflight EXCEPT ![call[c].album] = NoCaller]
      /\ UNCHANGED <<queue, meta, rows, batch, fill, process>>
  BY DEF FinishCall, Working, catalogVars
<1>2. /\ CatalogTypeOK /\ OneWriter /\ FillGood /\ FreshHasRows
      /\ \A k \in Callers : GoodFrame(call[k])
      /\ call[Engine].pc # "idle" => batch # <<>>
      /\ process.order # <<>>
      /\ call \in [Callers -> Frame]
  BY InvParts DEF CatalogTypeOK
<1>3. /\ call[c] \in Frame /\ call[c].album \in CatAlbums /\ call[c].out \in Outcomes
      /\ inflight[call[c].album] = c
  BY <1>1, AtWork DEF Frame
<1> DEFINE outcome == IF call[c].out = "applied" THEN "matched" ELSE call[c].out
<1>4. outcome \in Outcomes
  BY <1>3 DEF Outcomes
<1>5. \A k \in Callers :
        \/ call'[k] = call[k] /\ k # c /\ ~(call[k].pc = "join" /\ call[k].album = call[c].album)
        \/ k = c /\ call'[k] = [IdleFrame EXCEPT !.pc = "cleanup", !.album = call[c].album]
        \/ /\ k = c \/ (call[k].pc = "join" /\ call[k].album = call[c].album)
           /\ call'[k] = Answered(k, call[c], outcome)
  BY DEF FinishCall
<1> HIDE DEF outcome
<1>6. call' = [k \in Callers |-> call'[k]]
  BY DEF FinishCall
<1>7. \A k \in Callers :
        /\ call'[k] \in Frame
        /\ \/ call'[k] = call[k] /\ k # c
           \/ /\ call'[k].pc \in {"idle", "cleanup", "book"} /\ call'[k].prev = NoMeta
              /\ call'[k].pc # "idle" => call'[k].album = call[c].album
              /\ k = Engine => call[k].pc # "idle"
  <2> TAKE k \in Callers
  <2>1. CASE call'[k] = call[k] /\ k # c
    BY <1>2, <2>1
  <2>2. CASE k = c /\ call'[k] = [IdleFrame EXCEPT !.pc = "cleanup", !.album = call[c].album]
    <3>1. call'[k] \in Frame
      BY <1>3, <2>2, FramesTyped DEF Frame, Pcs
    <3>2. call'[k].pc = "cleanup" /\ call'[k].prev = NoMeta /\ call'[k].album = call[c].album
      BY <2>2 DEF IdleFrame
    <3> QED BY <1>1, <2>2, <3>1, <3>2
  <2>3. CASE /\ k = c \/ (call[k].pc = "join" /\ call[k].album = call[c].album)
             /\ call'[k] = Answered(k, call[c], outcome)
    BY <1>1, <1>3, <1>4, <2>3, AnsweredFrame
  <2> QED BY <1>5, <2>1, <2>2, <2>3
<1> QED BY <1>6, <1>7

LEMMA FinishCallKept ==
  ASSUME CatalogInv, NEW c \in Callers, FinishCall(c), UNCHANGED <<fill, process>>
  PROVE  CatalogInv'
<1>1. /\ call[c].pc = "publish" /\ call[c].pc # "idle" /\ call[c].pc \in Working
      /\ inflight' = [inflight EXCEPT ![call[c].album] = NoCaller]
      /\ UNCHANGED <<queue, meta, rows, batch, fill, process>>
  BY DEF FinishCall, Working, catalogVars
<1>2. /\ CatalogTypeOK /\ OneWriter /\ FillGood /\ FreshHasRows
      /\ \A k \in Callers : GoodFrame(call[k])
      /\ call[Engine].pc # "idle" => batch # <<>>
      /\ process.order # <<>>
      /\ call \in [Callers -> Frame]
  BY InvParts DEF CatalogTypeOK
<1>3. /\ call[c] \in Frame /\ call[c].album \in CatAlbums /\ call[c].out \in Outcomes
      /\ inflight[call[c].album] = c
  BY <1>1, AtWork DEF Frame
<1>6. call' = [k \in Callers |-> call'[k]]
  BY FinishCallFrames
<1>7. \A k \in Callers :
        /\ call'[k] \in Frame
        /\ \/ call'[k] = call[k] /\ k # c
           \/ /\ call'[k].pc \in {"idle", "cleanup", "book"} /\ call'[k].prev = NoMeta
              /\ call'[k].pc # "idle" => call'[k].album = call[c].album
              /\ k = Engine => call[k].pc # "idle"
  BY FinishCallFrames
<1>8. NoMeta.status = "none"
  BY DEF NoMeta
<1>9. \A k \in Callers : GoodFrame(call[k])'
  <2> SUFFICES ASSUME NEW k \in Callers PROVE GoodFrame(call[k])'
    OBVIOUS
  <2>1. CASE call'[k] = call[k]
    <3>1. GoodFrame(call[k])
      BY <1>2
    <3> QED BY <1>1, <2>1, <3>1 DEF GoodFrame
  <2>2. CASE call'[k] # call[k]
    <3>1. /\ call'[k].pc \in {"idle", "cleanup", "book"} /\ call'[k].prev = NoMeta
          /\ call'[k].pc # "idle" => call'[k].album = call[c].album
      BY <1>7, <2>2
    <3> QED BY <1>3, <1>8, <3>1 DEF GoodFrame
  <2> QED BY <2>1, <2>2
<1>10. inflight' \in [CatAlbums -> Callers \cup {NoCaller}]
  BY <1>1, <1>2 DEF CatalogTypeOK
<1>11. CatalogTypeOK'
  <2>1. call' \in [Callers -> Frame]
    BY <1>6, <1>7
  <2> QED BY <1>1, <1>2, <1>10, <2>1 DEF CatalogTypeOK
<1>12. OneWriter'
  <2> SUFFICES ASSUME NEW k \in Callers, call'[k].pc \in Working
               PROVE  inflight'[call'[k].album] = k
    BY DEF OneWriter
  <2>1. call'[k] = call[k] /\ k # c
    BY <1>7 DEF Working
  <2>2. inflight[call[k].album] = k
    BY <1>2, <2>1 DEF OneWriter
  <2>3. call[k].album # call[c].album
    BY <1>3, <2>1, <2>2
  <2>4. call[k].album \in CatAlbums
    BY <1>2, <2>1 DEF GoodFrame, Working
  <2> QED BY <1>1, <1>2, <2>1, <2>2, <2>3, <2>4 DEF CatalogTypeOK
<1>13. (call[Engine].pc # "idle" => batch # <<>>)'
  BY <1>1, <1>2, <1>7 DEF Callers
<1>14. FillGood' /\ (process.order # <<>>)' /\ FreshHasRows'
  BY <1>1, <1>2 DEF FillGood, FreshHasRows
<1> QED BY <1>9, <1>11, <1>12, <1>13, <1>14, InvPartsNext

LEMMA CallStepKept ==
  ASSUME CatalogInv, NEW c \in Callers, CallStep(c), UNCHANGED <<fill, process>>
  PROVE  CatalogInv'
  BY TouchPartialKept, FetchLinkKept, ClearProviderLinkKept, TrySourceKept, MarkUnmatchedKept,
     ReplaceAlbumTracksKept, UpsertMaterializedKept, FinishCallKept DEF CallStep

----------------------------------------------------------------------------
(* Entering the engine *)

\* What is known of an idle caller, and of everything else, at any time.
LEMMA Tables ==
  ASSUME CatalogInv
  PROVE  /\ process.order \in Seq(Sources) /\ process.order # <<>>
         /\ queue \in [CatAlbums -> [queued : BOOLEAN, due : Due, att : 0 .. MaxAttempts - 1]]
         /\ meta \in [CatAlbums -> Meta]
         /\ rows \in [CatAlbums -> {"none", "library", "full", "single"}]
         /\ inflight \in [CatAlbums -> Callers \cup {NoCaller}]
         /\ call \in [Callers -> Frame]
         /\ batch \in Seq(Claimed) /\ Len(batch) <= BatchSize
         /\ FreshHasRows /\ OneWriter /\ FillGood
         /\ \A c \in Callers : GoodFrame(call[c])
         /\ call[Engine].pc # "idle" => batch # <<>>
  BY InvParts DEF CatalogTypeOK

\* RefreshAlbum joins the call that owns the slot, or takes the free slot.
LEMMA RefreshAlbumKept ==
  ASSUME CatalogInv, NEW c \in Callers, NEW a \in CatAlbums, RefreshAlbum(c, a),
         c = Engine => batch # <<>>,
         UNCHANGED <<catalogVars, batch, fill, process>>
  PROVE  CatalogInv'
<1>1. UNCHANGED <<queue, meta, rows, batch, fill, process>>
  BY DEF catalogVars
<1>2. FreshHasRows' /\ RowsKeptUp
  BY <1>1, Tables DEF FreshHasRows, RowsKeptUp
<1>3. CASE inflight[a] # NoCaller
  <2> PICK f : f = [IdleFrame EXCEPT !.pc = "join", !.album = a]
    OBVIOUS
  <2>1. Set(c, f) /\ inflight' = inflight
    BY <1>3 DEF RefreshAlbum
  <2>2. f \in Frame
    BY FramesTyped DEF Frame, Pcs
  <2>3. f.pc = "join" /\ f.album = a /\ f.prev.status = "none"
    BY DEF IdleFrame, NoMeta
  <2>4. GoodFrame(f)' /\ f.pc \notin Working
    BY <2>3 DEF GoodFrame, Working
  <2> QED BY <1>1, <1>2, <2>1, <2>2, <2>4, Tables, CallerMoves
<1>4. CASE inflight[a] = NoCaller
  <2>1. PICK f \in Started(a) : Set(c, f)
    BY <1>4 DEF RefreshAlbum
  <2>2. inflight' = [inflight EXCEPT ![a] = c]
    BY <1>4 DEF RefreshAlbum
  <2>3. /\ f \in Frame /\ f.album = a /\ f.prev = meta[a]
        /\ f.pc \in {"touch", "link", "search"}
        /\ f.pc = "search" => f.todo = process.order /\ f.searched = {}
    BY StartedFrames, Tables
  <2>4. f.prev.status = "fresh" => rows[a] # "none"
    BY <2>3, Tables DEF FreshHasRows
  <2>5. GoodFrame(f)'
    BY <1>1, <2>3, <2>4, Tables DEF GoodFrame
  <2>6. \A k \in Callers \ {c}, b \in CatAlbums : inflight[b] = k => inflight'[b] = k
    BY <1>4, <2>2, Tables DEF NoCaller, Callers, Engine, Visitor, Matcher
  <2>7. inflight'[a] = c /\ inflight' \in [CatAlbums -> Callers \cup {NoCaller}]
    BY <2>2, Tables
  <2> QED BY <1>1, <1>2, <2>1, <2>3, <2>5, <2>6, <2>7, Tables, CallerMoves
<1> QED BY <1>3, <1>4

LEMMA MaterializeResolvedKept ==
  ASSUME CatalogInv, MaterializeResolved, UNCHANGED <<fill, process>>
  PROVE  CatalogInv'
<1> DEFINE a == call[Matcher].album
<1>1. /\ call[Matcher].pc = "acquire" /\ call[Matcher].pc # "idle" /\ Matcher \in Callers
      /\ Matcher # Engine
      /\ inflight[a] = NoCaller
      /\ inflight' = [inflight EXCEPT ![a] = Matcher]
      /\ UNCHANGED <<queue, meta, rows, batch, fill, process>>
  BY DEF MaterializeResolved, Callers, catalogVars, Matcher, Engine
<1>2. PICK f : /\ Set(Matcher, f)
               /\ \/ \E plan \in TrackMatchPlans \cup ReleaseMatchPlans :
                       f = [call[Matcher] EXCEPT !.pc = "rows", !.plan = plan]
                  \/ f = Return(call[Matcher], "matched")
  BY DEF MaterializeResolved
<1>3. /\ call[Matcher] \in Frame /\ a \in CatAlbums /\ GoodFrame(call[Matcher])
  BY <1>1, AtWork
<1>4. f \in Frame /\ f.album = a /\ GoodFrame(f)'
  <2>1. CASE \E plan \in TrackMatchPlans \cup ReleaseMatchPlans :
               f = [call[Matcher] EXCEPT !.pc = "rows", !.plan = plan]
    <3>1. PICK plan \in TrackMatchPlans \cup ReleaseMatchPlans :
               f = [call[Matcher] EXCEPT !.pc = "rows", !.plan = plan]
      BY <2>1
    <3>2. plan \in Plan /\ plan.tracks # "none"
      <4>1. process.identity \subseteq Sources
        BY InvParts DEF CatalogTypeOK
      <4> QED BY <4>1 DEF TrackMatchPlans, ReleaseMatchPlans, Plan
    <3>3. /\ f \in Frame /\ f.pc = "rows" /\ f.album = a
          /\ f.plan = plan /\ f.prev = call[Matcher].prev
      BY <1>3, <3>1, <3>2 DEF Frame, Pcs
    <3> QED BY <1>1, <1>3, <3>2, <3>3 DEF GoodFrame
  <2>2. CASE f = Return(call[Matcher], "matched")
    <3>1. f \in Frame /\ f.pc = "publish" /\ f.album = a /\ f.prev = NoMeta
      BY <1>3, <2>2, ReturnFrame DEF Outcomes
    <3> QED BY <1>3, <3>1 DEF GoodFrame, NoMeta
  <2> QED BY <1>2, <2>1, <2>2
<1>5. inflight'[a] = Matcher /\ inflight' \in [CatAlbums -> Callers \cup {NoCaller}]
  BY <1>1, <1>3, Tables
<1>6. \A k \in Callers \ {Matcher}, b \in CatAlbums : inflight[b] = k => inflight'[b] = k
  BY <1>1, Tables DEF NoCaller, Callers, Engine, Visitor, Matcher
<1>7. FreshHasRows' /\ RowsKeptUp
  BY <1>1, Tables DEF FreshHasRows, RowsKeptUp
<1> HIDE DEF a
<1> QED BY <1>1, <1>2, <1>4, <1>5, <1>6, <1>7, Tables, CallerMoves

----------------------------------------------------------------------------
(* Steps that move no caller: the tables, the batch and the backfill *)

LEMMA TablesMove ==
  ASSUME CatalogInv, UNCHANGED <<call, inflight, process>>,
         queue' \in [CatAlbums -> [queued : BOOLEAN, due : Due, att : 0 .. MaxAttempts - 1]],
         meta' \in [CatAlbums -> Meta],
         rows' \in [CatAlbums -> {"none", "library", "full", "single"}],
         batch' \in Seq(Claimed), Len(batch') <= BatchSize, batch # <<>> => batch' # <<>>,
         fill' \in [pc : {"rows", "meta", "remainder", "enqueue", "done"},
                    todo : SUBSET CatAlbums, album : CatAlbums \cup {NoCaller}],
         RowsKeptUp, FreshHasRows', FillGood'
  PROVE  CatalogInv'
<1>1. CatalogTypeOK'
  BY InvParts DEF CatalogTypeOK
<1>2. \A c \in Callers : GoodFrame(call[c])'
  <2> SUFFICES ASSUME NEW c \in Callers PROVE GoodFrame(call[c])'
    OBVIOUS
  <2>1. GoodFrame(call[c]) /\ call'[c] = call[c]
    BY Tables
  <2> QED BY <2>1 DEF GoodFrame, RowsKeptUp
<1>3. OneWriter'
  BY Tables DEF OneWriter
<1>4. (call[Engine].pc # "idle" => batch # <<>>)' /\ (process.order # <<>>)'
  BY Tables
<1> QED BY <1>1, <1>2, <1>3, <1>4, InvPartsNext

FillOK == fill \in [pc : {"rows", "meta", "remainder", "enqueue", "done"},
                    todo : SUBSET CatAlbums, album : CatAlbums \cup {NoCaller}]
QueueOK(q) == q \in [CatAlbums -> [queued : BOOLEAN, due : Due, att : 0 .. MaxAttempts - 1]]

LEMMA FillTyped ==
  ASSUME CatalogInv
  PROVE  FillOK /\ FillGood
  BY InvParts DEF CatalogTypeOK, FillOK

\* What the queue operations write are queues.
LEMMA QueueOperations ==
  ASSUME NEW q, QueueOK(q)
  PROVE  /\ \A a \in CatAlbums : QueueOK(EnqueueRefresh(q, a))
         /\ \A it \in Claimed : QueueOK(FinishRefresh(q, it))
         /\ \A it \in Claimed, n \in 0 .. MaxAttempts - 1, d \in Due :
              QueueOK(RetryRefresh(q, it, n, d))
         /\ \A a \in CatAlbums : QueueOK(DeleteRefreshByEntity(q, a))
         /\ QueueOK(ReArmTerminalAlbums(q))
<1> USE RefreshAssumption
<1>1. \A a \in CatAlbums : QueueOK(EnqueueRefresh(q, a))
  BY DEF QueueOK, EnqueueRefresh, Due
<1>2. NoRow \in [queued : BOOLEAN, due : Due, att : 0 .. MaxAttempts - 1]
  BY DEF NoRow, Due
<1>3. \A it \in Claimed : QueueOK(FinishRefresh(q, it))
  BY <1>2 DEF QueueOK, FinishRefresh, Claimed
<1>4. \A it \in Claimed, n \in 0 .. MaxAttempts - 1, d \in Due :
        QueueOK(RetryRefresh(q, it, n, d))
  BY DEF QueueOK, RetryRefresh, Claimed
<1>5. \A a \in CatAlbums : QueueOK(DeleteRefreshByEntity(q, a))
  BY <1>2 DEF QueueOK, DeleteRefreshByEntity
<1>6. QueueOK(ReArmTerminalAlbums(q))
  BY <1>1 DEF QueueOK, ReArmTerminalAlbums
<1> QED BY <1>1, <1>3, <1>4, <1>5, <1>6

\* A step that writes only the queue and the to-do list of the backfill.
LEMMA QueueMoves ==
  ASSUME CatalogInv, QueueOK(queue'), FillOK', fill'.pc = "meta" => UNCHANGED fill,
         UNCHANGED <<meta, rows, call, inflight, batch, process>>
  PROVE  CatalogInv'
<1>1. RowsKeptUp /\ FreshHasRows' /\ FillGood'
  BY Tables DEF RowsKeptUp, FreshHasRows, FillGood
<1> QED BY <1>1, Tables, TablesMove DEF QueueOK, FillOK

LEMMA QueueStepsKept ==
  ASSUME CatalogInv,
         \/ \E a \in CatAlbums : OpenStaleAlbum(a) \/ EnqueueAlbum(a) \/ RowDue(a)
         \/ ReArm
  PROVE  CatalogInv'
<1>1. QueueOK(queue)
  BY Tables DEF QueueOK
<1>2. UNCHANGED <<meta, rows, call, inflight, batch, fill, process>>
  BY DEF OpenStaleAlbum, EnqueueAlbum, RowDue, ReArm, engineVars
<1>3. QueueOK(queue')
  <2>1. CASE \E a \in CatAlbums : OpenStaleAlbum(a) \/ EnqueueAlbum(a)
    BY <1>1, <2>1, QueueOperations DEF OpenStaleAlbum, EnqueueAlbum
  <2>2. CASE \E a \in CatAlbums : RowDue(a)
    BY <1>1, <2>2 DEF RowDue, QueueOK, Due
  <2>3. CASE ReArm
    BY <1>1, <2>3, QueueOperations DEF ReArm
  <2> QED BY <2>1, <2>2, <2>3
<1>4. FillOK'
  BY <1>2, FillTyped DEF FillOK
<1> QED BY <1>2, <1>3, <1>4, QueueMoves

LEMMA BackfillStepsKept ==
  ASSUME CatalogInv,
         \/ \E a \in CatAlbums : BackfillTracks(a) \/ SkipUnreadable(a) \/ EnqueueRemainder(a)
         \/ BackfillMetadata \/ ReadRemainder
  PROVE  CatalogInv'
<1>1. QueueOK(queue) /\ FillOK /\ FillGood
  BY Tables, FillTyped DEF QueueOK
<1>2. CASE \E a \in CatAlbums : SkipUnreadable(a)
  <2>1. /\ UNCHANGED <<queue, meta, rows, call, inflight, batch, process>>
    BY <1>2 DEF SkipUnreadable, engineVars, catalogVars
  <2>2. FillOK' /\ fill'.pc # "meta"
    BY <1>1, <1>2 DEF SkipUnreadable, FillOK
  <2> QED BY <1>1, <2>1, <2>2, QueueMoves
<1>3. CASE \E a \in CatAlbums : EnqueueRemainder(a)
  <2>1. /\ UNCHANGED <<meta, rows, call, inflight, batch, process>>
        /\ \E a \in CatAlbums : queue' = EnqueueRefresh(queue, a)
    BY <1>3 DEF EnqueueRemainder, engineVars
  <2>3. QueueOK(queue')
    BY <1>1, <2>1, QueueOperations
  <2>4. PICK pc \in {"done", "enqueue"}, todo \in SUBSET CatAlbums :
          fill' = [fill EXCEPT !.pc = pc, !.todo = todo]
    <3>1. PICK a \in CatAlbums : EnqueueRemainder(a)
      BY <1>3
    <3>2. (IF fill.todo = {a} THEN "done" ELSE "enqueue") \in {"done", "enqueue"}
      OBVIOUS
    <3>3. fill.todo \ {a} \in SUBSET CatAlbums
      BY <1>1 DEF FillOK
    <3> QED BY <3>1, <3>2, <3>3 DEF EnqueueRemainder
  <2>2. FillOK' /\ fill'.pc # "meta"
    BY <1>1, <2>4 DEF FillOK
  <2> QED BY <1>1, <2>1, <2>2, <2>3, QueueMoves
<1>4. CASE ReadRemainder
  <2>1. UNCHANGED <<queue, meta, rows, call, inflight, batch, process>>
    BY <1>4 DEF ReadRemainder, engineVars, catalogVars
  <2>2. FillOK' /\ fill'.pc # "meta"
    BY <1>1, <1>4 DEF ReadRemainder, FillOK, UnmaterializedAlbums
  <2> QED BY <1>1, <2>1, <2>2, QueueMoves
<1>5. ASSUME NEW a \in CatAlbums, BackfillTracks(a)
      PROVE  CatalogInv'
  <2>1. /\ rows' = [rows EXCEPT ![a] = "library"]
        /\ fill' = [fill EXCEPT !.pc = "meta", !.album = a]
        /\ UNCHANGED <<queue, meta, call, inflight, batch, process>>
    BY <1>5 DEF BackfillTracks, engineVars
  <2>2. FillOK' /\ fill'.pc = "meta" /\ fill'.album = a
    BY <1>1, <2>1 DEF FillOK
  <2>3. /\ rows' \in [CatAlbums -> {"none", "library", "full", "single"}]
        /\ RowsKeptUp /\ rows'[a] # "none"
    BY <2>1, Tables DEF RowsKeptUp
  <2>4. FreshHasRows' /\ FillGood'
    BY <2>1, <2>2, <2>3, Tables DEF RowsKeptUp, FreshHasRows, FillGood
  <2> QED BY <2>1, <2>2, <2>3, <2>4, Tables, TablesMove DEF FillOK
<1>6. CASE BackfillMetadata
  <2>1. PICK old \in BOOLEAN :
          meta' = [meta EXCEPT ![fill.album] =
                     [link |-> NoSource, status |-> "fresh", partial |-> FALSE, old |-> old]]
    BY <1>6 DEF BackfillMetadata
  <2>2. /\ fill.album \in CatAlbums /\ rows[fill.album] # "none"
        /\ UNCHANGED <<queue, rows, call, inflight, batch, process>>
    BY <1>1, <1>6 DEF BackfillMetadata, engineVars, FillGood
  <2>3. meta' \in [CatAlbums -> Meta]
    BY <2>1, <2>2, Tables DEF Meta
  <2>4. FillOK' /\ fill'.pc # "meta"
    BY <1>1, <1>6 DEF BackfillMetadata, FillOK
  <2>5. FreshHasRows' /\ RowsKeptUp
    BY <2>1, <2>2, Tables DEF FreshHasRows, RowsKeptUp
  <2>6. FillGood'
    BY <2>4 DEF FillGood
  <2> QED BY <2>2, <2>3, <2>4, <2>5, <2>6, Tables, TablesMove DEF FillOK
<1> QED BY <1>2, <1>3, <1>4, <1>5, <1>6

LEMMA QuarterPassesKept ==
  ASSUME CatalogInv, QuarterPasses
  PROVE  CatalogInv'
<1>1. /\ meta' = [a \in CatAlbums |-> IF meta[a].status = "none" THEN meta[a]
                                      ELSE [meta[a] EXCEPT !.old = TRUE]]
      /\ queue' = [a \in CatAlbums |-> IF ~queue[a].queued THEN NoRow
                                       ELSE [queue[a] EXCEPT !.due = "now"]]
      /\ UNCHANGED <<rows, call, inflight, batch, fill, process>>
  BY DEF QuarterPasses
<1>2. \A a \in CatAlbums : meta'[a] \in Meta /\ meta'[a].status = meta[a].status
  BY <1>1, Tables DEF Meta
<1>3. meta' \in [CatAlbums -> Meta]
  BY <1>1, <1>2
<1>4. QueueOK(queue')
  <2>1. NoRow \in [queued : BOOLEAN, due : Due, att : 0 .. MaxAttempts - 1]
    BY RefreshAssumption DEF NoRow, Due
  <2>2. \A a \in CatAlbums : [queue[a] EXCEPT !.due = "now"] \in
          [queued : BOOLEAN, due : Due, att : 0 .. MaxAttempts - 1]
    BY Tables DEF Due
  <2> QED BY <1>1, <2>1, <2>2 DEF QueueOK
<1>5. RowsKeptUp /\ FreshHasRows' /\ FillGood'
  BY <1>1, <1>2, Tables DEF RowsKeptUp, FreshHasRows, FillGood
<1>6. FillOK'
  BY <1>1, FillTyped DEF FillOK
<1> QED BY <1>1, <1>3, <1>4, <1>5, <1>6, Tables, TablesMove DEF QueueOK, FillOK

----------------------------------------------------------------------------
(* The drain loop, the matcher and the restart *)

\* A claimed batch holds at most the limit of rows, each as it is queued.
LEMMA ClaimedBatch ==
  ASSUME NEW q, QueueOK(q), NEW b \in ClaimDueRefresh(q, BatchSize)
  PROVE  b \in Seq(Claimed) /\ Len(b) <= BatchSize
<1> DEFINE D == 1 .. Cardinality(DueAlbums(q))
<1>1. IsFiniteSet(DueAlbums(q)) /\ Cardinality(DueAlbums(q)) \in Nat
  BY CatalogAssumption, FS_Subset, FS_CardinalityType DEF DueAlbums
<1>2. PICK t \in [D -> DueAlbums(q)] :
        b = LET s == SubSeq(t, 1, IF Len(t) < BatchSize THEN Len(t) ELSE BatchSize)
            IN [i \in DOMAIN s |-> Item(q, s[i])]
  BY DEF ClaimDueRefresh, SetToSeqs
<1>3. t \in Seq(DueAlbums(q)) /\ Len(t) \in Nat
  BY <1>1, <1>2
<1> DEFINE n == IF Len(t) < BatchSize THEN Len(t) ELSE BatchSize
           s == SubSeq(t, 1, n)
<1>4. n \in Nat /\ n <= BatchSize /\ n <= Len(t)
  BY <1>3, RefreshAssumption
<1>5. s \in Seq(DueAlbums(q)) /\ Len(s) = n /\ DOMAIN s = 1 .. n
      /\ \A i \in 1 .. n : s[i] \in DueAlbums(q)
  <2> HIDE DEF n
  <2>1. \A i \in 1 .. n : t[i] \in DueAlbums(q)
    <3>1. \A i \in 1 .. n : i \in 1 .. Len(t)
      BY <1>3, <1>4
    <3>2. \A i \in 1 .. Len(t) : t[i] \in DueAlbums(q)
      BY <1>3, ElementOfSeq
    <3> QED BY <3>1, <3>2
  <2>2. /\ s \in Seq(DueAlbums(q)) /\ Len(s) = IF 1 <= n THEN n - 1 + 1 ELSE 0
        /\ \A i \in 1 .. n - 1 + 1 : s[i] = t[1 + i - 1]
    BY <1>4, <2>1, SubSeqProperties
  <2> HIDE DEF s
  <2>3. Len(s) = n
    BY <1>4, <2>2
  <2>4. DOMAIN s = 1 .. n
    BY <2>2, <2>3
  <2>5. \A i \in 1 .. n : s[i] \in DueAlbums(q)
    BY <2>2, <2>3
  <2> QED BY <2>2, <2>3, <2>4, <2>5
<1>6. b = [i \in 1 .. n |-> Item(q, s[i])]
  BY <1>2, <1>5
<1>7. \A a \in DueAlbums(q) : Item(q, a) \in Claimed
  BY DEF DueAlbums, Item, Claimed, QueueOK
<1> HIDE DEF n, s
<1>8. \A i \in 1 .. n : Item(q, s[i]) \in Claimed
  BY <1>5, <1>7
<1> QED BY <1>4, <1>6, <1>8

LEMMA ClaimBatchKept ==
  ASSUME CatalogInv, ClaimBatch, UNCHANGED <<fill, process>>
  PROVE  CatalogInv'
<1>1. /\ UNCHANGED <<queue, meta, rows, call, inflight, fill, process>> /\ batch = <<>>
  BY DEF ClaimBatch, catalogVars
<1>2. QueueOK(queue)
  BY Tables DEF QueueOK
<1>3. batch' \in Seq(Claimed) /\ Len(batch') <= BatchSize
  BY <1>2, ClaimedBatch DEF ClaimBatch
<1>4. RowsKeptUp /\ FreshHasRows' /\ FillGood' /\ FillOK'
  BY <1>1, Tables, FillTyped DEF RowsKeptUp, FreshHasRows, FillGood, FillOK
<1> QED BY <1>1, <1>3, <1>4, Tables, TablesMove DEF FillOK

\* The head of a batch is a claimed row, and its tail a batch.
LEMMA BatchParts ==
  ASSUME CatalogInv, batch # <<>>
  PROVE  /\ Head(batch) \in Claimed /\ Tail(batch) \in Seq(Claimed)
         /\ Len(Tail(batch)) <= BatchSize
<1>1. batch \in Seq(Claimed) /\ Len(batch) <= BatchSize /\ Len(batch) \in Nat
  BY Tables
<1> QED BY <1>1, HeadAndTail, RefreshAssumption

LEMMA NextItemKept ==
  ASSUME CatalogInv, NextItem, UNCHANGED <<fill, process>>
  PROVE  CatalogInv'
<1>1. /\ batch # <<>> /\ RefreshAlbum(Engine, Head(batch).album)
      /\ UNCHANGED <<catalogVars, batch>>
  BY DEF NextItem
<1>2. Head(batch).album \in CatAlbums /\ Engine \in Callers
  BY <1>1, BatchParts DEF Claimed, Callers
<1> QED BY <1>1, <1>2, RefreshAlbumKept

\* The engine is done with its item: it is idle, and the batch may be empty.
LEMMA ItemDone ==
  ASSUME CatalogInv, Set(Engine, IdleFrame), call[Engine].pc \notin Working, QueueOK(queue'),
         batch # <<>>, batch' = Tail(batch),
         UNCHANGED <<meta, rows, inflight, fill, process>>
  PROVE  CatalogInv'
<1>1. /\ CatalogTypeOK /\ OneWriter /\ FillGood /\ FreshHasRows /\ process.order # <<>>
      /\ \A c \in Callers : GoodFrame(call[c])
      /\ call \in [Callers -> Frame]
  BY InvParts DEF CatalogTypeOK
<1>2. call' \in [Callers -> Frame] /\ call'[Engine] = IdleFrame
      /\ \A c \in Callers \ {Engine} : call'[c] = call[c]
  BY <1>1, IdleGood DEF Set, Callers
<1>3. CatalogTypeOK'
  BY <1>1, <1>2, BatchParts DEF CatalogTypeOK, QueueOK
<1>4. \A c \in Callers : GoodFrame(call[c])'
  <2> SUFFICES ASSUME NEW c \in Callers PROVE GoodFrame(call[c])'
    OBVIOUS
  <2>1. CASE c = Engine
    <3>1. call'[c].pc = "idle"
      BY <1>2, <2>1, FramesTyped
    <3> QED BY <3>1 DEF GoodFrame
  <2>2. CASE c # Engine
    <3>1. call'[c] = call[c] /\ GoodFrame(call[c])
      BY <1>1, <1>2, <2>2
    <3> QED BY <3>1 DEF GoodFrame
  <2> QED BY <2>1, <2>2
<1>5. OneWriter'
  <2> SUFFICES ASSUME NEW c \in Callers, call'[c].pc \in Working
               PROVE  inflight'[call'[c].album] = c
    BY DEF OneWriter
  <2>1. c # Engine
    BY <1>2, IdleGood
  <2> QED BY <1>1, <1>2, <2>1 DEF OneWriter
<1>6. (call[Engine].pc # "idle" => batch # <<>>)'
  BY <1>2, FramesTyped
<1>7. FillGood' /\ FreshHasRows' /\ (process.order # <<>>)'
  BY <1>1 DEF FillGood, FreshHasRows
<1> QED BY <1>3, <1>4, <1>5, <1>6, <1>7, InvPartsNext

LEMMA ProcessItemKept ==
  ASSUME CatalogInv, ProcessItem, UNCHANGED <<fill, process>>
  PROVE  CatalogInv'
<1>1. /\ call[Engine].pc = "book" /\ Engine \in Callers /\ UNCHANGED <<meta, rows, inflight>>
      /\ call[Engine].pc # "idle" /\ call[Engine].pc \notin Working
  BY DEF ProcessItem, Callers, Working
<1>2. /\ call[Engine] \in Frame /\ call[Engine].album \in CatAlbums /\ GoodFrame(call[Engine])
      /\ batch # <<>> /\ QueueOK(queue)
  BY <1>1, AtWork, Tables DEF QueueOK
<1>3. CASE call[Engine].out = "hard"
  <2> PICK f : f = [call[Engine] EXCEPT !.pc = "failure", !.prev = meta[call[Engine].album]]
    OBVIOUS
  <2>1. Set(Engine, f) /\ UNCHANGED <<queue, batch>>
    BY <1>3 DEF ProcessItem
  <2>2. f \in Frame /\ f.pc = "failure" /\ f.album = call[Engine].album
        /\ f.prev = meta[call[Engine].album]
    BY <1>2, Tables DEF Frame, Pcs
  <2>3. GoodFrame(f)
    BY <1>2, <2>2, Tables DEF GoodFrame, FreshHasRows
  <2>4. f.pc \notin Working
    BY <2>2 DEF Working
  <2> QED BY <1>1, <2>1, <2>2, <2>3, <2>4, CallerMovesOnly DEF catalogVars
<1>4. CASE call[Engine].out # "hard"
  <2>1. /\ queue' = Booked(Head(batch), call[Engine].out)
        /\ batch' = Tail(batch) /\ Set(Engine, IdleFrame)
    BY <1>4 DEF ProcessItem
  <2>2. Head(batch) \in Claimed
    BY <1>2, BatchParts
  <2>3. /\ Head(batch).att \in 0 .. MaxAttempts - 1
        /\ Counted(Head(batch).att) \in 0 .. MaxAttempts - 1
    BY <2>2, RefreshAssumption DEF Claimed, Counted
  <2>4. \/ queue' = queue
        \/ queue' = FinishRefresh(queue, Head(batch))
        \/ \E n \in 0 .. MaxAttempts - 1, d \in Due : queue' = RetryRefresh(queue, Head(batch), n, d)
    BY <2>1, <2>3 DEF Booked, Due
  <2>5. QueueOK(queue')
    BY <1>2, <2>2, <2>4, QueueOperations
  <2> QED BY <1>1, <1>2, <2>1, <2>5, ItemDone
<1> QED BY <1>3, <1>4

LEMMA RecordAlbumFailureKept ==
  ASSUME CatalogInv, RecordAlbumFailure, UNCHANGED <<fill, process>>
  PROVE  CatalogInv'
<1> PICK st \in {"failed", "pending"} :
      meta' = [meta EXCEPT ![call[Engine].album] =
                 [call[Engine].prev EXCEPT !.old = FALSE, !.status = st]]
  BY DEF RecordAlbumFailure
<1>1. /\ call[Engine].pc = "failure" /\ Engine \in Callers /\ call[Engine].pc # "idle"
      /\ UNCHANGED <<queue, rows, inflight, batch, fill, process>>
  BY DEF RecordAlbumFailure, Callers
<1>2. /\ call[Engine] \in Frame /\ call[Engine].album \in CatAlbums /\ GoodFrame(call[Engine])
      /\ batch # <<>> /\ call[Engine].prev \in Meta
  BY <1>1, AtWork
<1>3. [call[Engine].prev EXCEPT !.old = FALSE, !.status = st] \in Meta
      /\ [call[Engine].prev EXCEPT !.old = FALSE, !.status = st].status # "fresh"
  BY <1>2 DEF Meta
<1>4. meta' \in [CatAlbums -> Meta] /\ FreshHasRows' /\ RowsKeptUp
  BY <1>1, <1>2, <1>3, Tables DEF FreshHasRows, RowsKeptUp
<1> PICK f : f = [call[Engine] EXCEPT !.pc = "retry"]
  OBVIOUS
<1>5. f \in Frame /\ f.pc = "retry" /\ f.album = call[Engine].album /\ f.prev = call[Engine].prev
  BY <1>2 DEF Frame, Pcs
<1>6. GoodFrame(f)' /\ f.pc \notin Working
  BY <1>1, <1>2, <1>5 DEF GoodFrame, Working
<1>7. Set(Engine, f)
  BY DEF RecordAlbumFailure
<1> QED BY <1>1, <1>2, <1>4, <1>5, <1>6, <1>7, Tables, CallerMoves

LEMMA RetryOrFailKept ==
  ASSUME CatalogInv, RetryOrFail, UNCHANGED <<fill, process>>
  PROVE  CatalogInv'
<1>1. /\ call[Engine].pc = "retry" /\ Engine \in Callers /\ UNCHANGED <<meta, rows, inflight>>
      /\ call[Engine].pc # "idle" /\ call[Engine].pc \notin Working
      /\ batch' = Tail(batch) /\ Set(Engine, IdleFrame)
  BY DEF RetryOrFail, Callers, Working
<1>2. batch # <<>> /\ QueueOK(queue)
  BY <1>1, AtWork, Tables DEF QueueOK
<1>3. Head(batch) \in Claimed /\ Head(batch).att \in 0 .. MaxAttempts - 1
  BY <1>2, BatchParts DEF Claimed
<1>4. \/ queue' = FinishRefresh(queue, Head(batch))
      \/ /\ Head(batch).att + 1 \in 0 .. MaxAttempts - 1
         /\ queue' = RetryRefresh(queue, Head(batch), Head(batch).att + 1, "later")
  BY <1>3, RefreshAssumption DEF RetryOrFail
<1>5. QueueOK(queue')
  BY <1>2, <1>3, <1>4, QueueOperations DEF Due
<1> QED BY <1>1, <1>2, <1>5, ItemDone

LEMMA MatchAlbumKept ==
  ASSUME CatalogInv, NEW a \in CatAlbums, MatchAlbum(a)
  PROVE  CatalogInv'
<1> PICK f : f = [IdleFrame EXCEPT !.pc = "acquire", !.album = a]
  OBVIOUS
<1>1. /\ Set(Matcher, f) /\ Matcher \in Callers /\ Matcher # Engine
      /\ UNCHANGED <<queue, meta, rows, inflight, batch, fill, process>>
  BY DEF MatchAlbum, Callers, Engine, Matcher, catalogVars
<1>2. f \in Frame
  BY FramesTyped DEF Frame, Pcs
<1>3. f.pc = "acquire" /\ f.album = a /\ f.prev.status = "none"
  BY DEF IdleFrame, NoMeta
<1>4. GoodFrame(f)' /\ f.pc \notin Working
  BY <1>3 DEF GoodFrame, Working
<1>5. FreshHasRows' /\ RowsKeptUp
  BY <1>1, Tables DEF FreshHasRows, RowsKeptUp
<1> QED BY <1>1, <1>2, <1>4, <1>5, Tables, CallerMoves

LEMMA CleanupQueueKept ==
  ASSUME CatalogInv, CleanupQueue
  PROVE  CatalogInv'
<1>1. /\ call[Matcher].pc = "cleanup" /\ call[Matcher].pc # "idle" /\ Matcher \in Callers
      /\ Matcher # Engine /\ Set(Matcher, IdleFrame)
      /\ queue' = DeleteRefreshByEntity(queue, call[Matcher].album)
      /\ batch' = [i \in DOMAIN batch |->
                 [batch[i] EXCEPT !.live = @ /\ batch[i].album # call[Matcher].album]]
      /\ UNCHANGED <<meta, rows, inflight, fill, process>>
  BY DEF CleanupQueue, Callers, Engine, Matcher
<1>2. call[Matcher].album \in CatAlbums
  BY <1>1, AtWork
<1>3. /\ CatalogTypeOK /\ OneWriter /\ FillGood /\ FreshHasRows /\ process.order # <<>>
      /\ \A c \in Callers : GoodFrame(call[c])
      /\ call[Engine].pc # "idle" => batch # <<>>
      /\ call \in [Callers -> Frame]
  BY InvParts DEF CatalogTypeOK
<1>4. QueueOK(queue')
  BY <1>1, <1>2, Tables, QueueOperations DEF QueueOK
<1>5. batch' \in Seq(Claimed) /\ Len(batch') = Len(batch) /\ (batch # <<>> => batch' # <<>>)
  <2>1. batch \in Seq(Claimed) /\ DOMAIN batch = 1 .. Len(batch) /\ Len(batch) \in Nat
    BY Tables
  <2>2. \A i \in 1 .. Len(batch) :
          [batch[i] EXCEPT !.live = @ /\ batch[i].album # call[Matcher].album] \in Claimed
    <3>1. \A e \in Claimed, l \in BOOLEAN : [e EXCEPT !.live = l] \in Claimed
      BY DEF Claimed
    <3>2. \A i \in 1 .. Len(batch) : batch[i] \in Claimed
      BY <2>1
    <3> QED BY <3>1, <3>2
  <2>3. batch' \in [1 .. Len(batch) -> Claimed]
    BY <1>1, <2>1, <2>2
  <2>4. Len(batch') = Len(batch) /\ batch' \in Seq(Claimed)
    BY <2>1, <2>3
  <2> QED BY <2>1, <2>4
<1>6. call' \in [Callers -> Frame] /\ call'[Matcher] = IdleFrame
      /\ \A c \in Callers \ {Matcher} : call'[c] = call[c]
  BY <1>1, <1>3, IdleGood DEF Set
<1>7. CatalogTypeOK'
  BY <1>1, <1>3, <1>4, <1>5, <1>6, Tables DEF CatalogTypeOK, QueueOK
<1>8. \A c \in Callers : GoodFrame(call[c])'
  <2> SUFFICES ASSUME NEW c \in Callers PROVE GoodFrame(call[c])'
    OBVIOUS
  <2>1. CASE c = Matcher
    <3>1. call'[c].pc = "idle"
      BY <1>6, <2>1, FramesTyped
    <3> QED BY <3>1 DEF GoodFrame
  <2>2. CASE c # Matcher
    <3>1. call'[c] = call[c] /\ GoodFrame(call[c])
      BY <1>3, <1>6, <2>2
    <3> QED BY <1>1, <3>1 DEF GoodFrame
  <2> QED BY <2>1, <2>2
<1>9. OneWriter'
  <2> SUFFICES ASSUME NEW c \in Callers, call'[c].pc \in Working
               PROVE  inflight'[call'[c].album] = c
    BY DEF OneWriter
  <2>1. c # Matcher
    BY <1>6, IdleGood
  <2> QED BY <1>1, <1>3, <1>6, <2>1 DEF OneWriter
<1>10. (call[Engine].pc # "idle" => batch # <<>>)'
  BY <1>1, <1>3, <1>5, <1>6 DEF Callers
<1>11. FillGood' /\ FreshHasRows' /\ (process.order # <<>>)'
  BY <1>1, <1>3 DEF FillGood, FreshHasRows
<1> QED BY <1>7, <1>8, <1>9, <1>10, <1>11, InvPartsNext

\* Nobody is at work after a start.
LEMMA FreshStart ==
  ASSUME process.legacy \subseteq CatAlbums
  PROVE  LET f == FillAtStart
         IN /\ f \in [pc : {"rows", "meta", "remainder", "enqueue", "done"},
                      todo : SUBSET CatAlbums, album : CatAlbums \cup {NoCaller}]
            /\ f.pc # "meta" /\ (f.pc = "rows" => process.legacy # {})
  BY DEF FillAtStart

LEMMA RestartKept ==
  ASSUME CatalogInv, Restart
  PROVE  CatalogInv'
<1>1. /\ call' = [c \in Callers |-> IdleFrame] /\ inflight' = [a \in CatAlbums |-> NoCaller]
      /\ batch' = <<>> /\ fill' = FillAtStart
      /\ process' = [process EXCEPT !.left = @ - 1] /\ process.left > 0
      /\ UNCHANGED <<queue, meta, rows>>
  BY DEF Restart, catalogVars
<1>2. /\ CatalogTypeOK /\ FreshHasRows /\ process.order # <<>>
  BY InvParts
<1>3. /\ process' \in [order : Seq(Sources), identity : SUBSET Sources,
                       legacy : SUBSET CatAlbums, left : Nat]
      /\ process'.order = process.order
      /\ process.legacy \subseteq CatAlbums
  <2>1. process \in [order : Seq(Sources), identity : SUBSET Sources,
                     legacy : SUBSET CatAlbums, left : Nat]
    BY <1>2 DEF CatalogTypeOK
  <2>2. process.left - 1 \in Nat
    BY <1>1, <2>1
  <2> QED BY <1>1, <2>1, <2>2
<1>4. fill' \in [pc : {"rows", "meta", "remainder", "enqueue", "done"},
                 todo : SUBSET CatAlbums, album : CatAlbums \cup {NoCaller}]
      /\ fill'.pc # "meta"
  BY <1>1, <1>3, FreshStart
<1>5. \A c \in Callers : call'[c] = IdleFrame /\ call'[c].pc = "idle" /\ call'[c] \in Frame
  BY <1>1, FramesTyped
<1>6. CatalogTypeOK'
  <2>1. batch' \in Seq(Claimed) /\ Len(batch') <= BatchSize
    BY <1>1, RefreshAssumption
  <2>2. call' \in [Callers -> Frame] /\ inflight' \in [CatAlbums -> Callers \cup {NoCaller}]
    BY <1>1, <1>5, FramesTyped
  <2> QED BY <1>1, <1>2, <1>3, <1>4, <2>1, <2>2 DEF CatalogTypeOK
<1>7. (\A c \in Callers : GoodFrame(call[c])) '
  BY <1>5 DEF GoodFrame
<1>8. OneWriter' /\ (call[Engine].pc # "idle" => batch # <<>>)'
  BY <1>5 DEF OneWriter, Working, Callers
<1>9. FillGood' /\ FreshHasRows' /\ (process.order # <<>>)'
  BY <1>1, <1>2, <1>3, <1>4 DEF FillGood, FreshHasRows
<1> QED BY <1>6, <1>7, <1>8, <1>9, InvPartsNext

----------------------------------------------------------------------------
(* The invariant holds *)

LEMMA CatalogInvInit == Init => CatalogInv
<1> SUFFICES ASSUME Init PROVE CatalogInv
  OBVIOUS
<1>1. /\ process \in Setups /\ queue = [a \in CatAlbums |-> NoRow]
      /\ meta = [a \in CatAlbums |-> NoMeta] /\ rows = [a \in CatAlbums |-> "none"]
      /\ call = [c \in Callers |-> IdleFrame]
      /\ inflight = [a \in CatAlbums |-> NoCaller]
      /\ batch = <<>> /\ fill = FillAtStart
  BY DEF Init
<1>2. /\ process \in [order : Seq(Sources), identity : SUBSET Sources,
                      legacy : SUBSET CatAlbums, left : Nat]
      /\ process.order # <<>> /\ process.legacy \subseteq CatAlbums
  BY <1>1, SetupAssumption
<1>3. fill \in [pc : {"rows", "meta", "remainder", "enqueue", "done"},
                todo : SUBSET CatAlbums, album : CatAlbums \cup {NoCaller}]
      /\ fill.pc # "meta"
  BY <1>1, <1>2, FreshStart
<1>4. \A c \in Callers : call[c] = IdleFrame /\ call[c].pc = "idle" /\ call[c] \in Frame
  BY <1>1, FramesTyped
<1>5. NoMeta.status = "none" /\ NoMeta \in Meta
  BY FramesTyped DEF NoMeta
<1>6. CatalogTypeOK
  <2>1. NoRow \in [queued : BOOLEAN, due : Due, att : 0 .. MaxAttempts - 1]
    BY RefreshAssumption DEF NoRow, Due
  <2>2. batch \in Seq(Claimed) /\ Len(batch) <= BatchSize
    BY <1>1, RefreshAssumption
  <2>3. call \in [Callers -> Frame] /\ inflight \in [CatAlbums -> Callers \cup {NoCaller}]
    BY <1>1, <1>4, FramesTyped
  <2>4. /\ queue \in [CatAlbums -> [queued : BOOLEAN, due : Due, att : 0 .. MaxAttempts - 1]]
        /\ meta \in [CatAlbums -> Meta]
        /\ rows \in [CatAlbums -> {"none", "library", "full", "single"}]
    BY <1>1, <1>5, <2>1
  <2> QED BY <1>2, <1>3, <2>2, <2>3, <2>4 DEF CatalogTypeOK
<1>7. (\A c \in Callers : GoodFrame(call[c])) /\ OneWriter
  BY <1>4 DEF GoodFrame, OneWriter, Working
<1>8. FillGood /\ FreshHasRows /\ (call[Engine].pc # "idle" => batch # <<>>)
  BY <1>1, <1>3, <1>4, <1>5 DEF FillGood, FreshHasRows, Callers
<1> QED BY <1>2, <1>6, <1>7, <1>8, InvParts

LEMMA CatalogInvStep == CatalogInv /\ [Next]_refreshVars => CatalogInv'
<1> SUFFICES ASSUME CatalogInv, [Next]_refreshVars PROVE CatalogInv'
  OBVIOUS
<1>1. CASE EngineStep /\ UNCHANGED <<fill, process>>
  BY <1>1, ClaimBatchKept, NextItemKept, ProcessItemKept, RecordAlbumFailureKept, RetryOrFailKept
     DEF EngineStep
<1>2. CASE \E c \in Callers : CallStep(c) /\ UNCHANGED <<fill, process>>
  BY <1>2, CallStepKept
<1>3. CASE \E c \in Callers : ContextEnds(c) /\ UNCHANGED <<fill, process>>
  BY <1>3, ContextEndsKept
<1>4. CASE \E c \in Callers : WaitEnds(c) /\ UNCHANGED <<fill, process>>
  BY <1>4, WaitEndsKept
<1>5. CASE \E a \in CatAlbums : ColdFetch(a) \/ WarmLibrary(a)
  <2>1. PICK a \in CatAlbums : ColdFetch(a) \/ WarmLibrary(a)
    BY <1>5
  <2>2. /\ RefreshAlbum(Visitor, a) /\ Visitor \in Callers /\ Visitor # Engine
        /\ UNCHANGED <<catalogVars, batch, fill, process>>
    BY <2>1 DEF ColdFetch, WarmLibrary, Callers, Visitor, Engine
  <2> QED BY <2>2, RefreshAlbumKept
<1>6. CASE \/ \E a \in CatAlbums : OpenStaleAlbum(a) \/ EnqueueAlbum(a) \/ RowDue(a)
           \/ ReArm
  BY <1>6, QueueStepsKept
<1>7. CASE CleanupQueue \/ \E a \in CatAlbums : MatchAlbum(a)
  BY <1>7, CleanupQueueKept, MatchAlbumKept
<1>8. CASE MaterializeResolved /\ UNCHANGED <<fill, process>>
  BY <1>8, MaterializeResolvedKept
<1>9. CASE \/ \E a \in CatAlbums : BackfillTracks(a) \/ SkipUnreadable(a) \/ EnqueueRemainder(a)
           \/ BackfillMetadata \/ ReadRemainder
  BY <1>9, BackfillStepsKept
<1>10. CASE QuarterPasses \/ Restart
  BY <1>10, QuarterPassesKept, RestartKept
<1>11. CASE UNCHANGED refreshVars
  <2>1. UNCHANGED <<queue, meta, rows, call, inflight, batch, fill, process>>
    BY <1>11 DEF refreshVars, catalogVars, engineVars
  <2> QED BY <2>1 DEF CatalogInv, CatalogTypeOK, FramesWell, OneWriter, SearchAccounted,
                      SearchedBeforeUnmatched, FreshHasRows, FreshToBeHasRows
<1> QED BY <1>1, <1>2, <1>3, <1>4, <1>5, <1>6, <1>7, <1>8, <1>9, <1>10, <1>11 DEF Next

LEMMA CatalogInvHolds == Spec => []CatalogInv
  BY CatalogInvInit, CatalogInvStep, PTL DEF Spec

\* Every table, frame, batch and backfill position holds values of its kind, for
\* any albums, providers, limits and set-ups.
THEOREM CatalogTypes == Spec => []CatalogTypeOK
<1>1. CatalogInv => CatalogTypeOK
  BY DEF CatalogInv
<1> QED BY <1>1, CatalogInvHolds, PTL

\* Refreshes, cold fetches, the warm job and identity matches of an album never
\* interleave their writes: whoever works on it owns its slot (service.go
\* inflight).
THEOREM CatalogOneWriter == Spec => []OneWriter
<1>1. CatalogInv => OneWriter
  BY DEF CatalogInv
<1> QED BY <1>1, CatalogInvHolds, PTL

\* Every live provider was searched and answered before an album is declared
\* unmatched (materialize.go refreshAlbum).
THEOREM CatalogSearchedBeforeUnmatched == Spec => []SearchedBeforeUnmatched
<1>1. CatalogInv => SearchedBeforeUnmatched
  BY DEF CatalogInv
<1> QED BY <1>1, CatalogInvHolds, PTL

\* An album called fresh has a tracklist, although the two are written in two
\* transactions and copies of the row are written back later.
THEOREM CatalogFreshHasRows == Spec => []FreshHasRows
<1>1. CatalogInv => FreshHasRows
  BY DEF CatalogInv
<1> QED BY <1>1, CatalogInvHolds, PTL

----------------------------------------------------------------------------
(* A partial album is not expanded *)

\* PartialKept without its guard, for a process without legacy rows.
PartialAll ==
  /\ \A a \in CatAlbums : meta[a].status \in {"none", "unmatched"} => ~meta[a].partial
  /\ \A c \in Callers : PartialFrame(call[c])
  /\ call[Engine].pc = "failure" /\ call[Engine].prev.partial => meta[call[Engine].album].partial
  /\ fill.pc \notin {"rows", "meta"}

\* One caller takes a step: nobody else's album becomes partial, and only the
\* engine, booking a failure, may take the mark away.
LEMMA PartialMoves ==
  ASSUME CatalogInv, PartialAll, NEW c \in Callers, NEW f \in Frame, Set(c, f),
         PartialFrame(f)',
         \A a \in CatAlbums : meta'[a].status \in {"none", "unmatched"} => ~meta'[a].partial,
         \A a \in CatAlbums : meta'[a].partial => meta[a].partial \/ inflight[a] = c,
         c # Engine => \A a \in CatAlbums : meta[a].partial => meta'[a].partial,
         c = Engine /\ f.pc = "failure" /\ f.prev.partial => meta'[f.album].partial,
         fill'.pc \notin {"rows", "meta"}
  PROVE  PartialAll'
<1>1. call'[c] = f /\ \A k \in Callers \ {c} : call'[k] = call[k]
  BY Tables DEF Set
<1>2. \A k \in Callers : PartialFrame(call[k])'
  <2> SUFFICES ASSUME NEW k \in Callers, k # c PROVE PartialFrame(call[k])'
    BY <1>1 DEF PartialFrame, Expanding
  <2>1. call'[k] = call[k] /\ PartialFrame(call[k])
    BY <1>1 DEF PartialAll
  <2>2. Expanding(call[k]) => inflight[call[k].album] = k /\ call[k].album \in CatAlbums
    <3> SUFFICES ASSUME Expanding(call[k])
                 PROVE  inflight[call[k].album] = k /\ call[k].album \in CatAlbums
      OBVIOUS
    <3>1. call[k].pc \in Working /\ call[k].pc # "idle"
      BY DEF Expanding, Working
    <3> QED BY <3>1, AtWork
  <2> QED BY <2>1, <2>2 DEF PartialFrame, Expanding
<1>3. (call[Engine].pc = "failure" /\ call[Engine].prev.partial => meta[call[Engine].album].partial)'
  <2>1. CASE c = Engine
    BY <1>1, <2>1
  <2>2. CASE c # Engine
    <3>1. Engine \in Callers /\ call'[Engine] = call[Engine]
      BY <1>1, <2>2 DEF Callers
    <3>2. call[Engine].pc = "failure" => call[Engine].album \in CatAlbums
      BY <3>1, AtWork
    <3> QED BY <2>2, <3>1, <3>2 DEF PartialAll
  <2> QED BY <2>1, <2>2
<1> QED BY <1>2, <1>3 DEF PartialAll

\* A frame that neither looks for a release nor holds a row is no matter here.
LEMMA QuietFrame ==
  ASSUME NEW f, f.pc \in {"idle", "join", "acquire", "publish", "cleanup", "book"}, f.prev = NoMeta
  PROVE  PartialFrame(f) /\ PartialFrame(f)'
  BY DEF PartialFrame, Expanding, NoMeta

\* A caller that writes no metadata.
LEMMA PartialMovesOnly ==
  ASSUME CatalogInv, PartialAll, NEW c \in Callers, NEW f \in Frame, Set(c, f),
         PartialFrame(f),
         c = Engine /\ f.pc = "failure" /\ f.prev.partial => meta[f.album].partial,
         UNCHANGED <<meta, fill>>
  PROVE  PartialAll'
<1>1. PartialFrame(f)'
  BY DEF PartialFrame
<1>2. \A a \in CatAlbums : meta'[a].status \in {"none", "unmatched"} => ~meta'[a].partial
  BY DEF PartialAll
<1> QED BY <1>1, <1>2, PartialMoves DEF PartialAll

\* An owner that writes the metadata row of its album and returns.
LEMMA PartialWrites ==
  ASSUME CatalogInv, PartialAll, NEW c \in Callers, call[c].pc \in Working, NEW m \in Meta,
         NEW o \in Outcomes,
         meta' = [meta EXCEPT ![call[c].album] = m], Set(c, Return(call[c], o)),
         m.status \in {"none", "unmatched"} => ~m.partial,
         meta[call[c].album].partial => m.partial,
         UNCHANGED fill
  PROVE  PartialAll'
<1>1. call[c].pc # "idle"
  BY DEF Working
<1>2. call[c] \in Frame /\ call[c].album \in CatAlbums /\ inflight[call[c].album] = c
      /\ meta \in [CatAlbums -> Meta]
  BY <1>1, AtWork
<1> PICK f : f = Return(call[c], o)
  OBVIOUS
<1>3. f \in Frame /\ f.pc = "publish" /\ f.prev = NoMeta
  BY <1>2, ReturnFrame
<1>4. PartialFrame(f)'
  BY <1>3, QuietFrame
<1>5. \A a \in CatAlbums : meta'[a] = IF a = call[c].album THEN m ELSE meta[a]
  BY <1>2
<1>6. \A a \in CatAlbums : meta'[a].status \in {"none", "unmatched"} => ~meta'[a].partial
  BY <1>5 DEF PartialAll
<1>7. \A a \in CatAlbums : meta'[a].partial => meta[a].partial \/ inflight[a] = c
  BY <1>2, <1>5
<1>8. \A a \in CatAlbums : meta[a].partial => meta'[a].partial
  BY <1>5
<1> QED BY <1>3, <1>4, <1>6, <1>7, <1>8, PartialMoves DEF PartialAll

LEMMA PartialCallStep ==
  ASSUME CatalogInv, PartialAll, NEW c \in Callers, CallStep(c), UNCHANGED <<fill, process>>
  PROVE  PartialAll'
<1>1. PartialFrame(call[c]) /\ call[c] \in Frame
  BY Tables DEF PartialAll
<1>2. ASSUME call[c].pc # "idle"
      PROVE  /\ call[c].album \in CatAlbums /\ GoodFrame(call[c])
             /\ call[c].prev \in Meta /\ call[c].plan \in Plan /\ process.order \in Seq(Sources)
  BY <1>2, AtWork
<1>3. CASE TouchPartial(c)
  <2>1. call[c].pc = "touch" /\ call[c].pc \in Working /\ call[c].pc # "idle"
    BY <1>3 DEF TouchPartial, Working
  <2> PICK m : m = [call[c].prev EXCEPT !.old = FALSE]
    OBVIOUS
  <2>2. m \in Meta /\ m.status = call[c].prev.status /\ m.partial = call[c].prev.partial
    BY <1>2, <2>1 DEF Meta
  <2> QED BY <1>1, <1>3, <2>1, <2>2, PartialWrites DEF TouchPartial, PartialFrame, Outcomes
<1>4. CASE FetchLink(c)
  <2>1. call[c].pc = "link" /\ call[c].pc # "idle" /\ UNCHANGED <<meta, fill>>
    BY <1>4 DEF FetchLink, catalogVars
  <2>2. ~meta[call[c].album].partial /\ ~call[c].prev.partial
    BY <1>1, <2>1 DEF PartialFrame, Expanding
  <2>3. PICK f : /\ Set(c, f)
                 /\ \/ f = WriteFull(call[c], call[c].prev.link)
                    \/ \E o \in {"later", "ctx"} : f = Return(call[c], o)
                    \/ f = [call[c] EXCEPT !.pc = "unlink"]
    BY <1>4 DEF FetchLink
  <2>4. f \in Frame /\ PartialFrame(f) /\ f.pc # "failure"
    <3>1. CASE f = WriteFull(call[c], call[c].prev.link)
      <4>1. call[c].prev.link \in Sources \cup {NoSource}
        BY <1>2, <2>1 DEF Meta
      <4>2. /\ f \in Frame /\ f.pc = "rows" /\ f.album = call[c].album
            /\ f.prev = NoMeta /\ f.plan.tracks = "full" /\ f.plan.partial = FALSE
        BY <1>1, <1>2, <2>1, <3>1, <4>1, WriteFullFrame
      <4> QED BY <2>2, <4>2 DEF PartialFrame, NoMeta
    <3>2. CASE \E o \in {"later", "ctx"} : f = Return(call[c], o)
      <4>1. f \in Frame /\ f.pc = "publish" /\ f.prev = NoMeta
        BY <1>1, <1>2, <2>1, <3>2, ReturnFrame DEF Outcomes
      <4> QED BY <4>1, QuietFrame
    <3>3. CASE f = [call[c] EXCEPT !.pc = "unlink"]
      <4>1. f \in Frame /\ f.album = call[c].album /\ f.pc = "unlink" /\ f.prev = call[c].prev
        BY <1>1, <3>3 DEF Frame, Pcs
      <4> QED BY <2>2, <4>1 DEF PartialFrame
    <3> QED BY <2>3, <3>1, <3>2, <3>3
  <2> QED BY <2>1, <2>3, <2>4, PartialMovesOnly
<1>5. CASE ClearProviderLink(c)
  <2>1. call[c].pc = "unlink" /\ call[c].pc \in Working /\ call[c].pc # "idle"
    BY <1>5 DEF ClearProviderLink, Working
  <2> PICK m : m = [call[c].prev EXCEPT !.link = NoSource,
                      !.old = @ /\ Materialized(call[c].prev)]
    OBVIOUS
  <2>2. m \in Meta /\ m.partial = call[c].prev.partial
    BY <1>2, <2>1 DEF Meta, Materialized
  <2>3. ~meta[call[c].album].partial /\ ~call[c].prev.partial
    BY <1>1, <2>1 DEF PartialFrame, Expanding
  <2> QED BY <1>5, <2>1, <2>2, <2>3, PartialWrites DEF ClearProviderLink, Outcomes
<1>6. CASE TrySource(c)
  <2>1. call[c].pc = "search" /\ call[c].pc # "idle" /\ UNCHANGED <<meta, fill>>
    BY <1>6 DEF TrySource, catalogVars
  <2>2. ~meta[call[c].album].partial /\ ~call[c].prev.partial
    BY <1>1, <2>1 DEF PartialFrame, Expanding
  <2> DEFINE s == [call[c] EXCEPT !.searched = @ \cup {Head(call[c].todo)}]
  <2>3. PICK f : /\ Set(c, f)
                 /\ \/ \E k \in {"cooling", "rate", "searchBusy", "transient"} :
                         f = NextSource(call[c], k)
                    \/ f = NextSource(s, "none")
                    \/ \E k \in {"rate", "fetchBusy", "ctx", "hard"} : f = NextSource(s, k)
                    \/ f = WriteFull(call[c], Head(call[c].todo))
    BY <1>6 DEF TrySource
  <2>4. /\ call[c].album \in CatAlbums /\ GoodFrame(call[c]) /\ process.order \in Seq(Sources)
        /\ call[c].todo # <<>> /\ Head(call[c].todo) \in Sources
        /\ call[c].prev.status = "fresh" => rows[call[c].album] # "none"
    BY <1>1, <1>2, <2>1, HeadAndTail DEF GoodFrame, Frame
  <2>5. CASE f = WriteFull(call[c], Head(call[c].todo))
    <3>1. /\ f \in Frame /\ f.pc = "rows" /\ f.album = call[c].album
          /\ f.prev = NoMeta /\ f.plan.tracks = "full" /\ f.plan.partial = FALSE
      BY <1>1, <2>4, <2>5, WriteFullFrame
    <3>2. PartialFrame(f)
      BY <2>2, <3>1 DEF PartialFrame, NoMeta
    <3> QED BY <2>1, <2>3, <3>1, <3>2, PartialMovesOnly
  <2>6. CASE f # WriteFull(call[c], Head(call[c].todo))
    <3>1. /\ f \in Frame /\ f.album = call[c].album
          /\ f.pc \in {"search", "unmatch", "publish"} /\ f.prev \in {call[c].prev, NoMeta}
      <4>1. CASE \E k \in {"cooling", "rate", "searchBusy", "transient"} :
                   f = NextSource(call[c], k)
        BY <1>1, <2>4, <4>1, NextSourceFrame DEF Misses
      <4>2. CASE f = NextSource(s, "none")
        BY <1>1, <2>1, <2>4, <4>2, SearchedFrame
      <4>3. CASE \E k \in {"rate", "fetchBusy", "ctx", "hard"} : f = NextSource(s, k)
        <5>1. /\ s \in Frame /\ s.album = call[c].album /\ s.todo = call[c].todo
              /\ s.prev = call[c].prev
          BY <1>1, <2>4 DEF Frame
        <5> HIDE DEF s
        <5> QED BY <2>4, <4>3, <5>1, NextSourceFrame DEF Misses
      <4> HIDE DEF s
      <4> QED BY <2>3, <2>6, <4>1, <4>2, <4>3
    <3>2. PartialFrame(f)
      BY <2>2, <3>1 DEF PartialFrame, NoMeta
    <3> QED BY <2>1, <2>3, <3>1, <3>2, PartialMovesOnly
  <2> QED BY <2>5, <2>6
<1>7. CASE MarkUnmatched(c)
  <2>1. call[c].pc = "unmatch" /\ call[c].pc \in Working /\ call[c].pc # "idle"
    BY <1>7 DEF MarkUnmatched, Working
  <2> PICK m : m = [call[c].prev EXCEPT !.status = "unmatched", !.old = FALSE]
    OBVIOUS
  <2>2. m \in Meta /\ m.partial = call[c].prev.partial
    BY <1>2, <2>1 DEF Meta
  <2>3. ~meta[call[c].album].partial /\ ~call[c].prev.partial
    BY <1>1, <2>1 DEF PartialFrame, Expanding
  <2> QED BY <1>7, <2>1, <2>2, <2>3, PartialWrites DEF MarkUnmatched, Outcomes
<1>8. CASE ReplaceAlbumTracks(c)
  <2>1. call[c].pc = "rows" /\ UNCHANGED <<meta, fill>>
    BY <1>8 DEF ReplaceAlbumTracks
  <2> PICK f : f = [call[c] EXCEPT !.pc = "meta"]
    OBVIOUS
  <2>2. f \in Frame /\ f.album = call[c].album /\ f.pc = "meta"
        /\ f.prev = call[c].prev /\ f.plan = call[c].plan
    BY <1>1 DEF Frame, Pcs
  <2>3. PartialFrame(f)
    BY <1>1, <2>1, <2>2 DEF PartialFrame, Expanding
  <2>4. Set(c, f)
    BY <1>8 DEF ReplaceAlbumTracks
  <2> QED BY <2>1, <2>2, <2>3, <2>4, PartialMovesOnly
<1>9. CASE UpsertMaterialized(c)
  <2>1. call[c].pc = "meta" /\ call[c].pc \in Working /\ call[c].pc # "idle"
    BY <1>9 DEF UpsertMaterialized, Working
  <2> PICK m : m = [link |-> call[c].plan.link, status |-> "fresh",
                    partial |-> call[c].plan.partial, old |-> FALSE]
    OBVIOUS
  <2>2. m \in Meta /\ m.status = "fresh"
    BY <1>2, <2>1 DEF Meta, Plan
  <2>3. ~meta[call[c].album].partial
    BY <1>1, <2>1 DEF PartialFrame, Expanding
  <2> PICK o : o = IF c = Matcher THEN "applied" ELSE "matched"
    OBVIOUS
  <2> QED BY <1>9, <2>1, <2>2, <2>3, PartialWrites DEF UpsertMaterialized, Outcomes
<1>10. CASE FinishCall(c)
  <2>1. UNCHANGED <<meta, fill>>
    BY <1>10 DEF FinishCall, catalogVars
  <2>2. \A k \in Callers :
          \/ call'[k] = call[k]
          \/ call'[k].pc \in {"idle", "cleanup", "book"} /\ call'[k].prev = NoMeta
    BY <1>10, FinishCallFrames
  <2>3. \A k \in Callers : PartialFrame(call[k])'
    <3> SUFFICES ASSUME NEW k \in Callers PROVE PartialFrame(call[k])'
      OBVIOUS
    <3>1. CASE call'[k] = call[k]
      <4>1. PartialFrame(call[k])
        BY DEF PartialAll
      <4> QED BY <2>1, <3>1, <4>1 DEF PartialFrame
    <3>2. CASE call'[k].pc \in {"idle", "cleanup", "book"} /\ call'[k].prev = NoMeta
      BY <3>2 DEF PartialFrame, Expanding, NoMeta
    <3> QED BY <2>2, <3>1, <3>2
  <2>4. Engine \in Callers
    BY DEF Callers
  <2> QED BY <2>1, <2>2, <2>3, <2>4 DEF PartialAll
<1> QED BY <1>3, <1>4, <1>5, <1>6, <1>7, <1>8, <1>9, <1>10 DEF CallStep

\* A caller that becomes idle, waits or returns.
LEMMA PartialQuiet ==
  ASSUME CatalogInv, PartialAll, NEW c \in Callers, NEW f \in Frame, Set(c, f),
         f.pc \in {"idle", "join", "acquire", "publish", "cleanup", "book"}, f.prev = NoMeta,
         UNCHANGED <<meta, fill>>
  PROVE  PartialAll'
  BY QuietFrame, PartialMovesOnly

LEMMA PartialRefreshAlbum ==
  ASSUME CatalogInv, PartialAll, NEW c \in Callers, NEW a \in CatAlbums, RefreshAlbum(c, a),
         UNCHANGED <<meta, fill>>
  PROVE  PartialAll'
<1>1. CASE inflight[a] # NoCaller
  <2> PICK f : f = [IdleFrame EXCEPT !.pc = "join", !.album = a]
    OBVIOUS
  <2>1. Set(c, f)
    BY <1>1 DEF RefreshAlbum
  <2>2. f \in Frame
    BY FramesTyped DEF Frame, Pcs
  <2>3. f.pc = "join" /\ f.prev = NoMeta
    BY DEF IdleFrame
  <2> QED BY <2>1, <2>2, <2>3, PartialQuiet
<1>2. CASE inflight[a] = NoCaller
  <2>1. PICK f \in Started(a) : Set(c, f)
    BY <1>2 DEF RefreshAlbum
  <2>2. /\ f \in Frame /\ f.album = a /\ f.prev = meta[a]
        /\ \/ f.pc = "touch" /\ meta[a].partial
           \/ f.pc \in {"link", "search"} /\ ~meta[a].partial
    BY StartedFrames, Tables
  <2>3. PartialFrame(f) /\ f.pc # "failure"
    BY <2>2 DEF PartialFrame, PartialAll, Expanding
  <2> QED BY <2>1, <2>2, <2>3, PartialMovesOnly
<1> QED BY <1>1, <1>2

LEMMA IdleQuiet == IdleFrame \in Frame /\ IdleFrame.pc = "idle" /\ IdleFrame.prev = NoMeta
<1>1. IdleFrame.prev = NoMeta
  BY DEF IdleFrame
<1> QED BY <1>1, FramesTyped

LEMMA PartialEngine ==
  ASSUME CatalogInv, PartialAll, EngineStep, UNCHANGED <<fill, process>>
  PROVE  PartialAll'
<1>1. Engine \in Callers /\ meta \in [CatAlbums -> Meta] /\ call[Engine] \in Frame
  BY Tables DEF Callers
<1>2. CASE ClaimBatch
  BY <1>2 DEF ClaimBatch, catalogVars, PartialAll, PartialFrame
<1>3. CASE NextItem
  <2>1. batch # <<>> /\ RefreshAlbum(Engine, Head(batch).album) /\ UNCHANGED <<meta, fill>>
    BY <1>3 DEF NextItem, catalogVars
  <2>2. Head(batch).album \in CatAlbums
    BY <2>1, BatchParts DEF Claimed
  <2> QED BY <1>1, <2>1, <2>2, PartialRefreshAlbum
<1>4. CASE ProcessItem
  <2>1. call[Engine].pc = "book" /\ UNCHANGED <<meta, fill>>
    BY <1>4 DEF ProcessItem
  <2>2. call[Engine].album \in CatAlbums
    BY <1>1, <2>1, AtWork
  <2>3. CASE Set(Engine, IdleFrame)
    BY <1>1, <2>1, <2>3, IdleQuiet, PartialQuiet
  <2>4. CASE Set(Engine, [call[Engine] EXCEPT !.pc = "failure", !.prev = meta[call[Engine].album]])
    <3> PICK f : f = [call[Engine] EXCEPT !.pc = "failure", !.prev = meta[call[Engine].album]]
      OBVIOUS
    <3>1. f \in Frame /\ f.pc = "failure" /\ f.album = call[Engine].album
          /\ f.prev = meta[call[Engine].album]
      BY <1>1, <2>2 DEF Frame, Pcs
    <3>2. PartialFrame(f)
      BY <2>2, <3>1 DEF PartialFrame, PartialAll, Expanding
    <3> QED BY <1>1, <2>1, <2>4, <3>1, <3>2, PartialMovesOnly
  <2> QED BY <1>4, <2>3, <2>4 DEF ProcessItem
<1>5. CASE RecordAlbumFailure
  <2> PICK st \in {"failed", "pending"} :
        meta' = [meta EXCEPT ![call[Engine].album] =
                   [call[Engine].prev EXCEPT !.old = FALSE, !.status = st]]
    BY <1>5 DEF RecordAlbumFailure
  <2>1. call[Engine].pc = "failure"
    BY <1>5 DEF RecordAlbumFailure
  <2>2. call[Engine].album \in CatAlbums /\ call[Engine].prev \in Meta
    BY <1>1, <2>1, AtWork
  <2> PICK m : m = [call[Engine].prev EXCEPT !.old = FALSE, !.status = st]
    OBVIOUS
  <2>3. m.status = st /\ m.partial = call[Engine].prev.partial
    BY <2>2 DEF Meta
  <2>4. \A a \in CatAlbums : meta'[a] = IF a = call[Engine].album THEN m ELSE meta[a]
    BY <1>1, <2>2
  <2>5. /\ \A a \in CatAlbums : meta'[a].status \in {"none", "unmatched"} => ~meta'[a].partial
        /\ \A a \in CatAlbums : meta'[a].partial => meta[a].partial
    BY <2>1, <2>3, <2>4 DEF PartialAll
  <2> PICK f : f = [call[Engine] EXCEPT !.pc = "retry"]
    OBVIOUS
  <2>6. f \in Frame /\ f.pc = "retry" /\ f.album = call[Engine].album /\ f.prev = call[Engine].prev
    BY <1>1 DEF Frame, Pcs
  <2>7. PartialFrame(f)'
    BY <1>1, <2>6 DEF PartialFrame, PartialAll, Expanding
  <2>8. Set(Engine, f)
    BY <1>5 DEF RecordAlbumFailure
  <2> QED BY <1>1, <2>5, <2>6, <2>7, <2>8, PartialMoves DEF PartialAll
<1>6. CASE RetryOrFail
  <2>1. Set(Engine, IdleFrame) /\ UNCHANGED <<meta, fill>>
    BY <1>6 DEF RetryOrFail
  <2> QED BY <1>1, <2>1, IdleQuiet, PartialQuiet
<1> QED BY <1>2, <1>3, <1>4, <1>5, <1>6 DEF EngineStep

LEMMA PartialMatcher ==
  ASSUME CatalogInv, PartialAll, MaterializeResolved, UNCHANGED <<fill, process>>
  PROVE  PartialAll'
<1>1. /\ call[Matcher].pc = "acquire" /\ Matcher \in Callers /\ Matcher # Engine
      /\ UNCHANGED <<meta, fill>>
  BY DEF MaterializeResolved, Callers, catalogVars, Matcher, Engine
<1>2. /\ call[Matcher] \in Frame /\ call[Matcher].album \in CatAlbums
  BY <1>1, AtWork
<1>3. CASE Set(Matcher, Return(call[Matcher], "matched"))
  <2> PICK f : f = Return(call[Matcher], "matched")
    OBVIOUS
  <2>1. f \in Frame /\ f.pc = "publish" /\ f.prev = NoMeta
    BY <1>2, ReturnFrame DEF Outcomes
  <2> QED BY <1>1, <1>3, <2>1, PartialQuiet
<1>4. CASE /\ meta[call[Matcher].album].status \in {"none", "unmatched"}
           /\ \E plan \in TrackMatchPlans \cup ReleaseMatchPlans :
                Set(Matcher, [call[Matcher] EXCEPT !.pc = "rows", !.plan = plan])
  <2>1. PICK plan \in TrackMatchPlans \cup ReleaseMatchPlans :
               Set(Matcher, [call[Matcher] EXCEPT !.pc = "rows", !.plan = plan])
    BY <1>4
  <2>2. plan \in Plan /\ (plan.partial => plan.tracks = "single")
    <3>1. process.identity \subseteq Sources
      BY InvParts DEF CatalogTypeOK
    <3> QED BY <3>1 DEF TrackMatchPlans, ReleaseMatchPlans, Plan
  <2> PICK f : f = [call[Matcher] EXCEPT !.pc = "rows", !.plan = plan]
    OBVIOUS
  <2>3. /\ f \in Frame /\ f.pc = "rows" /\ f.album = call[Matcher].album
        /\ f.plan = plan /\ f.prev = call[Matcher].prev
    BY <1>2, <2>2 DEF Frame, Pcs
  <2>4. ~call[Matcher].prev.partial
    BY <1>1 DEF PartialAll, PartialFrame
  <2>5. PartialFrame(f)
    BY <1>2, <1>4, <2>2, <2>3, <2>4 DEF PartialFrame, PartialAll, NoMeta
  <2> QED BY <1>1, <2>1, <2>3, <2>5, PartialMovesOnly
<1> QED BY <1>3, <1>4 DEF MaterializeResolved

\* Steps that leave the frames alone.
LEMMA PartialTables ==
  ASSUME PartialAll, UNCHANGED call,
         \A a \in CatAlbums : meta'[a].status = meta[a].status /\ meta'[a].partial = meta[a].partial,
         \A c \in Callers : call[c].pc # "idle" => UNCHANGED meta,
         fill'.pc \notin {"rows", "meta"}
  PROVE  PartialAll'
<1>1. \A c \in Callers : PartialFrame(call[c])'
  <2> SUFFICES ASSUME NEW c \in Callers PROVE PartialFrame(call[c])'
    OBVIOUS
  <2>1. PartialFrame(call[c])
    BY DEF PartialAll
  <2>2. CASE call[c].pc = "idle"
    BY <2>1, <2>2 DEF PartialFrame, Expanding
  <2>3. CASE call[c].pc # "idle"
    BY <2>1, <2>3 DEF PartialFrame, Expanding
  <2> QED BY <2>2, <2>3
<1>2. Engine \in Callers
  BY DEF Callers
<1> QED BY <1>1, <1>2 DEF PartialAll

LEMMA PartialStep ==
  ASSUME CatalogInv, process.legacy = {}, PartialAll, [Next]_refreshVars
  PROVE  PartialAll'
<1>1. CASE EngineStep /\ UNCHANGED <<fill, process>>
  BY <1>1, PartialEngine
<1>2. CASE \E c \in Callers : CallStep(c) /\ UNCHANGED <<fill, process>>
  BY <1>2, PartialCallStep
<1>3. CASE \E c \in Callers : ContextEnds(c) /\ UNCHANGED <<fill, process>>
  <2>1. PICK c \in Callers : ContextEnds(c) /\ UNCHANGED <<fill, process>>
    BY <1>3
  <2>2. call[c].pc # "idle" /\ UNCHANGED <<meta, fill>>
    BY <2>1 DEF ContextEnds, catalogVars
  <2> PICK f : f = Return(call[c], "ctx")
    OBVIOUS
  <2>3. f \in Frame /\ f.pc = "publish" /\ f.prev = NoMeta
    BY <2>2, AtWork, ReturnFrame DEF Outcomes
  <2>4. Set(c, f)
    BY <2>1 DEF ContextEnds
  <2> QED BY <2>2, <2>3, <2>4, PartialQuiet
<1>4. CASE \E c \in Callers : WaitEnds(c) /\ UNCHANGED <<fill, process>>
  <2>1. PICK c \in Callers : Set(c, IdleFrame) /\ UNCHANGED <<meta, fill>>
    BY <1>4 DEF WaitEnds, catalogVars
  <2> QED BY <2>1, IdleQuiet, PartialQuiet
<1>5. CASE \E a \in CatAlbums : ColdFetch(a) \/ WarmLibrary(a)
  <2>1. PICK a \in CatAlbums : ColdFetch(a) \/ WarmLibrary(a)
    BY <1>5
  <2>2. RefreshAlbum(Visitor, a) /\ Visitor \in Callers /\ UNCHANGED <<meta, fill>>
    BY <2>1 DEF ColdFetch, WarmLibrary, Callers, catalogVars
  <2> QED BY <2>2, PartialRefreshAlbum
<1>6. CASE \/ \E a \in CatAlbums : \/ OpenStaleAlbum(a) \/ EnqueueAlbum(a) \/ RowDue(a)
                                   \/ EnqueueRemainder(a)
           \/ ReArm \/ ReadRemainder
  <2>1. UNCHANGED <<call, meta>>
    BY <1>6 DEF OpenStaleAlbum, EnqueueAlbum, RowDue, EnqueueRemainder, ReArm, ReadRemainder,
                engineVars, catalogVars
  <2>2. fill'.pc \notin {"rows", "meta"}
    <3>1. FillOK
      BY FillTyped
    <3> QED BY <1>6, <3>1 DEF OpenStaleAlbum, EnqueueAlbum, RowDue, EnqueueRemainder, ReArm,
                              ReadRemainder, PartialAll, FillOK
  <2> QED BY <2>1, <2>2, PartialTables
<1>7. CASE \/ \E a \in CatAlbums : BackfillTracks(a) \/ SkipUnreadable(a)
           \/ BackfillMetadata
  BY <1>7 DEF BackfillTracks, SkipUnreadable, BackfillMetadata, PartialAll
<1>8. CASE CleanupQueue
  <2>1. Set(Matcher, IdleFrame) /\ Matcher \in Callers /\ UNCHANGED <<meta, fill>>
    BY <1>8 DEF CleanupQueue, Callers
  <2> QED BY <2>1, IdleQuiet, PartialQuiet
<1>9. CASE \E a \in CatAlbums : MatchAlbum(a)
  <2>1. PICK a \in CatAlbums : MatchAlbum(a)
    BY <1>9
  <2> PICK f : f = [IdleFrame EXCEPT !.pc = "acquire", !.album = a]
    OBVIOUS
  <2>2. f \in Frame
    BY FramesTyped DEF Frame, Pcs
  <2>3. f.pc = "acquire" /\ f.prev = NoMeta
    BY DEF IdleFrame
  <2>4. Set(Matcher, f) /\ Matcher \in Callers /\ UNCHANGED <<meta, fill>>
    BY <2>1 DEF MatchAlbum, Callers, catalogVars
  <2> QED BY <2>2, <2>3, <2>4, PartialQuiet
<1>10. CASE MaterializeResolved /\ UNCHANGED <<fill, process>>
  BY <1>10, PartialMatcher
<1>11. CASE QuarterPasses
  <2>1. UNCHANGED <<call, fill>> /\ \A c \in Callers : call[c].pc = "idle"
    BY <1>11 DEF QuarterPasses
  <2>2. \A a \in CatAlbums : meta'[a].status = meta[a].status /\ meta'[a].partial = meta[a].partial
    BY <1>11, Tables DEF QuarterPasses, Meta
  <2> QED BY <2>1, <2>2, PartialTables DEF PartialAll
<1>12. CASE Restart
  <2>1. /\ call' = [c \in Callers |-> IdleFrame] /\ UNCHANGED meta /\ fill'.pc = "done"
    BY <1>12 DEF Restart, FillAtStart, catalogVars
  <2>2. \A c \in Callers : call'[c].pc = "idle" /\ call'[c].prev = NoMeta
    BY <2>1, IdleQuiet
  <2>3. \A c \in Callers : PartialFrame(call[c])'
    BY <2>2 DEF PartialFrame, Expanding, NoMeta
  <2>4. Engine \in Callers
    BY DEF Callers
  <2> QED BY <2>1, <2>2, <2>3, <2>4 DEF PartialAll
<1>13. CASE UNCHANGED refreshVars
  <2>1. UNCHANGED <<meta, call, fill>>
    BY <1>13 DEF refreshVars, catalogVars, engineVars
  <2> QED BY <2>1, PartialTables DEF PartialAll
<1> QED BY <1>1, <1>2, <1>3, <1>4, <1>5, <1>6, <1>7, <1>8, <1>9, <1>10, <1>11, <1>12, <1>13
        DEF Next

\* No step changes which legacy rows a process found.
LEMMA LegacyKept ==
  ASSUME CatalogInv, [Next]_refreshVars
  PROVE  process'.legacy = process.legacy
<1>1. CASE Restart
  BY <1>1, InvParts DEF Restart, CatalogTypeOK
<1>2. CASE UNCHANGED process
  BY <1>2
<1> QED BY <1>1, <1>2 DEF Next, refreshVars, CleanupQueue, ColdFetch, OpenStaleAlbum, EnqueueAlbum,
                          WarmLibrary, RowDue, MatchAlbum, BackfillTracks, SkipUnreadable,
                          EnqueueRemainder, BackfillMetadata, ReadRemainder, ReArm, QuarterPasses

\* What a step does to the rows of a partial album.
LEMMA PartialRows ==
  ASSUME CatalogInv, process.legacy = {}, PartialAll, [Next]_refreshVars,
         NEW a \in CatAlbums, meta[a].partial
  PROVE  rows'[a] = rows[a]
<1>1. CASE \E c \in Callers : ReplaceAlbumTracks(c)
  <2>1. PICK c \in Callers : ReplaceAlbumTracks(c)
    BY <1>1
  <2>2. /\ call[c].pc = "rows"
        /\ rows' = [rows EXCEPT ![call[c].album] = call[c].plan.tracks]
    BY <2>1 DEF ReplaceAlbumTracks
  <2>3. ~meta[call[c].album].partial
    BY <2>2 DEF PartialAll, PartialFrame, Expanding
  <2> QED BY <2>2, <2>3, Tables
<1>2. CASE UNCHANGED rows
  BY <1>2
<1>3. \/ \E c \in Callers : ReplaceAlbumTracks(c)
      \/ UNCHANGED rows
  <2>1. CASE EngineStep \/ MaterializeResolved
    BY <2>1 DEF EngineStep, ClaimBatch, NextItem, ProcessItem, RecordAlbumFailure, RetryOrFail,
                MaterializeResolved, catalogVars
  <2>2. CASE \E c \in Callers : CallStep(c) \/ ContextEnds(c) \/ WaitEnds(c)
    BY <2>2 DEF CallStep, TouchPartial, FetchLink, ClearProviderLink, TrySource, MarkUnmatched,
                UpsertMaterialized, FinishCall, ContextEnds, WaitEnds, catalogVars
  <2>3. CASE \E b \in CatAlbums : BackfillTracks(b)
    BY <2>3 DEF BackfillTracks, PartialAll
  <2> QED BY <2>1, <2>2, <2>3 DEF Next, refreshVars, catalogVars, CleanupQueue, ColdFetch,
            OpenStaleAlbum, EnqueueAlbum, WarmLibrary, RowDue, MatchAlbum, SkipUnreadable,
            EnqueueRemainder, BackfillMetadata, ReadRemainder, ReArm, QuarterPasses, Restart
<1> QED BY <1>1, <1>2, <1>3

LEMMA PartialKeptHolds == Spec => []PartialKept
<1>1. PartialKept <=> (process.legacy = {} => PartialAll)
  BY DEF PartialKept, PartialAll
<1>2. PartialKept' <=> (process'.legacy = {} => PartialAll')
  BY DEF PartialKept, PartialAll
<1>3. Init => PartialKept
  <2> SUFFICES ASSUME Init, process.legacy = {} PROVE PartialAll
    BY <1>1
  <2>1. /\ meta = [a \in CatAlbums |-> NoMeta] /\ call = [c \in Callers |-> IdleFrame]
        /\ fill.pc = "done"
    BY DEF Init, FillAtStart
  <2>2. \A c \in Callers : PartialFrame(call[c]) /\ call[c].pc = "idle"
    BY <2>1, IdleQuiet, QuietFrame
  <2>3. NoMeta.partial = FALSE /\ Engine \in Callers
    BY DEF NoMeta, Callers
  <2> QED BY <2>1, <2>2, <2>3 DEF PartialAll
<1>4. CatalogInv /\ PartialKept /\ [Next]_refreshVars => PartialKept'
  BY <1>1, <1>2, LegacyKept, PartialStep
<1> QED BY <1>3, <1>4, CatalogInvHolds, PTL DEF Spec

\* A single row kept on purpose is not expanded into the whole release, neither
\* by a refresh nor by a match, unless a legacy backfill writes beside them.
THEOREM CatalogPartialNotExpanded == Spec => PartialNotExpanded
<1>1. CatalogInv /\ PartialKept /\ [Next]_refreshVars =>
        [\A a \in CatAlbums :
           process.legacy = {} /\ meta[a].partial /\ rows[a] = "single" => rows'[a] # "full"]_refreshVars
  <2>1. PartialKept <=> (process.legacy = {} => PartialAll)
    BY DEF PartialKept, PartialAll
  <2> QED BY <2>1, PartialRows
<1> QED BY <1>1, CatalogInvHolds, PartialKeptHolds, PTL DEF Spec, PartialNotExpanded

=============================================================================
