-------------------------- MODULE DownloadSlotProofs --------------------------
(***************************************************************************)
(* Proof that the semaphores are accounted for: as long as ticks do not    *)
(* overlap (OneTick), a provider's semaphore holds one token for each      *)
(* download that occupies it, for any set of downloads and providers, any  *)
(* limits, and whatever is cancelled, retried or restarted meanwhile.      *)
(* The inductive invariant is SlotInv: a frame that is to release a slot   *)
(* is the only thing that holds it, and a frame that is to drop a download *)
(* still has it tracked, under the provider whose slot it will release.    *)
(*                                                                         *)
(* Then, that two import chains never run for one record at the same time, *)
(* as long as, besides, nobody retries a download by hand (MaxUserRetries  *)
(* = 0: Retry writes a row without looking at what is under way for it),   *)
(* for any number of importer goroutines.                                  *)
(* The inductive invariant is ExclusiveInv: a completion is announced by   *)
(* the poll that won the compare-and-swap to importPending, and from then  *)
(* until the import is over neither a tick nor the resolver can bring the  *)
(* record back to a state from which it could be completed again.          *)
(***************************************************************************)
EXTENDS DownloadHandoverProofs, FiniteSetTheorems

\* FrameFollows, FrameHolds and HoldsSlot, of a frame f, the entry a of the
\* active map for the same id, and the phase k of the tick.
Follows(f, a, k) ==
  (f.then = "drop" \/ f.pc \in Following \/ (k = "check" /\ f.pc = "listed"))
  => a.h # 0 /\ a.h = f.h /\ a.via = f.via

Holds(f, a, k) ==
  /\ f.then = "free" => a.h = 0
  /\ f.pc \in {"acquire", "cas", "launch"} => a.h = 0
  /\ f.pc \in {"cas", "launch"} =>
       f.via \in Providers /\ (Cap[f.via] > 0 => f.then = "free")
  /\ f.pc \in {"idle", "acquire", "reread", "persist", "write"} => f.then = "none"
  /\ f.pc = "listed" /\ k # "sync" => f.then = "none"

Fits(f, a, k) == Follows(f, a, k) /\ Holds(f, a, k)

Uses(f, a, p) == (a.h # 0 /\ a.via = p) \/ (f.then = "free" /\ f.via = p)

LEMMA FitsFrames ==
  /\ SlotInv <=> /\ \A t \in Ticks, id \in Ids : Fits(task[t][id], active[id], tick[t].phase)
                 /\ SlotsMatch
  /\ SlotInv' <=> /\ \A t \in Ticks, id \in Ids : Fits(task'[t][id], active'[id], tick'[t].phase)
                  /\ SlotsMatch'
  BY DEF SlotInv, Fits, Follows, Holds, FrameFollows, FrameHolds, Tracked, At, In

LEMMA UsesSlot ==
  ASSUME OneTick, NEW t \in Ticks, NEW id \in Ids, NEW p
  PROVE  /\ HoldsSlot(id, p) <=> Uses(task[t][id], active[id], p)
         /\ HoldsSlot(id, p)' <=> Uses(task'[t][id], active'[id], p)
  BY DEF OneTick, HoldsSlot, Uses, Tracked

----------------------------------------------------------------------------
(* Tokens and holders.                                                     *)

LEMMA HoldersFinite ==
  ASSUME NEW p
  PROVE  /\ IsFiniteSet(Holders(p)) /\ Cardinality(Holders(p)) \in Nat
         /\ Holders(p) \subseteq Ids
  BY StoreAssumption, FS_Subset, FS_CardinalityType DEF Holders

\* What one id may do to the slots: nothing, take one, or give its own back.
Keeps(f, a, g, b) ==
  /\ UNCHANGED slots
  /\ \A p \in Providers : Cap[p] > 0 => (Uses(f, a, p) <=> Uses(g, b, p))
Takes(f, a, g, b) ==
  \E p \in Providers :
    /\ Cap[p] > 0
    /\ slots' = [slots EXCEPT ![p] = slots[p] + 1]
    /\ \A q \in Providers : ~Uses(f, a, q) /\ (Uses(g, b, q) <=> q = p)
GivesBack(f, a, g, b) ==
  \E p \in Providers :
    /\ Release(p)
    /\ \A q \in Providers : ~Uses(g, b, q) /\ (Uses(f, a, q) <=> q = p)

\* Whichever it does, tokens and holders stay in step.
LEMMA SlotsFollowHolders ==
  ASSUME OneTick, slots \in [Providers -> Nat], SlotsMatch, NEW t \in Ticks, NEW id \in Ids,
         MonitorAssumption,
         \A i \in Ids : i # id => task'[t][i] = task[t][i] /\ active'[i] = active[i],
         \/ Keeps(task[t][id], active[id], task'[t][id], active'[id])
         \/ Takes(task[t][id], active[id], task'[t][id], active'[id])
         \/ GivesBack(task[t][id], active[id], task'[t][id], active'[id])
  PROVE  SlotsMatch'
  <1> DEFINE f == task[t][id]  a == active[id]  g == task'[t][id]  b == active'[id]
  <1>1. ASSUME NEW p PROVE Holders(p)' = {i \in Ids : HoldsSlot(i, p)'}
    BY DEF Holders
  <1>2. ASSUME NEW p, NEW i \in Ids, i # id PROVE i \in Holders(p)' <=> i \in Holders(p)
    BY <1>2, UsesSlot DEF Holders, Uses
  <1>3. ASSUME NEW p PROVE /\ id \in Holders(p) <=> Uses(f, a, p)
                           /\ id \in Holders(p)' <=> Uses(g, b, p)
    BY UsesSlot DEF Holders
  <1>4. ASSUME NEW p \in Providers
        PROVE  slots'[p] = IF Cap[p] = 0 THEN 0 ELSE Cardinality(Holders(p)')
    <2>1. slots[p] = (IF Cap[p] = 0 THEN 0 ELSE Cardinality(Holders(p))) /\ Cap[p] \in Nat
      BY MonitorAssumption DEF SlotsMatch
    <2>2. CASE Keeps(f, a, g, b)
      <3>1. Cap[p] > 0 => Holders(p)' = Holders(p)
        BY <1>1, <1>2, <1>3, <2>2, HoldersFinite DEF Keeps
      <3> QED
        BY <2>1, <2>2, <3>1 DEF Keeps
    <2>3. CASE Takes(f, a, g, b)
      <3>1. PICK q \in Providers :
              /\ Cap[q] > 0
              /\ slots' = [slots EXCEPT ![q] = slots[q] + 1]
              /\ \A r \in Providers : ~Uses(f, a, r) /\ (Uses(g, b, r) <=> r = q)
        BY <2>3 DEF Takes
      <3>2. CASE p = q
        <4>1. id \notin Holders(p) /\ Holders(p)' = Holders(p) \cup {id}
          BY <1>1, <1>2, <1>3, <3>1, <3>2, HoldersFinite
        <4>2. Cardinality(Holders(p)') = Cardinality(Holders(p)) + 1
          BY <4>1, HoldersFinite, FS_AddElement
        <4> QED
          BY <2>1, <3>1, <3>2, <4>2
      <3>3. CASE p # q
        <4>1. Holders(p)' = Holders(p)
          BY <1>1, <1>2, <1>3, <3>1, <3>3, HoldersFinite
        <4> QED
          BY <2>1, <3>1, <3>3, <4>1
      <3> QED
        BY <3>2, <3>3
    <2>4. CASE GivesBack(f, a, g, b)
      <3>1. PICK q \in Providers :
              /\ Release(q)
              /\ \A r \in Providers : ~Uses(g, b, r) /\ (Uses(f, a, r) <=> r = q)
        BY <2>4 DEF GivesBack
      <3>2. CASE p = q
        <4>1. id \in Holders(p) /\ Holders(p)' = Holders(p) \ {id}
          BY <1>1, <1>2, <1>3, <3>1, <3>2, HoldersFinite
        <4>2. /\ Cardinality(Holders(p)') = Cardinality(Holders(p)) - 1
              /\ Cardinality(Holders(p)) \in Nat /\ Cardinality(Holders(p)) # 0
          <5>1. Cardinality(Holders(p)') = Cardinality(Holders(p)) - 1
            BY <4>1, HoldersFinite, FS_RemoveElement
          <5>2. Holders(p) # {}
            BY <4>1
          <5> QED
            BY <5>1, <5>2, HoldersFinite, FS_EmptySet
        <4> QED
          BY <2>1, <3>1, <3>2, <4>2 DEF Release
      <3>3. CASE p # q
        <4>1. Holders(p)' = Holders(p)
          BY <1>1, <1>2, <1>3, <3>1, <3>3, HoldersFinite
        <4> QED
          BY <2>1, <3>1, <3>3, <4>1 DEF Release
      <3> QED
        BY <3>2, <3>3
    <2> QED
      BY <2>2, <2>3, <2>4
  <1> QED
    BY <1>4 DEF SlotsMatch

----------------------------------------------------------------------------
(* A step of a tick for one id.                                            *)

\* Going on: to an earlier test of the same thing, or away from it.
LEMMA MovesOn ==
  ASSUME NEW f \in Frame, NEW a, NEW k, NEW g \in Frame, Fits(f, a, k),
         g.then = f.then, g.via = f.via, g.h = f.h,
         g.pc \notin {"listed", "acquire", "cas", "launch", "idle", "reread", "persist", "write"},
         g.pc \in Following => f.pc \in Following \/ (k = "check" /\ f.pc = "listed")
  PROVE  Fits(g, a, k) /\ (\A p : Uses(f, a, p) <=> Uses(g, a, p))
  BY DEF Fits, Follows, Holds, Uses

\* Done with an id without having a slot to give back.
LEMMA Rests ==
  ASSUME NEW f \in Frame, NEW a, NEW k, f.then # "free"
  PROVE  Fits(Idle, a, k) /\ (\A p : Uses(f, a, p) <=> Uses(Idle, a, p))
  BY DEF Fits, Follows, Holds, Uses, Idle, Following

\* A step that only replaces the frame.
LEMMA FrameStep ==
  ASSUME OneTick, TypeInv, SlotInv, NEW t \in Ticks, NEW id \in Ids, NEW g,
         Set(t, id, g), UNCHANGED <<active, slots, tick>>,
         Fits(g, active[id], tick[t].phase),
         \A p \in Providers : Cap[p] > 0 =>
           (Uses(task[t][id], active[id], p) <=> Uses(g, active[id], p))
  PROVE  SlotInv'
  <1>1. /\ task \in [Ticks -> [Ids -> Frame]] /\ slots \in [Providers -> Nat]
        /\ SlotsMatch
    BY DEF TypeInv, TypeOK, MonitorTypeOK, SlotInv
  <1>2. /\ task'[t][id] = g
        /\ \A s \in Ticks, i \in Ids : s # t \/ i # id => task'[s][i] = task[s][i]
    BY <1>1 DEF Set
  <1>3. SlotsMatch'
    BY <1>1, <1>2, SlotsFollowHolders, MonitorAssumption DEF Keeps
  <1> QED
    BY <1>2, <1>3, FitsFrames

\* The steps that pass the frame on, or end it, and touch nothing else.
LEMMA FrameOnlySlots ==
  ASSUME OneTick, TypeInv, SlotInv, NEW t \in Ticks, NEW id \in Ids,
         \/ SyncFail(t, id) \/ StartPick(t, id) \/ StartCas(t, id) \/ StartFails(t, id)
         \/ StartReread(t, id) \/ StartPersist(t, id)
         \/ PollBegin(t, id) \/ PollStatus(t, id) \/ PollProgress(t, id)
         \/ PollComplete(t, id) \/ PollFilePath(t, id) \/ PollAnnounce(t, id)
         \/ CheckGet(t, id) \/ CheckAbort(t, id)
         \/ FailGet(t, id) \/ FailCas(t, id) \/ FailReget(t, id) \/ FailWrite(t, id)
         \/ ScanSearch(t, id) \/ ScanWrite(t, id)
  PROVE  SlotInv'
  <1> DEFINE f == task[t][id]
  <1> DEFINE a == active[id]
  <1> DEFINE k == tick[t].phase
  <1>1. f \in Frame /\ a \in Track /\ rec[id] \in Row
    BY DEF TypeInv, TypeOK, StoreTypeOK, MonitorTypeOK
  <1>2. Fits(f, a, k)
    BY FitsFrames
  <1>3. UNCHANGED <<active, slots, tick>>
    BY DEF SyncFail, StartPick, StartCas, StartFails, StartReread, StartPersist, PollBegin,
           PollStatus, PollProgress, PollComplete, PollFilePath, PollAnnounce, CheckGet,
           CheckAbort, FailGet, FailCas, FailReget, FailWrite, ScanSearch, ScanWrite
  <1>4. ASSUME NEW g, Set(t, id, g), Fits(g, a, k),
               \A p \in Providers : Cap[p] > 0 => (Uses(f, a, p) <=> Uses(g, a, p))
        PROVE  SlotInv'
    BY <1>3, <1>4, FrameStep
  <1>5. ASSUME Set(t, id, Idle), f.then # "free" PROVE SlotInv'
    BY <1>1, <1>4, <1>5, Rests
  <1>6. ASSUME NEW g \in Frame, Set(t, id, g), g.then = f.then, g.via = f.via, g.h = f.h,
               g.pc \notin {"listed", "acquire", "cas", "launch", "idle", "reread", "persist", "write"},
               g.pc \in Following => f.pc \in Following \/ (k = "check" /\ f.pc = "listed")
        PROVE  SlotInv'
    BY <1>1, <1>2, <1>4, <1>6, MovesOn
  <1>7. ASSUME NEW pc \in {"exit", "failGet", "failReget"}, Go(t, id, pc)
        PROVE  SlotInv'
    <2> DEFINE g == [f EXCEPT !.pc = pc]
    <2>1. g \in Frame /\ g.pc = pc /\ g.then = f.then /\ g.via = f.via /\ g.h = f.h
      BY <1>1 DEF Frame, Pcs
    <2>2. Set(t, id, g)
      BY <1>7 DEF Go
    <2> HIDE DEF g
    <2> QED
      BY <1>6, <2>1, <2>2 DEF Following
  <1>8. ASSUME NEW pc \in Following, Go(t, id, pc),
               f.pc \in Following \/ (k = "check" /\ f.pc = "listed")
        PROVE  SlotInv'
    <2> DEFINE g == [f EXCEPT !.pc = pc]
    <2>1. g \in Frame /\ g.pc = pc /\ g.then = f.then /\ g.via = f.via /\ g.h = f.h
      BY <1>1 DEF Frame, Pcs, Following
    <2>2. Set(t, id, g)
      BY <1>8 DEF Go
    <2> HIDE DEF g, f
    <2> QED
      BY <1>6, <1>8, <2>1, <2>2 DEF Following
  \* What is tracked may be dropped.
  <1>9. ASSUME Exit(t, id, "drop") \/ Fail(t, id, "drop"),
               f.pc \in Following \/ (k = "check" /\ f.pc = "listed")
        PROVE  SlotInv'
    <2> DEFINE g(pc) == [f EXCEPT !.pc = pc, !.then = "drop"]
    <2>1. ASSUME NEW pc \in {"exit", "failGet"}
          PROVE  g(pc) \in Frame /\ g(pc).pc = pc /\ g(pc).then = "drop"
                 /\ g(pc).via = f.via /\ g(pc).h = f.h
      BY <1>1 DEF Frame, Pcs
    <2>2. Set(t, id, g("exit")) \/ Set(t, id, g("failGet"))
      BY <1>9 DEF Exit, Fail
    <2>3. a.h # 0 /\ a.h = f.h /\ a.via = f.via /\ f.then # "free"
      BY <1>2, <1>9 DEF Fits, Follows, Holds
    <2> HIDE DEF g, f, a
    <2>4. ASSUME NEW pc \in {"exit", "failGet"}
          PROVE  Fits(g(pc), a, k) /\ \A p : Uses(f, a, p) <=> Uses(g(pc), a, p)
      BY <2>1, <2>3 DEF Fits, Follows, Holds, Uses, Following
    <2> QED
      BY <1>4, <2>2, <2>4 DEF f, a
  <1>10. f.pc \in Following \/ (k = "check" /\ f.pc = "listed") => f.then # "free"
    BY <1>2 DEF Fits, Follows, Holds
  <1>11. CASE SyncFail(t, id)
    BY <1>7, <1>11 DEF SyncFail
  <1>12. CASE StartPick(t, id)
    <2> DEFINE g == [Idle EXCEPT !.pc = "acquire", !.row = rec[id], !.via = Gate(id, rec[id])]
    <2>1. f.pc = "listed" /\ k = "start"
      BY <1>12 DEF StartPick, Take, At, In
    <2>2. f.then = "none"
      BY <1>2, <2>1 DEF Fits, Holds
    <2>3. Set(t, id, Idle) \/ (Set(t, id, g) /\ ~Tracked(id))
      BY <1>12 DEF StartPick
    <2>4. g.pc = "acquire" /\ g.then = "none"
      BY DEF Idle
    <2> HIDE DEF g, f
    <2>5. ~Tracked(id) => Fits(g, a, k) /\ \A p : Uses(f, a, p) <=> Uses(g, a, p)
      BY <2>2, <2>4 DEF Fits, Follows, Holds, Uses, Following, Tracked
    <2> QED
      BY <1>4, <1>5, <2>2, <2>3, <2>5 DEF f
  <1>13. CASE StartCas(t, id)
    <2> DEFINE g == [f EXCEPT !.pc = "launch"]
    <2>1. f.pc = "cas" /\ (Set(t, id, g) \/ Go(t, id, "exit"))
      BY <1>13 DEF StartCas, At, Go
    <2>2. g.pc = "launch" /\ g.then = f.then /\ g.via = f.via /\ g.h = f.h
      BY <1>1 DEF Frame
    <2> HIDE DEF g
    <2>3. Fits(g, a, k) /\ \A p : Uses(f, a, p) <=> Uses(g, a, p)
      BY <1>2, <2>1, <2>2 DEF Fits, Follows, Holds, Uses, Following
    <2> QED
      BY <1>4, <1>7, <2>1, <2>3
  <1>14. CASE StartFails(t, id)
    <2> DEFINE g == [f EXCEPT !.pc = "failGet", !.then = f.then]
    <2>1. g \in Frame /\ g.pc = "failGet" /\ g.then = f.then /\ g.via = f.via /\ g.h = f.h
      BY <1>1 DEF Frame, Pcs
    <2>2. Set(t, id, g)
      BY <1>14 DEF StartFails, Fail
    <2> HIDE DEF g
    <2> QED
      BY <1>6, <2>1, <2>2 DEF Following
  <1>15. CASE StartReread(t, id)
    <2> DEFINE g == [f EXCEPT !.pc = "persist", !.row = rec[id]]
    <2>1. f.pc = "reread" /\ (Set(t, id, Idle) \/ Set(t, id, g))
      BY <1>15 DEF StartReread, At
    <2>2. f.then = "none"
      BY <1>2, <2>1 DEF Fits, Holds
    <2>3. g.pc = "persist" /\ g.then = f.then /\ g.via = f.via /\ g.h = f.h
      BY <1>1 DEF Frame
    <2> HIDE DEF g
    <2>4. Fits(g, a, k) /\ \A p : Uses(f, a, p) <=> Uses(g, a, p)
      BY <2>2, <2>3 DEF Fits, Follows, Holds, Uses, Following
    <2> QED
      BY <1>4, <1>5, <2>1, <2>2, <2>4
  <1>16. CASE StartPersist(t, id) \/ ScanWrite(t, id)
    <2>1. f.pc \in {"persist", "write"} /\ Set(t, id, Idle)
      BY <1>16 DEF StartPersist, ScanWrite, At
    <2>2. f.then = "none"
      BY <1>2, <2>1 DEF Fits, Holds
    <2> QED
      BY <1>5, <2>1, <2>2
  <1>17. CASE PollBegin(t, id) \/ PollProgress(t, id) \/ PollComplete(t, id)
             \/ PollFilePath(t, id) \/ PollAnnounce(t, id) \/ CheckGet(t, id) \/ CheckAbort(t, id)
    <2>1. f.pc \in Following \/ (k = "check" /\ f.pc = "listed")
      BY <1>17 DEF PollBegin, PollProgress, PollComplete, PollFilePath, PollAnnounce, CheckGet,
                   CheckAbort, Take, At, In, Following
    <2>2. \/ Set(t, id, Idle) \/ Exit(t, id, "drop") \/ Fail(t, id, "drop")
          \/ \E pc \in {"status", "complete", "filePath", "announce", "abort"} : Go(t, id, pc)
      BY <1>17 DEF PollBegin, PollProgress, PollComplete, PollFilePath, PollAnnounce, CheckGet,
                   CheckAbort
    <2> HIDE DEF f, k
    <2> QED
      BY <1>5, <1>8, <1>9, <1>10, <2>1, <2>2 DEF Following
  <1>18. CASE PollStatus(t, id)
    <2> DEFINE st == job[id][f.h].st
    <2> DEFINE g == [f EXCEPT !.pc = "progress", !.st = st]
    <2>1. f.pc = "status" /\ (Set(t, id, Idle) \/ Set(t, id, g))
      BY <1>18 DEF PollStatus, At
    <2> HIDE DEF st
    <2>2. g.pc = "progress" /\ g.then = f.then /\ g.via = f.via /\ g.h = f.h
      BY <1>1 DEF Frame
    <2> HIDE DEF g
    <2>3. Fits(g, a, k) /\ \A p : Uses(f, a, p) <=> Uses(g, a, p)
      BY <1>2, <2>1, <2>2 DEF Fits, Follows, Holds, Uses, Following
    <2> QED
      BY <1>4, <1>5, <1>10, <2>1, <2>3 DEF Following
  <1>19. CASE FailGet(t, id) \/ FailCas(t, id) \/ FailReget(t, id) \/ FailWrite(t, id)
    <2> DEFINE g(pc, r) == [f EXCEPT !.pc = pc, !.row = r]
    <2> DEFINE r == [rec[id] EXCEPT !.state = "failed"]
    <2>1. r \in Row
      BY <1>1 DEF Row, States, Terminal
    <2>2. \/ Go(t, id, "exit") \/ Go(t, id, "failReget")
          \/ Set(t, id, g("failCas", rec[id])) \/ Set(t, id, g("failWrite", r))
      BY <1>19 DEF FailGet, FailCas, FailReget, FailWrite
    <2> HIDE DEF r
    <2>3. ASSUME NEW pc \in {"failCas", "failWrite"}, NEW q \in Row
          PROVE  g(pc, q) \in Frame /\ g(pc, q).pc = pc /\ g(pc, q).then = f.then
                 /\ g(pc, q).via = f.via /\ g(pc, q).h = f.h
      BY <1>1 DEF Frame, Pcs
    <2> HIDE DEF g
    <2> QED
      BY <1>1, <1>6, <1>7, <2>1, <2>2, <2>3 DEF Following
  <1>20. CASE ScanSearch(t, id)
    <2> DEFINE r(x) == [x EXCEPT !.state = "queued", !.tries = x.tries + 1, !.wait = TRUE]
    <2> DEFINE g(q) == [f EXCEPT !.pc = "write", !.row = q]
    <2>1. f.pc = "listed" /\ k = "retry"
      BY <1>20 DEF ScanSearch, Take, At, In
    <2>2. f.then = "none"
      BY <1>2, <2>1 DEF Fits, Holds
    <2>3. Set(t, id, Idle) \/ \E x \in Resolved(f.row) : Set(t, id, g(r(x)))
      BY <1>20 DEF ScanSearch
    <2> HIDE DEF r
    <2>4. ASSUME NEW q PROVE g(q).pc = "write" /\ g(q).then = "none" /\ g(q).via = f.via
      BY <1>1, <2>2 DEF Frame
    <2> HIDE DEF g
    <2>5. ASSUME NEW q PROVE Fits(g(q), a, k) /\ \A p : Uses(f, a, p) <=> Uses(g(q), a, p)
      BY <2>2, <2>4 DEF Fits, Follows, Holds, Uses, Following
    <2> QED
      BY <1>4, <1>5, <2>2, <2>3, <2>5
  <1> QED
    BY <1>11, <1>12, <1>13, <1>14, <1>15, <1>16, <1>17, <1>18, <1>19, <1>20

\* A slot is taken where none was held.
LEMMA AcquireSlots ==
  ASSUME OneTick, TypeInv, SlotInv, NEW t \in Ticks, NEW id \in Ids, StartAcquire(t, id)
  PROVE  SlotInv'
  <1> DEFINE f == task[t][id]
  <1> DEFINE a == active[id]
  <1> DEFINE k == tick[t].phase
  <1>1. /\ f \in Frame /\ a \in Track /\ task \in [Ticks -> [Ids -> Frame]]
        /\ slots \in [Providers -> Nat] /\ SlotsMatch
    BY DEF TypeInv, TypeOK, MonitorTypeOK, SlotInv
  <1>2. Fits(f, a, k) /\ f.pc = "acquire"
    BY FitsFrames DEF StartAcquire, At
  <1>3. f.then = "none" /\ a.h = 0
    BY <1>2 DEF Fits, Holds
  <1>4. UNCHANGED <<active, tick>>
    BY DEF StartAcquire
  <1>5. CASE Fail(t, id, "none") /\ UNCHANGED slots
    <2> DEFINE g == [f EXCEPT !.pc = "failGet", !.then = "none"]
    <2>1. g.pc = "failGet" /\ g.then = "none" /\ Set(t, id, g)
      BY <1>1, <1>5 DEF Frame, Fail
    <2> HIDE DEF g
    <2>2. Fits(g, a, k) /\ \A p : Uses(f, a, p) <=> Uses(g, a, p)
      BY <1>3, <2>1 DEF Fits, Follows, Holds, Uses, Following
    <2> QED
      BY <1>4, <1>5, <2>1, <2>2, FrameStep
  <1>6. CASE f.via \in Providers /\ Cap[f.via] = 0 /\ Go(t, id, "cas") /\ UNCHANGED slots
    <2> DEFINE g == [f EXCEPT !.pc = "cas"]
    <2>1. g.pc = "cas" /\ g.then = "none" /\ g.via = f.via /\ Set(t, id, g)
      BY <1>1, <1>3, <1>6 DEF Frame, Go
    <2> HIDE DEF g
    <2>2. Fits(g, a, k) /\ \A p : Uses(f, a, p) <=> Uses(g, a, p)
      BY <1>3, <1>6, <2>1 DEF Fits, Follows, Holds, Uses, Following
    <2> QED
      BY <1>4, <1>6, <2>1, <2>2, FrameStep
  <1>7. CASE /\ f.via \in Providers /\ Cap[f.via] > 0
             /\ slots' = [slots EXCEPT ![f.via] = slots[f.via] + 1]
             /\ Set(t, id, [f EXCEPT !.pc = "cas", !.then = "free"])
    <2> DEFINE g == [f EXCEPT !.pc = "cas", !.then = "free"]
    <2>1. g.pc = "cas" /\ g.then = "free" /\ g.via = f.via /\ Set(t, id, g)
      BY <1>1, <1>7 DEF Frame
    <2> HIDE DEF g
    <2>2. /\ task'[t][id] = g
          /\ \A s \in Ticks, i \in Ids : s # t \/ i # id => task'[s][i] = task[s][i]
      BY <1>1, <2>1 DEF Set
    <2>3. Fits(g, a, k)
      BY <1>3, <1>7, <2>1 DEF Fits, Follows, Holds, Following
    <2>4. Takes(f, a, g, a)
      BY <1>3, <1>7, <2>1 DEF Takes, Uses
    <2>5. SlotsMatch'
      BY <1>1, <1>4, <2>2, <2>4, SlotsFollowHolders, MonitorAssumption
    <2> QED
      BY <1>4, <2>2, <2>3, <2>5, FitsFrames
  <1>8. CASE Set(t, id, Idle) /\ UNCHANGED slots
    BY <1>1, <1>3, <1>4, <1>8, Rests, FrameStep
  <1> QED
    BY <1>5, <1>6, <1>7, <1>8 DEF StartAcquire

\* The slot passes from the dispatch to the tracked transfer.
LEMMA LaunchSlots ==
  ASSUME OneTick, TypeInv, SlotInv, NEW t \in Ticks, NEW id \in Ids, StartLaunch(t, id)
  PROVE  SlotInv'
  <1> DEFINE f == task[t][id]
  <1> DEFINE a == active[id]
  <1>1. /\ f \in Frame /\ a \in Track /\ task \in [Ticks -> [Ids -> Frame]]
        /\ active \in [Ids -> Track] /\ slots \in [Providers -> Nat] /\ SlotsMatch
    BY DEF TypeInv, TypeOK, MonitorTypeOK, SlotInv
  <1>2. Fits(f, a, tick[t].phase) /\ f.pc = "launch"
    BY FitsFrames DEF StartLaunch, At
  <1>3. /\ f.via \in Providers /\ a.h = 0
        /\ Cap[f.via] > 0 => f.then = "free"
    BY <1>2 DEF Fits, Holds
  <1>4. PICK n \in 1..MaxStarts :
          /\ active' = [active EXCEPT ![id] = [h |-> n, via |-> f.via, late |-> FALSE]]
          /\ Set(t, id, [f EXCEPT !.pc = "reread", !.then = "none", !.h = n])
    BY DEF StartLaunch, NextHandle
  <1>5. UNCHANGED <<slots, tick>>
    BY DEF StartLaunch
  <1> DEFINE g == [f EXCEPT !.pc = "reread", !.then = "none", !.h = n]
  <1> DEFINE b == [h |-> n, via |-> f.via, late |-> FALSE]
  <1>6. g.pc = "reread" /\ g.then = "none" /\ g.via = f.via
    BY <1>1 DEF Frame
  <1>7. b.h # 0 /\ b.via = f.via
    BY StoreAssumption
  <1>8. Set(t, id, g) /\ active' = [active EXCEPT ![id] = b]
    BY <1>4
  <1> HIDE DEF g, b
  <1>9. /\ task'[t][id] = g /\ active'[id] = b
        /\ \A s \in Ticks, i \in Ids : s # t \/ i # id => task'[s][i] = task[s][i]
        /\ \A i \in Ids : i # id => active'[i] = active[i]
    BY <1>1, <1>8 DEF Set
  <1>10. Fits(g, b, tick[t].phase)
    BY <1>6, <1>7 DEF Fits, Follows, Holds, Following
  <1>11. Keeps(f, a, g, b)
    BY <1>3, <1>5, <1>6, <1>7 DEF Keeps, Uses
  <1>12. SlotsMatch'
    <2>1. Keeps(task[t][id], active[id], task'[t][id], active'[id])
      BY <1>9, <1>11
    <2>2. \A i \in Ids : i # id => task'[t][i] = task[t][i] /\ active'[i] = active[i]
      BY <1>9
    <2> QED
      BY <1>1, <2>1, <2>2, SlotsFollowHolders, MonitorAssumption
  <1>13. ASSUME NEW s \in Ticks, NEW i \in Ids
         PROVE  Fits(task'[s][i], active'[i], tick'[s].phase)
    <2>1. s = t
      BY DEF OneTick
    <2> QED
      BY <1>5, <1>9, <1>10, <2>1, FitsFrames
  <1> QED
    BY <1>12, <1>13, FitsFrames

\* removeTracking and releaseSemaphore: the slot goes back.
LEMMA LeaveSlots ==
  ASSUME OneTick, TypeInv, SlotInv, NEW t \in Ticks, NEW id \in Ids, Leave(t, id)
  PROVE  SlotInv'
  <1> DEFINE f == task[t][id]
  <1> DEFINE a == active[id]
  <1>1. /\ f \in Frame /\ a \in Track /\ task \in [Ticks -> [Ids -> Frame]]
        /\ active \in [Ids -> Track] /\ slots \in [Providers -> Nat] /\ SlotsMatch
    BY DEF TypeInv, TypeOK, MonitorTypeOK, SlotInv
  <1>2. Fits(f, a, tick[t].phase)
    BY FitsFrames
  <1>3. Set(t, id, Idle) /\ tick' = tick
    BY DEF Leave
  <1>4. CASE f.then = "none"
    <2>1. active' = active /\ slots' = slots
      BY <1>4 DEF Leave
    <2> QED
      BY <1>1, <1>3, <1>4, <2>1, Rests, FrameStep
  <1>5. CASE f.then = "drop"
    <2>1. a.h # 0 /\ a.via = f.via /\ f.via \in Providers
      BY <1>1, <1>2, <1>5 DEF Fits, Follows, Track
    <2>2. active' = [active EXCEPT ![id] = Untracked] /\ Release(f.via)
      BY <1>5 DEF Leave, RemoveTracking
    <2>3. /\ task'[t][id] = Idle /\ active'[id] = Untracked
          /\ \A s \in Ticks, i \in Ids : s # t \/ i # id => task'[s][i] = task[s][i]
          /\ \A i \in Ids : i # id => active'[i] = active[i]
      BY <1>1, <1>3, <2>2 DEF Set
    <2>4. Fits(Idle, Untracked, tick[t].phase)
      BY DEF Fits, Follows, Holds, Following, Idle, Untracked
    <2>5. GivesBack(f, a, Idle, Untracked)
      BY <1>5, <2>1, <2>2 DEF GivesBack, Uses, Idle, Untracked
    <2>6. SlotsMatch'
      <3>1. GivesBack(task[t][id], active[id], task'[t][id], active'[id])
        BY <2>3, <2>5
      <3>2. \A i \in Ids : i # id => task'[t][i] = task[t][i] /\ active'[i] = active[i]
        BY <2>3
      <3> QED
        BY <1>1, <3>1, <3>2, SlotsFollowHolders, MonitorAssumption
    <2>7. ASSUME NEW s \in Ticks, NEW i \in Ids
          PROVE  Fits(task'[s][i], active'[i], tick'[s].phase)
      <3>1. s = t
        BY DEF OneTick
      <3> QED
        BY <1>3, <2>3, <2>4, <3>1, FitsFrames
    <2> QED
      BY <2>6, <2>7, FitsFrames
  <1>6. CASE f.then = "free"
    <2>1. a.h = 0
      BY <1>2, <1>6 DEF Fits, Holds
    <2>2. active' = active /\ Release(f.via)
      BY <1>6 DEF Leave
    <2>3. /\ task'[t][id] = Idle
          /\ \A s \in Ticks, i \in Ids : s # t \/ i # id => task'[s][i] = task[s][i]
      BY <1>1, <1>3 DEF Set
    <2>4. Fits(Idle, a, tick[t].phase)
      BY <2>1 DEF Fits, Follows, Holds, Following, Idle
    <2>5. GivesBack(f, a, Idle, a) \/ Keeps(f, a, Idle, a)
      <3>1. CASE f.via \in Providers
        BY <1>6, <2>1, <2>2, <3>1 DEF GivesBack, Uses, Idle
      <3>2. CASE f.via \notin Providers
        BY <1>6, <2>1, <2>2, <3>2 DEF Keeps, Uses, Idle, Release
      <3> QED
        BY <3>1, <3>2
    <2>6. SlotsMatch'
      <3>1. \/ GivesBack(task[t][id], active[id], task'[t][id], active'[id])
            \/ Keeps(task[t][id], active[id], task'[t][id], active'[id])
        BY <2>2, <2>3, <2>5
      <3>2. \A i \in Ids : i # id => task'[t][i] = task[t][i] /\ active'[i] = active[i]
        BY <2>2, <2>3
      <3> QED
        BY <1>1, <3>1, <3>2, SlotsFollowHolders, MonitorAssumption
    <2> QED
      BY <1>3, <2>2, <2>3, <2>4, <2>6, FitsFrames
  <1> QED
    BY <1>1, <1>4, <1>5, <1>6 DEF Frame

LEMMA TaskStepSlots ==
  ASSUME OneTick, TypeInv, SlotInv, NEW t \in Ticks, NEW id \in Ids, TaskStep(t, id)
  PROVE  SlotInv'
  BY FrameOnlySlots, AcquireSlots, LaunchSlots, LeaveSlots DEF TaskStep

----------------------------------------------------------------------------
(* The steps of a tick as a whole, and the rest.                           *)

\* When every id holds what it held, the tokens still match.
LEMMA SameHolders ==
  ASSUME SlotsMatch, UNCHANGED slots,
         \A p \in Providers, i \in Ids : HoldsSlot(i, p)' <=> HoldsSlot(i, p)
  PROVE  SlotsMatch'
  <1>1. ASSUME NEW p \in Providers PROVE Holders(p)' = Holders(p)
    BY DEF Holders
  <1> QED
    BY <1>1 DEF SlotsMatch

\* Nobody holds a slot of a process that has just been started.
LEMMA FreshSlots ==
  /\ (task = NoTask /\ active = NothingTracked /\ slots = SlotsFree => SlotInv)
  /\ (task' = NoTask /\ active' = NothingTracked /\ slots' = SlotsFree => SlotInv')
  <1>1. \A t \in Ticks, id \in Ids : \A k : Fits(NoTask[t][id], NothingTracked[id], k)
    BY DEF Fits, Follows, Holds, Following, NoTask, NothingTracked, Idle, Untracked
  <1>2. ASSUME task = NoTask, active = NothingTracked, slots = SlotsFree PROVE SlotInv
    <2>1. ASSUME NEW p PROVE Holders(p) = {}
      BY <1>2 DEF Holders, HoldsSlot, Tracked, NoTask, NothingTracked, Idle, Untracked
    <2>2. SlotsMatch
      BY <1>2, <2>1, FS_EmptySet DEF SlotsMatch, SlotsFree
    <2> QED
      BY <1>1, <1>2, <2>2, FitsFrames
  <1>3. ASSUME task' = NoTask, active' = NothingTracked, slots' = SlotsFree PROVE SlotInv'
    <2>1. ASSUME NEW p PROVE Holders(p)' = {}
      BY <1>3 DEF Holders, HoldsSlot, Tracked, NoTask, NothingTracked, Idle, Untracked
    <2>2. SlotsMatch'
      BY <1>3, <2>1, FS_EmptySet DEF SlotsMatch, SlotsFree
    <2> QED
      BY <1>1, <1>3, <2>2, FitsFrames
  <1> QED
    BY <1>2, <1>3

\* With one tick, SlotInv' is what the tick's own frames and holders say.
LEMMA OneTickSlots ==
  ASSUME OneTick, SlotInv, UNCHANGED slots, NEW t \in Ticks,
         \A i \in Ids :
           /\ Fits(task'[t][i], active'[i], tick'[t].phase)
           /\ \A p \in Providers : Uses(task[t][i], active[i], p)
                                    <=> Uses(task'[t][i], active'[i], p)
  PROVE  SlotInv'
  <1>1. \A p \in Providers, i \in Ids : HoldsSlot(i, p)' <=> HoldsSlot(i, p)
    BY UsesSlot
  <1>2. SlotsMatch'
    BY <1>1, SameHolders DEF SlotInv
  <1>3. \A s \in Ticks : s = t
    BY DEF OneTick
  <1> QED
    BY <1>2, <1>3, FitsFrames

\* A phase that begins with frames that hold nothing.
LEMMA PhaseSlots ==
  ASSUME OneTick, TypeInv, SlotInv, NEW t \in Ticks, NEW phase, NEW frames,
         Quiet(t), Enter(t, phase, frames), UNCHANGED <<active, slots>>,
         \A i \in Ids : frames[i].then = "none" /\ Fits(frames[i], active[i], phase)
  PROVE  SlotInv'
  <1>1. tick \in [Ticks -> Tick] /\ task \in [Ticks -> [Ids -> Frame]]
    BY DEF TypeInv, TypeOK, MonitorTypeOK
  <1>2. task'[t] = frames /\ tick'[t].phase = phase
    BY <1>1 DEF Enter, Tick
  <1>3. \A i \in Ids : task[t][i].then = "none"
    BY FitsFrames DEF Quiet, At, Fits, Holds
  <1>4. ASSUME NEW i \in Ids
        PROVE  /\ Fits(task'[t][i], active'[i], tick'[t].phase)
               /\ \A p \in Providers : Uses(task[t][i], active[i], p)
                                        <=> Uses(task'[t][i], active'[i], p)
    BY <1>2, <1>3 DEF Uses
  <1> QED
    BY <1>4, OneTickSlots

LEMMA TickStepSlots ==
  ASSUME OneTick, TypeInv, SlotInv, NEW t \in Ticks, TickStep(t)
  PROVE  SlotInv'
  <1>1. /\ tick \in [Ticks -> Tick] /\ task \in [Ticks -> [Ids -> Frame]]
        /\ active \in [Ids -> Track]
    BY DEF TypeInv, TypeOK, MonitorTypeOK
  <1>2. \A i \in Ids : Fits(task[t][i], active[i], tick[t].phase)
    BY FitsFrames
  <1>3. CASE TickBegin(t)
    <2>1. tick[t].phase = "off" /\ tick'[t].phase = "sync" /\ UNCHANGED <<active, slots, task>>
      BY <1>1, <1>3 DEF TickBegin, In
    <2>2. \A i \in Ids : Fits(task'[t][i], active'[i], tick'[t].phase)
      BY <1>2, <2>1 DEF Fits, Follows, Holds
    <2> QED
      BY <2>1, <2>2, OneTickSlots
  <1>4. CASE (\E p \in Providers : SyncList(t, p)) \/ TickEnd(t)
    <2>1. UNCHANGED <<active, slots, task>> /\ Quiet(t)
      BY <1>4 DEF SyncList, TickEnd
    <2>2. \A i \in Ids : Fits(task'[t][i], active'[i], tick'[t].phase)
      BY <1>2, <2>1 DEF Quiet, At, Fits, Follows, Holds, Following
    <2> QED
      BY <2>1, <2>2, OneTickSlots
  <1>5. CASE SyncDrop(t)
    <2> DEFINE via == tick[t].via
    <2> DEFINE lost == {id \in Ids : /\ Tracked(id) /\ active[id].via = via
                                     /\ <<id, active[id].h>> \notin tick[t].seen}
    <2> DEFINE g(i) == [Idle EXCEPT !.pc = "listed", !.then = "free", !.via = via, !.h = active[i].h]
    <2>1. /\ active' = [i \in Ids |-> IF i \in lost THEN Untracked ELSE active[i]]
          /\ task' = [task EXCEPT ![t] = [i \in Ids |-> IF i \in lost THEN g(i) ELSE Idle]]
          /\ Quiet(t) /\ UNCHANGED slots
      BY <1>5 DEF SyncDrop
    <2>2. tick'[t].phase = "sync"
      BY <1>1, <1>5 DEF SyncDrop, Tick
    <2>3. \A i \in lost : active[i].h # 0 /\ active[i].via = via
      BY DEF Tracked
    <2>4. \A i \in Ids : g(i).pc = "listed" /\ g(i).then = "free" /\ g(i).via = via
      BY DEF Idle
    <2> HIDE DEF via, lost, g
    <2>5. ASSUME NEW i \in Ids
          PROVE  /\ Fits(task'[t][i], active'[i], tick'[t].phase)
                 /\ \A p \in Providers : Uses(task[t][i], active[i], p)
                                          <=> Uses(task'[t][i], active'[i], p)
      <3>1. task[t][i].then = "none"
        BY <1>2, <2>1 DEF Quiet, At, Fits, Holds
      <3>2. CASE i \in lost
        <4>1. task'[t][i] = g(i) /\ active'[i] = Untracked
          BY <1>1, <2>1, <3>2
        <4> QED
          BY <2>2, <2>3, <2>4, <3>1, <3>2, <4>1
          DEF Fits, Follows, Holds, Uses, Following, Untracked
      <3>3. CASE i \notin lost
        <4>1. task'[t][i] = Idle /\ active'[i] = active[i]
          BY <1>1, <2>1, <3>3
        <4> QED
          BY <2>2, <3>1, <4>1 DEF Fits, Follows, Holds, Uses, Following, Idle
      <3> QED
        BY <3>2, <3>3
    <2> QED
      BY <2>1, <2>5, OneTickSlots
  <1>6. CASE StartList(t)
    <2> DEFINE frames == [id \in Ids |->
                 IF rec[id].state = "queued" /\ ~IsPendingSource(rec[id]) /\ ~rec[id].wait
                 THEN [Idle EXCEPT !.pc = "listed"] ELSE Idle]
    <2>1. Quiet(t) /\ Enter(t, "start", frames) /\ UNCHANGED <<active, slots>>
      BY <1>6 DEF StartList
    <2>2. ASSUME NEW i \in Ids
          PROVE  frames[i].then = "none" /\ frames[i].pc \in {"idle", "listed"}
      BY DEF Idle
    <2> HIDE DEF frames
    <2>3. \A i \in Ids : frames[i].then = "none" /\ Fits(frames[i], active[i], "start")
      BY <2>2 DEF Fits, Follows, Holds, Following
    <2> QED
      BY <2>1, <2>3, PhaseSlots
  <1>7. CASE PollList(t) \/ CheckList(t)
    <2>1. PICK phase \in {"poll", "check"}, pc \in {"poll", "listed"} :
            /\ Quiet(t) /\ Enter(t, phase, Snapshot(pc)) /\ UNCHANGED <<active, slots>>
            /\ pc = "listed" => phase = "check"
      BY <1>7 DEF PollList, CheckList
    <2>2. ASSUME NEW i \in Ids
          PROVE  /\ Snapshot(pc)[i].then = "none"
                 /\ \/ Snapshot(pc)[i].pc = "idle"
                    \/ /\ Snapshot(pc)[i].pc = pc /\ active[i].h # 0
                       /\ Snapshot(pc)[i].h = active[i].h /\ Snapshot(pc)[i].via = active[i].via
      BY DEF Snapshot, Tracked, Idle
    <2>3. \A i \in Ids : Snapshot(pc)[i].then = "none" /\ Fits(Snapshot(pc)[i], active[i], phase)
      BY <2>1, <2>2 DEF Fits, Follows, Holds, Following
    <2> QED
      BY <2>1, <2>3, PhaseSlots
  <1>8. CASE RetryList(t)
    <2> DEFINE due == sinceRetry + 1 >= RetryEvery
    <2> DEFINE frames == [id \in Ids |->
                 IF due /\ rec[id].state \in Retryable /\ rec[id].tries < MaxRetries /\ ~rec[id].wait
                 THEN [Idle EXCEPT !.pc = "listed", !.row = rec[id]] ELSE Idle]
    <2>1. Quiet(t) /\ Enter(t, "retry", frames) /\ UNCHANGED <<active, slots>>
      BY <1>8 DEF RetryList
    <2> HIDE DEF due
    <2>2. ASSUME NEW i \in Ids
          PROVE  frames[i].then = "none" /\ frames[i].pc \in {"idle", "listed"}
      BY DEF Idle
    <2> HIDE DEF frames
    <2>3. \A i \in Ids : frames[i].then = "none" /\ Fits(frames[i], active[i], "retry")
      BY <2>2 DEF Fits, Follows, Holds, Following
    <2> QED
      BY <2>1, <2>3, PhaseSlots
  <1> QED
    BY <1>3, <1>4, <1>5, <1>6, <1>7, <1>8 DEF TickStep

\* Cancel and Retry, the importer, the providers, the resolver and the recovery
\* touch neither ticks nor tracking nor slots; time makes tracking late.
LEMMA OtherStepSlots ==
  ASSUME OneTick, TypeInv, SlotInv, UNCHANGED <<task, tick, slots>>,
         active' = active \/ \E id \in Ids : active' = [active EXCEPT ![id].late = TRUE]
  PROVE  SlotInv'
  <1>1. active \in [Ids -> Track]
    BY DEF TypeInv, TypeOK, MonitorTypeOK
  <1>2. \A i \in Ids : active'[i].h = active[i].h /\ active'[i].via = active[i].via
    BY <1>1 DEF Track
  <1>3. \A p \in Providers, i \in Ids : HoldsSlot(i, p)' <=> HoldsSlot(i, p)
    BY <1>2 DEF HoldsSlot, Tracked
  <1>4. \A t \in Ticks, i \in Ids : Fits(task'[t][i], active'[i], tick'[t].phase)
    BY <1>2, FitsFrames DEF Fits, Follows, Holds
  <1> QED
    BY <1>3, <1>4, SameHolders, FitsFrames

LEMMA SlotStep ==
  ASSUME OneTick, TypeInv, SlotInv, [Next]_vars
  PROVE  SlotInv'
  <1>1. CASE ServiceStep \/ ImporterStep \/ ProviderStep
    BY <1>1, OtherStepSlots DEF ServiceStep, ImporterStep, ProviderStep, monitorVars
  <1>2. CASE MonitorStep
    <2>1. CASE ResolverStep \/ BootStep
      BY <2>1, OtherStepSlots DEF ResolverStep, ResolveList, ResolveEnd, ResolveSearch,
         ResolveWrite, BootStep, Start, Recover, Revisit
    <2>2. CASE TimeStep
      BY <2>2, OtherStepSlots DEF TimeStep, BackoffElapses, DeadlinePasses, monitorVars
    <2> QED
      BY <1>2, <2>1, <2>2, TickStepSlots, TaskStepSlots DEF MonitorStep, MonitorNext
  <1>3. CASE Crash
    BY <1>3, FreshSlots DEF Crash, MonitorReset
  <1>4. CASE UNCHANGED vars
    BY <1>4, OtherStepSlots DEF vars, monitorVars
  <1> QED
    BY <1>1, <1>2, <1>3, <1>4 DEF Next

\* While ticks do not overlap, whoever is to give a token back is the only one
\* who will, and the count of tokens is the count of downloads that hold one.
THEOREM SlotsInvariant ==
  ASSUME OneTick
  PROVE  Spec => []SlotInv
  <1>1. Init => SlotInv
    BY FreshSlots DEF Init, MonitorInit
  <1>2. TypeInv /\ SlotInv /\ [Next]_vars => SlotInv'
    BY SlotStep
  <1> QED
    BY <1>1, <1>2, TypeCorrect, PTL DEF Spec

\* The accounting of getSemaphore and releaseSemaphore: no token of a provider
\* is leaked and none is released twice.
THEOREM SlotsAccounted ==
  ASSUME OneTick
  PROVE  Spec => []SlotsMatch
  <1>1. SlotInv => SlotsMatch
    BY DEF SlotInv
  <1> QED
    BY <1>1, SlotsInvariant, PTL

----------------------------------------------------------------------------
(* The limit.                                                              *)

\* A semaphore never holds more tokens than it has room for.
WithinCap == \A p \in Providers : Cap[p] > 0 => slots[p] <= Cap[p]

LEMMA WithinCapStep ==
  ASSUME TypeInv, WithinCap, [Next]_vars
  PROVE  WithinCap'
  <1>1. slots \in [Providers -> Nat] /\ Cap \in [Providers -> Nat]
    BY MonitorAssumption DEF TypeInv, TypeOK, MonitorTypeOK
  <1>2. \/ UNCHANGED slots
        \/ \E p \in Providers : Release(p)
        \/ \E p \in Providers : slots[p] < Cap[p] /\ slots' = [slots EXCEPT ![p] = slots[p] + 1]
        \/ slots' = SlotsFree
    <2>1. CASE ServiceStep \/ ImporterStep \/ ProviderStep \/ UNCHANGED vars
      BY <2>1 DEF ServiceStep, ImporterStep, ProviderStep, vars, monitorVars
    <2>2. CASE Crash
      BY <2>2 DEF Crash, MonitorReset
    <2>3. CASE \E t \in Ticks : TickStep(t)
      BY <2>3 DEF TickStep, TickBegin, SyncList, SyncDrop, StartList, PollList, CheckList,
         RetryList, TickEnd
    <2>4. CASE ResolverStep \/ BootStep \/ TimeStep
      BY <2>4 DEF ResolverStep, ResolveList, ResolveEnd, ResolveSearch, ResolveWrite, BootStep,
         Start, Recover, Revisit, TimeStep, BackoffElapses, DeadlinePasses, monitorVars
    <2>5. ASSUME NEW t \in Ticks, NEW id \in Ids, TaskStep(t, id)
          PROVE  \/ UNCHANGED slots
                 \/ \E p \in Providers : Release(p)
                 \/ \E p \in Providers : slots[p] < Cap[p] /\ slots' = [slots EXCEPT ![p] = slots[p] + 1]
      <3>1. CASE StartAcquire(t, id)
        BY <3>1 DEF StartAcquire
      <3>2. CASE Leave(t, id)
        BY <3>2 DEF Leave, Release
      <3>3. CASE ~StartAcquire(t, id) /\ ~Leave(t, id)
        BY <2>5, <3>3 DEF TaskStep, SyncFail, StartPick, StartCas, StartLaunch, StartFails,
           StartReread, StartPersist, PollBegin, PollStatus, PollProgress, PollComplete,
           PollFilePath, PollAnnounce, CheckGet, CheckAbort, FailGet, FailCas, FailReget,
           FailWrite, ScanSearch, ScanWrite
      <3> QED
        BY <3>1, <3>2, <3>3
    <2> QED
      BY <2>1, <2>2, <2>3, <2>4, <2>5 DEF Next, MonitorStep, MonitorNext
  <1>3. CASE UNCHANGED slots
    BY <1>3 DEF WithinCap
  <1>4. CASE \E p \in Providers : Release(p)
    BY <1>1, <1>4 DEF WithinCap, Release
  <1>5. CASE \E p \in Providers : slots[p] < Cap[p] /\ slots' = [slots EXCEPT ![p] = slots[p] + 1]
    BY <1>1, <1>5 DEF WithinCap
  <1>6. CASE slots' = SlotsFree
    BY <1>1, <1>6 DEF WithinCap, SlotsFree
  <1> QED
    BY <1>2, <1>3, <1>4, <1>5, <1>6

\* What the semaphores are for: the monitor never follows more downloads of a
\* limited provider than its MaxConcurrent.
THEOREM LimitKept ==
  ASSUME OneTick
  PROVE  Spec => []TrackedLimit
  <1>1. Init => WithinCap
    BY MonitorAssumption DEF Init, MonitorInit, WithinCap, SlotsFree
  <1>2. TypeInv /\ WithinCap /\ [Next]_vars => WithinCap'
    BY WithinCapStep
  <1>3. TypeInv /\ SlotsMatch /\ WithinCap => TrackedLimit
    <2> SUFFICES ASSUME TypeInv, SlotsMatch, WithinCap, NEW p \in Providers, Cap[p] > 0
                 PROVE  Cardinality({id \in Ids : Tracked(id) /\ active[id].via = p}) <= Cap[p]
      BY DEF TrackedLimit
    <2> DEFINE followed == {id \in Ids : Tracked(id) /\ active[id].via = p}
    <2>1. followed \subseteq Holders(p)
      BY DEF Holders, HoldsSlot
    <2>2. Cardinality(followed) <= Cardinality(Holders(p)) /\ Cardinality(followed) \in Nat
      BY <2>1, HoldersFinite, FS_Subset, FS_CardinalityType
    <2>3. Cardinality(Holders(p)) = slots[p] /\ slots[p] <= Cap[p] /\ Cap[p] \in Nat
      BY MonitorAssumption DEF SlotsMatch, WithinCap
    <2> HIDE DEF followed
    <2>4. slots[p] \in Nat
      BY DEF TypeInv, TypeOK, MonitorTypeOK
    <2>5. Cardinality(followed) <= Cap[p]
      BY <2>2, <2>3, <2>4
    <2> QED
      BY <2>5 DEF followed
  <1> QED
    BY <1>1, <1>2, <1>3, TypeCorrect, SlotsAccounted, PTL DEF Spec

-----------------------------------------------------------------------------
(* One import chain at a time *)

\* What ExclusiveInv says of one record.
Alone(id) == OneImport(id) /\ ResolverAlone(id) /\ \A t \in Ticks : TaskAlone(t, id)

LEMMA ExclusiveParts ==
  /\ ExclusiveInv <=> /\ \A id \in Ids : Alone(id)
                     /\ BootAlone
                     /\ \A c \in Callers : ret[c].pc = "idle"
  /\ ExclusiveInv' <=> /\ \A id \in Ids : Alone(id)'
                      /\ BootAlone'
                      /\ \A c \in Callers : ret'[c].pc = "idle"
  BY DEF ExclusiveInv, Alone

----------------------------------------------------------------------------
(* The states a row can be in, position by position.                       *)

LEMMA StatesByPosition ==
  ASSUME NEW f \in Frame, NEW phase, NEW tracked \in BOOLEAN
  PROVE  LET S == StatesOf(f, phase, tracked)
         IN /\ f.pc = "listed" /\ phase = "start" => S = {"queued", "ignored"}
            /\ f.pc = "listed" /\ phase = "retry" => S = {"failed", "failedPending", "ignored"}
            /\ f.pc = "listed" /\ phase \notin {"start", "retry"} => S = {"downloading", "ignored"}
            /\ f.pc \in {"acquire", "cas"} => S = {"queued", "ignored"}
            /\ f.pc \in Launched => S = {"downloading", "ignored"}
            /\ f.pc \in {"filePath", "announce"} => S = {"importPending", "ignored"}
            /\ f.pc = "failGet" => S = {"queued", "downloading", "ignored"}
            /\ f.pc = "failCas" =>
                 S = {f.row.state, "ignored"} \cap {"queued", "downloading", "ignored"}
            /\ f.pc \in {"failReget", "failWrite"} => S = {"failed", "ignored"}
            /\ f.pc = "write" => S = {"failed", "failedPending", "ignored"}
            /\ f.pc = "exit" /\ f.then = "drop" =>
                 S = {"downloading", "importPending", "importing", "imported", "failed", "ignored"}
            /\ f.pc = "exit" /\ f.then # "drop" => S = {"failed", "ignored"}
            /\ f.pc = "idle" => S = IF tracked THEN {"downloading", "ignored"} ELSE States
  <1>1. f.pc \in Pcs
    BY DEF Frame
  <1>2. CASE f.pc \in {"listed", "acquire", "cas", "filePath", "announce", "failGet"}
    BY <1>2 DEF StatesOf, Launched, Retryable
  <1>3. CASE f.pc \in Launched
    BY <1>3 DEF StatesOf, Launched, Retryable
  <1>4. CASE f.pc \in {"failCas", "failReget", "failWrite", "write", "idle"}
    BY <1>4 DEF StatesOf, Launched, Retryable
  <1>5. CASE f.pc = "exit"
    BY <1>5 DEF StatesOf, Launched, States, Terminal
  <1> QED
    BY <1>1, <1>2, <1>3, <1>4, <1>5 DEF Pcs, Launched

\* Cancel may come in between anywhere.
LEMMA IgnoredAnywhere ==
  ASSUME NEW f \in Frame, NEW phase, NEW tracked \in BOOLEAN
  PROVE  "ignored" \in StatesOf(f, phase, tracked)
  <1>1. f.pc \in Pcs /\ "ignored" \in States
    BY DEF Frame, States, Terminal
  <1> QED
    BY <1>1, StatesByPosition DEF Pcs, Launched

\* Absent, queued and failedPending rows, and where ticks may stand for them.
LEMMA NotElsewhere ==
  ASSUME NEW f \in Frame, NEW phase, NEW tracked \in BOOLEAN, NEW s \in StatesOf(f, phase, tracked)
  PROVE  /\ s = "absent" => f.pc = "idle"
         /\ s \in {"absent", "queued", "failed", "failedPending", "imported"} /\ f.pc = "idle"
              => ~tracked
  <1>1. f.pc \in Pcs
    BY DEF Frame
  <1> QED
    BY <1>1, StatesByPosition DEF Pcs, Launched

----------------------------------------------------------------------------
(* What a step that works on one record leaves alone.                      *)

LEMMA Typed ==
  ASSUME TypeInv
  PROVE  /\ rec \in [Ids -> Row] /\ bus \in [Ids -> Nat]
         /\ active \in [Ids -> Track] /\ task \in [Ticks -> [Ids -> Frame]]
         /\ res \in [Ids -> ResFrame] /\ imp \in [Ids -> [Workers -> ImpFrame]]
         /\ \A id \in Ids : Tracked(id) \in BOOLEAN
  BY DEF TypeInv, TypeOK, StoreTypeOK, MonitorTypeOK, ImporterTypeOK, Tracked

\* A record whose state, source, tracking, events and frames stay as they are.
LEMMA Untouched ==
  ASSUME NEW id \in Ids, Alone(id),
         rec'[id].state = rec[id].state, IsPendingSource(rec'[id]) <=> IsPendingSource(rec[id]),
         bus'[id] = bus[id], imp'[id] = imp[id], res'[id] = res[id],
         Tracked(id)' = Tracked(id),
         \A t \in Ticks : task'[t][id] = task[t][id] /\ tick'[t].phase = tick[t].phase
  PROVE  Alone(id)'
  <1>1. Busy(id)' = Busy(id)
    BY DEF Busy, ImpAt
  <1>2. OneImport(id)' /\ ResolverAlone(id)'
    BY <1>1 DEF Alone, OneImport, ResolverAlone, ImpAt, At
  <1>3. ASSUME NEW t \in Ticks
        PROVE  TaskAlone(t, id)'
    <2>1. TaskAlone(t, id)
      BY DEF Alone
    <2> QED
      BY <1>1, <1>3, <2>1 DEF TaskAlone, At
  <1> QED
    BY <1>2, <1>3 DEF Alone

\* A row that becomes ignored, or whose other columns change, where nothing
\* else does.
LEMMA RowIgnored ==
  ASSUME TypeInv, NEW id \in Ids, Alone(id), rec'[id].state = "ignored",
         UNCHANGED <<bus, imp, res, active, task, tick>>
  PROVE  Alone(id)'
  <1>1. Busy(id)' = Busy(id) /\ Tracked(id)' = Tracked(id)
    BY DEF Busy, ImpAt, Tracked
  <1>2. OneImport(id)' /\ ResolverAlone(id)'
    BY <1>1 DEF Alone, OneImport, ResolverAlone, ImpAt, At
  <1>3. ASSUME NEW t \in Ticks
        PROVE  TaskAlone(t, id)'
    <2>1. TaskAlone(t, id)
      BY DEF Alone
    <2>2. rec'[id].state \in StatesOf(task[t][id], tick[t].phase, Tracked(id))
      BY Typed, IgnoredAnywhere
    <2> QED
      BY <1>1, <2>1, <2>2 DEF TaskAlone, At
  <1> QED
    BY <1>2, <1>3 DEF Alone

\* A step of a tick for a record that no importer and no resolver is on.
LEMMA TickMoves ==
  ASSUME OneTick, TypeInv, NEW id \in Ids, NEW t \in Ticks, NEW g, Alone(id),
         ~Busy(id), bus'[id] = bus[id], imp'[id] = imp[id],
         res'[id] = res[id], g.pc # "idle" => res[id].pc = "idle",
         task'[t][id] = g,
         rec'[id].state \in StatesOf(g, tick'[t].phase, Tracked(id)'),
         WorksUntracked(g, tick'[t].phase) => ~Tracked(id)',
         res[id].pc = "idle" \/ (rec'[id] = rec[id] /\ Tracked(id)' = Tracked(id)),
         rec'[id].state = "queued" /\ IsPendingSource(rec'[id]) => g.pc = "idle"
  PROVE  Alone(id)'
  <1>1. ~Busy(id)'
    BY DEF Busy, ImpAt
  <1>2. OneImport(id)'
    BY <1>1, Typed DEF Alone, OneImport, Busy, ImpAt
  <1>3. \A s \in Ticks : s = t
    BY DEF OneTick
  <1>4. ResolverAlone(id)'
    BY <1>1, <1>3 DEF Alone, ResolverAlone, At
  <1>5. TaskAlone(t, id)'
    BY <1>1 DEF TaskAlone, At
  <1> QED
    BY <1>2, <1>3, <1>4, <1>5 DEF Alone

\* Where a tick stands at work on a record, nothing else does.
LEMMA AtWork ==
  ASSUME NEW id \in Ids, NEW t \in Ticks, Alone(id), ~At(t, id, "idle"),
         ~(At(t, id, "exit") /\ task[t][id].then = "drop")
  PROVE  /\ ~Busy(id) /\ res[id].pc = "idle"
         /\ ~(rec[id].state = "queued" /\ IsPendingSource(rec[id]))
         /\ rec[id].state \in StatesOf(task[t][id], tick[t].phase, Tracked(id))
  <1>1. TaskAlone(t, id) /\ ResolverAlone(id)
    BY DEF Alone
  <1> QED
    BY <1>1 DEF TaskAlone, ResolverAlone

----------------------------------------------------------------------------
(* A step of a tick for one id.                                            *)

\* The steps at work on a record, but for the announcement and the drop.
LEMMA WorkMoves ==
  ASSUME OneTick, TypeInv, TypeInv', NEW id \in Ids, NEW t \in Ticks, Alone(id),
         ~At(t, id, "idle"), ~(At(t, id, "exit") /\ task[t][id].then = "drop"),
         UNCHANGED <<bus, imp, res, tick>>,
         rec'[id].state \in StatesOf(task'[t][id], tick[t].phase, Tracked(id)'),
         WorksUntracked(task'[t][id], tick[t].phase) => ~Tracked(id)',
         rec'[id] = rec[id] \/ rec'[id].state # "queued" \/ task'[t][id].pc = "idle"
  PROVE  Alone(id)'
  BY AtWork, TickMoves

\* What is known of the record and of the frame when a tick is to go on.
Known(t, id) ==
  /\ task[t][id] \in Frame /\ task'[t][id] \in Frame
  /\ rec[id] \in Row /\ rec'[id] \in Row
  /\ FrameFollows(t, id) /\ FrameHolds(t, id) /\ CopyFits(t, id)
  /\ WorksUntracked(task[t][id], tick[t].phase) => ~Tracked(id)

LEMMA KnownOf ==
  ASSUME TypeInv, TypeInv', HandoverInv, SlotInv, NEW id \in Ids, NEW t \in Ticks, Alone(id)
  PROVE  Known(t, id)
  <1>1. TaskAlone(t, id) /\ FrameFollows(t, id) /\ FrameHolds(t, id) /\ CopyFits(t, id)
    BY HandoverParts DEF Alone, SlotInv
  <1>2. task[t][id] \in Frame /\ task'[t][id] \in Frame /\ rec[id] \in Row /\ rec'[id] \in Row
    BY DEF TypeInv, TypeOK, StoreTypeOK, MonitorTypeOK
  <1> QED
    BY <1>1, <1>2 DEF Known, TaskAlone

\* The ways a frame moves on.
LEMMA Goes ==
  ASSUME TypeInv, NEW id \in Ids, NEW t \in Ticks, NEW pc \in Pcs
  PROVE  /\ Go(t, id, pc) => /\ task'[t][id].pc = pc
                             /\ task'[t][id].then = task[t][id].then
                             /\ task'[t][id].row = task[t][id].row
         /\ Set(t, id, Idle) => task'[t][id].pc = "idle"
         /\ \A then \in {"none", "free", "drop"} :
              /\ Exit(t, id, then) => task'[t][id].pc = "exit" /\ task'[t][id].then = then
              /\ Fail(t, id, then) => task'[t][id].pc = "failGet" /\ task'[t][id].then = then
  <1>1. task[t][id] \in Frame
    BY Typed
  <1>2. Go(t, id, pc) => /\ task'[t][id].pc = pc
                         /\ task'[t][id].then = task[t][id].then
                         /\ task'[t][id].row = task[t][id].row
    <2>1. PICK h : h = [task[t][id] EXCEPT !.pc = pc]
      OBVIOUS
    <2>2. h.pc = pc /\ h.then = task[t][id].then /\ h.row = task[t][id].row
      BY <1>1, <2>1, GoFrame
    <2>3. Go(t, id, pc) => Set(t, id, h)
      BY <2>1 DEF Go
    <2> QED
      BY <2>2, <2>3, SetTask
  <1>3. Set(t, id, Idle) => task'[t][id].pc = "idle"
    BY SetTask DEF Idle
  <1>4. ASSUME NEW then \in {"none", "free", "drop"}
        PROVE  /\ Exit(t, id, then) => task'[t][id].pc = "exit" /\ task'[t][id].then = then
               /\ Fail(t, id, then) => task'[t][id].pc = "failGet" /\ task'[t][id].then = then
    <2>1. ASSUME NEW to \in {"exit", "failGet"},
                 Set(t, id, [task[t][id] EXCEPT !.pc = to, !.then = then])
          PROVE  task'[t][id].pc = to /\ task'[t][id].then = then
      <3>1. PICK h : h = [task[t][id] EXCEPT !.pc = to, !.then = then]
        OBVIOUS
      <3>2. h.pc = to /\ h.then = then
        BY <1>1, <3>1 DEF Frame
      <3>3. Set(t, id, h)
        BY <2>1, <3>1
      <3> QED
        BY <3>2, <3>3, SetTask
    <2> QED
      BY <2>1 DEF Exit, Fail
  <1> QED
    BY <1>2, <1>3, <1>4

\* Dispatch.
LEMMA StartAlone ==
  ASSUME OneTick, TypeInv, TypeInv', HandoverInv, SlotInv,
         NEW id \in Ids, NEW t \in Ticks, Alone(id), UNCHANGED imp,
         \/ SyncFail(t, id) \/ StartPick(t, id) \/ StartAcquire(t, id) \/ StartCas(t, id)
         \/ StartLaunch(t, id) \/ StartFails(t, id) \/ StartReread(t, id) \/ StartPersist(t, id)
  PROVE  Alone(id)'
  <1> DEFINE f == task[t][id]
  <1> DEFINE g == task'[t][id]
  <1> DEFINE k == tick[t].phase
  <1>1. Known(t, id)
    BY KnownOf
  <1>2. f \in Frame /\ g \in Frame /\ rec[id] \in Row /\ Tracked(id) \in BOOLEAN /\ Tracked(id)' \in BOOLEAN
    BY <1>1 DEF Known, Tracked
  <1>3. /\ rec[id].state \in StatesOf(f, k, Tracked(id))
        /\ ~At(t, id, "idle") => ~(rec[id].state = "queued" /\ IsPendingSource(rec[id]))
    BY DEF Alone, TaskAlone, ResolverAlone
  <1>4. UNCHANGED <<bus, res, tick>>
    BY DEF SyncFail, StartPick, StartAcquire, StartCas, StartLaunch, StartFails, StartReread,
           StartPersist, storeVars, tickVars
  <1>p. /\ rec[id].state \in States /\ "downloading" \in States
        /\ \A p \in {"idle", "acquire", "cas", "launch", "reread", "persist", "exit", "failGet"} : p \in Pcs
    BY <1>2 DEF Row, Pcs, States
  <1>w. ASSUME f.pc # "idle", ~(f.pc = "exit" /\ f.then = "drop"),
               rec'[id].state \in StatesOf(g, k, Tracked(id)'),
               WorksUntracked(g, k) => ~Tracked(id)',
               rec'[id] = rec[id] \/ rec'[id].state # "queued" \/ g.pc = "idle"
        PROVE  Alone(id)'
    BY <1>4, <1>w, WorkMoves DEF At
  <1>5. CASE SyncFail(t, id)
    <2>1. f.pc = "listed" /\ k = "sync" /\ Go(t, id, "failGet") /\ rec' = rec /\ active' = active
      BY <1>5 DEF SyncFail, Take, At, In, storeVars
    <2>2. g.pc = "failGet" /\ g.then = f.then /\ Tracked(id)' = Tracked(id)
      BY <1>p, <2>1, Goes DEF Tracked
    <2>3. rec[id].state \in {"downloading", "ignored"} /\ ~Tracked(id)
      BY <1>1, <1>2, <1>3, <2>1, StatesByPosition DEF Known, WorksUntracked
    <2>4. rec'[id].state \in StatesOf(g, k, Tracked(id)')
      BY <1>2, <2>1, <2>2, <2>3, StatesByPosition
    <2> QED
      BY <1>w, <2>1, <2>2, <2>3, <2>4
  <1>6. CASE StartPick(t, id)
    <2>1. f.pc = "listed" /\ k = "start" /\ rec' = rec /\ active' = active /\ Tracked(id)' = Tracked(id)
      BY <1>6 DEF StartPick, Take, At, In, storeVars, Tracked
    <2>2. rec[id].state \in {"queued", "ignored"} /\ ~Tracked(id)
      BY <1>1, <1>2, <1>3, <2>1, StatesByPosition DEF Known, WorksUntracked
    <2>3. CASE rec[id].state = "queued"
      <3>1. g = [Idle EXCEPT !.pc = "acquire", !.row = rec[id], !.via = Gate(id, rec[id])]
        BY <1>6, <2>2, <2>3, SetTask DEF StartPick
      <3>2. g.pc = "acquire"
        BY <3>1 DEF Idle
      <3> QED
        BY <1>2, <1>w, <2>1, <2>2, <3>2, StatesByPosition DEF WorksUntracked
    <2>4. CASE rec[id].state # "queued"
      <3>1. g.pc = "idle"
        BY <1>6, <1>p, <2>4, Goes DEF StartPick
      <3> QED
        BY <1>2, <1>p, <1>w, <2>1, <2>2, <3>1, StatesByPosition DEF WorksUntracked
    <2> QED
      BY <2>3, <2>4
  <1>7. CASE StartAcquire(t, id)
    <2>1. f.pc = "acquire" /\ rec' = rec /\ active' = active /\ Tracked(id)' = Tracked(id)
      BY <1>7 DEF StartAcquire, At, storeVars, Tracked
    <2>2. rec[id].state \in {"queued", "ignored"} /\ ~Tracked(id)
      BY <1>1, <1>2, <1>3, <2>1, StatesByPosition DEF Known, FrameHolds
    <2>3. g.pc \in {"idle", "cas", "failGet"}
      <3>1. \/ Fail(t, id, "none") \/ Go(t, id, "cas") \/ Set(t, id, Idle)
            \/ Set(t, id, [task[t][id] EXCEPT !.pc = "cas", !.then = "free"])
        BY <1>7 DEF StartAcquire
      <3>2. CASE Set(t, id, [task[t][id] EXCEPT !.pc = "cas", !.then = "free"])
        <4>1. PICK h : h = [task[t][id] EXCEPT !.pc = "cas", !.then = "free"]
          OBVIOUS
        <4>2. h.pc = "cas" /\ Set(t, id, h)
          BY <1>2, <3>2, <4>1 DEF Frame
        <4> QED
          BY <4>2, SetTask
      <3> QED
        BY <1>p, <3>1, <3>2, Goes
    <2>4. rec'[id].state \in StatesOf(g, k, Tracked(id)')
      BY <1>2, <1>p, <2>1, <2>2, <2>3, StatesByPosition
    <2> QED
      BY <1>w, <2>1, <2>2, <2>3, <2>4
  <1>8. CASE StartCas(t, id)
    <2>1. f.pc = "cas" /\ active' = active /\ Tracked(id)' = Tracked(id)
      BY <1>8 DEF StartCas, At, Tracked
    <2>2. rec[id].state \in {"queued", "ignored"} /\ ~Tracked(id) /\ f.then # "drop"
      BY <1>1, <1>2, <1>3, <2>1, StatesByPosition DEF Known, FrameHolds, FrameFollows
    <2>3. CASE Go(t, id, "launch") /\ TransitionState(id, "queued", "downloading")
      <3>1. rec'[id].state = "downloading" /\ g.pc = "launch"
        BY <1>2, <1>p, <2>3, Typed, StateTyped, Goes DEF TransitionState, Row
      <3>2. rec'[id].state \in StatesOf(g, k, Tracked(id)')
        BY <1>2, <3>1, StatesByPosition DEF Launched
      <3> QED
        BY <1>w, <2>1, <2>2, <3>1, <3>2 DEF WorksUntracked
    <2>4. CASE Go(t, id, "exit") /\ rec' = rec /\ rec[id].state # "queued"
      <3>1. g.pc = "exit" /\ g.then # "drop"
        BY <1>p, <2>2, <2>4, Goes
      <3>2. rec'[id].state \in StatesOf(g, k, Tracked(id)')
        BY <1>2, <2>2, <2>4, <3>1, StatesByPosition
      <3> QED
        BY <1>w, <2>1, <2>2, <2>4, <3>1, <3>2
    <2> QED
      BY <1>8, <2>3, <2>4 DEF StartCas, Matches
  <1>9. CASE StartLaunch(t, id)
    <2>1. f.pc = "launch" /\ rec' = rec
      BY <1>9 DEF StartLaunch, At
    <2>2. g.pc = "reread"
      <3>1. PICK n \in NextHandle(id) :
              Set(t, id, [task[t][id] EXCEPT !.pc = "reread", !.then = "none", !.h = n])
        BY <1>9 DEF StartLaunch
      <3>2. PICK h : h = [task[t][id] EXCEPT !.pc = "reread", !.then = "none", !.h = n]
        OBVIOUS
      <3>3. h.pc = "reread" /\ Set(t, id, h)
        BY <1>2, <3>1, <3>2 DEF Frame
      <3> QED
        BY <3>3, SetTask
    <2>3. rec[id].state \in {"downloading", "ignored"}
      BY <1>2, <1>3, <2>1, StatesByPosition DEF Launched
    <2>4. rec'[id].state \in StatesOf(g, k, Tracked(id)')
      BY <1>2, <2>1, <2>2, <2>3, StatesByPosition DEF Launched
    <2> QED
      BY <1>w, <2>1, <2>2, <2>3, <2>4 DEF WorksUntracked
  <1>10. CASE StartFails(t, id)
    <2>1. /\ f.pc = "launch" /\ rec' = rec /\ Fail(t, id, f.then)
          /\ active' = active /\ Tracked(id)' = Tracked(id)
      BY <1>10 DEF StartFails, At, storeVars, Tracked
    <2>2. rec[id].state \in {"downloading", "ignored"} /\ ~Tracked(id)
      BY <1>1, <1>2, <1>3, <2>1, StatesByPosition DEF Launched, Known, FrameHolds
    <2>3. g.pc = "failGet"
      <3>1. f.then \in {"none", "free", "drop"}
        BY <1>2 DEF Frame
      <3> QED
        BY <1>p, <2>1, <3>1, Goes
    <2>4. rec'[id].state \in StatesOf(g, k, Tracked(id)')
      BY <1>2, <2>1, <2>2, <2>3, StatesByPosition
    <2> QED
      BY <1>w, <2>1, <2>2, <2>3, <2>4
  <1>11. CASE StartReread(t, id)
    <2>1. f.pc = "reread" /\ rec' = rec
      BY <1>11 DEF StartReread, At, storeVars
    <2>2. g.pc \in {"idle", "persist"}
      <3>1. CASE Set(t, id, [task[t][id] EXCEPT !.pc = "persist", !.row = rec[id]])
        <4>1. PICK h : h = [task[t][id] EXCEPT !.pc = "persist", !.row = rec[id]]
          OBVIOUS
        <4>2. h.pc = "persist" /\ Set(t, id, h)
          BY <1>2, <3>1, <4>1 DEF Frame
        <4> QED
          BY <4>2, SetTask
      <3> QED
        BY <1>11, <1>p, <3>1, Goes DEF StartReread
    <2>3. rec[id].state \in {"downloading", "ignored"}
      BY <1>2, <1>3, <2>1, StatesByPosition DEF Launched
    <2>4. rec'[id].state \in StatesOf(g, k, Tracked(id)')
      BY <1>2, <1>p, <2>1, <2>2, <2>3, StatesByPosition DEF Launched
    <2> QED
      BY <1>w, <2>1, <2>2, <2>3, <2>4 DEF WorksUntracked
  <1>12. CASE StartPersist(t, id)
    <2>1. f.pc = "persist" /\ g.pc = "idle" /\ rec'[id] = [f.row EXCEPT !.pid = f.h]
      BY <1>12, <1>p, Goes, Typed DEF StartPersist, At, Update
    <2>2. f.row.state = "downloading" /\ f.row \in Row
      BY <1>1, <1>2, <2>1 DEF Known, CopyFits, At, Frame
    <2>3. rec'[id].state = "downloading"
      BY <2>1, <2>2 DEF Row
    <2>4. rec'[id].state \in StatesOf(g, k, Tracked(id)')
      BY <1>2, <1>p, <2>1, <2>3, StatesByPosition
    <2> QED
      BY <1>w, <2>1, <2>3, <2>4 DEF WorksUntracked
  <1> QED
    BY <1>5, <1>6, <1>7, <1>8, <1>9, <1>10, <1>11, <1>12

\* Following a transfer.
LEMMA PollAlone ==
  ASSUME OneTick, TypeInv, TypeInv', HandoverInv, SlotInv,
         NEW id \in Ids, NEW t \in Ticks, Alone(id), UNCHANGED imp,
         \/ PollBegin(t, id) \/ PollStatus(t, id) \/ PollProgress(t, id)
         \/ PollComplete(t, id) \/ PollFilePath(t, id)
  PROVE  Alone(id)'
  <1> DEFINE f == task[t][id]
  <1> DEFINE g == task'[t][id]
  <1> DEFINE k == tick[t].phase
  <1>1. Known(t, id)
    BY KnownOf
  <1>2. f \in Frame /\ g \in Frame /\ rec[id] \in Row /\ Tracked(id) \in BOOLEAN /\ Tracked(id)' \in BOOLEAN
    BY <1>1 DEF Known, Tracked
  <1>3. rec[id].state \in StatesOf(f, k, Tracked(id))
    BY DEF Alone, TaskAlone
  <1>4. UNCHANGED <<bus, res, tick>>
    BY DEF PollBegin, PollStatus, PollProgress, PollComplete, PollFilePath,
           storeVars, tickVars
  <1>p. /\ rec[id].state \in States
        /\ Pcs = {"idle", "listed", "acquire", "cas", "launch", "reread", "persist",
                  "poll", "status", "progress", "complete", "filePath", "announce",
                  "abort", "write", "failGet", "failCas", "failReget", "failWrite", "exit"}
    BY <1>2 DEF Row, Pcs
  <1>w. ASSUME f.pc # "idle", ~(f.pc = "exit" /\ f.then = "drop"),
               rec'[id].state \in StatesOf(g, k, Tracked(id)'),
               WorksUntracked(g, k) => ~Tracked(id)',
               rec'[id] = rec[id] \/ rec'[id].state # "queued" \/ g.pc = "idle"
        PROVE  Alone(id)'
    BY <1>4, <1>w, WorkMoves DEF At
  <1>5. /\ f.pc \in Launched => rec[id].state \in {"downloading", "ignored"}
        /\ f.pc = "filePath" => rec[id].state \in {"importPending", "ignored"}
    BY <1>2, <1>3, StatesByPosition
  <1>6. CASE PollBegin(t, id)
    <2>1. f.pc = "poll" /\ rec' = rec
      BY <1>6 DEF PollBegin, At, storeVars
    <2>2. g.pc \in {"idle", "status"} \/ (g.pc = "failGet" /\ g.then = "drop")
      BY <1>6, <1>p, Goes DEF PollBegin
    <2>3. rec'[id].state \in StatesOf(g, k, Tracked(id)')
      BY <1>2, <1>5, <1>p, <2>1, <2>2, StatesByPosition DEF Launched
    <2> QED
      BY <1>w, <2>1, <2>2, <2>3 DEF WorksUntracked
  <1>7. CASE PollStatus(t, id)
    <2>1. f.pc = "status" /\ rec' = rec
      BY <1>7 DEF PollStatus, At, storeVars
    <2>2. g.pc \in {"idle", "progress"}
      <3>1. PICK h : h = [task[t][id] EXCEPT !.pc = "progress", !.st = job[id][task[t][id].h].st]
        OBVIOUS
      <3>2. h.pc = "progress"
        BY <1>2, <3>1 DEF Frame
      <3>3. Set(t, id, h) \/ Set(t, id, Idle)
        BY <1>7, <3>1 DEF PollStatus
      <3> QED
        BY <1>p, <3>2, <3>3, SetTask, Goes
    <2>3. rec'[id].state \in StatesOf(g, k, Tracked(id)')
      BY <1>2, <1>5, <1>p, <2>1, <2>2, StatesByPosition DEF Launched
    <2> QED
      BY <1>w, <2>1, <2>2, <2>3 DEF WorksUntracked
  <1>8. CASE PollProgress(t, id)
    <2>1. f.pc = "progress" /\ rec'[id].state = "downloading"
      BY <1>2, <1>8, Typed DEF PollProgress, At, UpdateProgress, Row
    <2>2. g.pc \in {"idle", "complete"} \/ (g.pc \in {"failGet", "exit"} /\ g.then = "drop")
      BY <1>8, <1>p, Goes DEF PollProgress
    <2>3. "downloading" \in States
      BY DEF States
    <2>4. rec'[id].state \in StatesOf(g, k, Tracked(id)')
      BY <1>2, <2>1, <2>2, <2>3, StatesByPosition DEF Launched
    <2> QED
      BY <1>w, <2>1, <2>2, <2>4 DEF WorksUntracked
  <1>9. CASE PollComplete(t, id)
    <2>1. f.pc = "complete"
      BY <1>9 DEF PollComplete, At
    <2>2. \/ rec'[id].state = "importPending" /\ g.pc \in {"filePath", "announce"}
          \/ rec' = rec /\ g.pc = "exit" /\ g.then = "drop"
      <3>1. CASE TransitionState(id, "downloading", "importPending")
        <4>1. PICK pc \in {"filePath", "announce"} : Go(t, id, pc)
          BY <1>9, <3>1 DEF PollComplete, TransitionState
        <4>2. rec'[id].state = "importPending"
          BY <1>2, <3>1, Typed DEF TransitionState, Row
        <4> QED
          BY <1>p, <4>1, <4>2, Goes
      <3>2. CASE ~TransitionState(id, "downloading", "importPending")
        <4>1. rec' = rec /\ Exit(t, id, "drop")
          BY <1>9, <3>2 DEF PollComplete
        <4> QED
          BY <1>p, <4>1, Goes
      <3> QED
        BY <3>1, <3>2
    <2>3. rec'[id].state \in StatesOf(g, k, Tracked(id)')
      BY <1>2, <1>5, <2>1, <2>2, StatesByPosition DEF Launched
    <2> QED
      BY <1>w, <2>1, <2>2, <2>3 DEF WorksUntracked
  <1>10. CASE PollFilePath(t, id)
    <2>1. f.pc = "filePath" /\ rec'[id].state = "importPending" /\ g.pc = "announce"
      <3>1. f.pc = "filePath" /\ UpdateProgress(id, "importPending") /\ Go(t, id, "announce")
        BY <1>10 DEF PollFilePath, At
      <3>2. rec'[id].state = "importPending"
        BY <1>2, <3>1, Typed DEF UpdateProgress, Row
      <3> QED
        BY <1>p, <3>1, <3>2, Goes
    <2>2. rec'[id].state \in StatesOf(g, k, Tracked(id)')
      BY <1>2, <2>1, StatesByPosition
    <2> QED
      BY <1>w, <2>1, <2>2 DEF WorksUntracked
  <1> QED
    BY <1>6, <1>7, <1>8, <1>9, <1>10

\* checkCancellations and failRecord.
LEMMA FailAlone ==
  ASSUME OneTick, TypeInv, TypeInv', HandoverInv, SlotInv,
         NEW id \in Ids, NEW t \in Ticks, Alone(id), UNCHANGED imp,
         \/ CheckGet(t, id) \/ CheckAbort(t, id) \/ FailGet(t, id)
         \/ FailCas(t, id) \/ FailReget(t, id) \/ FailWrite(t, id)
  PROVE  Alone(id)'
  <1> DEFINE f == task[t][id]
  <1> DEFINE g == task'[t][id]
  <1> DEFINE k == tick[t].phase
  <1>1. Known(t, id)
    BY KnownOf
  <1>2. f \in Frame /\ g \in Frame /\ rec[id] \in Row /\ Tracked(id) \in BOOLEAN /\ Tracked(id)' \in BOOLEAN
    BY <1>1 DEF Known, Tracked
  <1>3. rec[id].state \in StatesOf(f, k, Tracked(id))
    BY DEF Alone, TaskAlone
  <1>4. UNCHANGED <<bus, res, tick>>
    BY DEF CheckGet, CheckAbort, FailGet, FailCas, FailReget, FailWrite,
           storeVars, tickVars
  <1>p. /\ rec[id].state \in States
        /\ Pcs = {"idle", "listed", "acquire", "cas", "launch", "reread", "persist",
                  "poll", "status", "progress", "complete", "filePath", "announce",
                  "abort", "write", "failGet", "failCas", "failReget", "failWrite", "exit"}
    BY <1>2 DEF Row, Pcs
  <1>w. ASSUME f.pc # "idle", ~(f.pc = "exit" /\ f.then = "drop"),
               rec'[id].state \in StatesOf(g, k, Tracked(id)'),
               WorksUntracked(g, k) => ~Tracked(id)',
               rec'[id] = rec[id] \/ rec'[id].state # "queued" \/ g.pc = "idle"
        PROVE  Alone(id)'
    BY <1>4, <1>w, WorkMoves DEF At
  <1>5. CASE CheckGet(t, id)
    <2>1. f.pc = "listed" /\ k = "check" /\ rec' = rec
      BY <1>5 DEF CheckGet, Take, At, In, storeVars
    <2>2. rec[id].state \in {"downloading", "ignored"}
      BY <1>2, <1>3, <2>1, StatesByPosition
    <2>3. g.pc \in {"idle", "abort"} \/ (g.pc = "exit" /\ g.then = "drop")
      BY <1>5, <1>p, Goes DEF CheckGet
    <2>4. rec'[id].state \in StatesOf(g, k, Tracked(id)')
      BY <1>2, <1>p, <2>1, <2>2, <2>3, StatesByPosition DEF Launched
    <2> QED
      BY <1>w, <2>1, <2>3, <2>4 DEF WorksUntracked
  <1>6. CASE CheckAbort(t, id)
    <2>1. f.pc = "abort" /\ rec' = rec /\ g.pc = "exit" /\ g.then = "drop"
      BY <1>6, <1>p, Goes DEF CheckAbort, At
    <2>2. rec[id].state \in {"downloading", "ignored"}
      BY <1>2, <1>3, <2>1, StatesByPosition DEF Launched
    <2>3. rec'[id].state \in StatesOf(g, k, Tracked(id)')
      BY <1>2, <2>1, <2>2, StatesByPosition
    <2> QED
      BY <1>w, <2>1, <2>3 DEF WorksUntracked
  <1>7. ASSUME f.pc \in {"failGet", "failCas", "failReget", "failWrite"}, g.then = f.then,
               g.pc \in {"failCas", "failReget", "failWrite", "exit"}, Tracked(id)' = Tracked(id)
        PROVE  WorksUntracked(g, k) => ~Tracked(id)'
    BY <1>1, <1>7 DEF Known, WorksUntracked
  <1>8. CASE FailGet(t, id)
    <2>1. f.pc = "failGet" /\ rec' = rec /\ Tracked(id)' = Tracked(id)
      BY <1>8 DEF FailGet, At, storeVars, Tracked
    <2>2. rec[id].state \in {"queued", "downloading", "ignored"}
      BY <1>2, <1>3, <2>1, StatesByPosition
    <2>3. CASE rec[id].state \in Terminal
      <3>1. g.pc = "exit" /\ g.then = f.then
        BY <1>8, <1>p, <2>3, Goes DEF FailGet
      <3>2. rec[id].state = "ignored"
        BY <2>2, <2>3 DEF Terminal
      <3>3. rec'[id].state \in StatesOf(g, k, Tracked(id)')
        BY <1>2, <2>1, <3>1, <3>2, IgnoredAnywhere
      <3> QED
        BY <1>7, <1>w, <2>1, <3>1, <3>3
    <2>4. CASE rec[id].state \notin Terminal
      <3>1. PICK h : h = [task[t][id] EXCEPT !.pc = "failCas", !.row = rec[id]]
        OBVIOUS
      <3>2. h.pc = "failCas" /\ h.then = f.then /\ h.row = rec[id]
        BY <1>2, <3>1 DEF Frame
      <3>3. g.pc = "failCas" /\ g.then = f.then /\ g.row = rec[id]
        BY <1>8, <2>4, <3>1, <3>2, SetTask DEF FailGet
      <3>4. StatesOf(g, k, Tracked(id)') = {g.row.state, "ignored"} \cap {"queued", "downloading", "ignored"}
        BY <1>2, <3>3, StatesByPosition
      <3>5. rec'[id].state \in StatesOf(g, k, Tracked(id)')
        BY <2>1, <2>2, <3>3, <3>4
      <3> QED
        BY <1>7, <1>w, <2>1, <3>3, <3>5
    <2> QED
      BY <2>3, <2>4
  <1>9. CASE FailCas(t, id)
    <2>1. f.pc = "failCas" /\ Tracked(id)' = Tracked(id)
      BY <1>9 DEF FailCas, At, Tracked
    <2>2. rec[id].state \in {f.row.state, "ignored"}
      BY <1>2, <1>3, <2>1, StatesByPosition
    <2>3. CASE TransitionState(id, f.row.state, "failed") /\ Go(t, id, "failReget")
      <3>1. rec'[id].state = "failed" /\ g.pc = "failReget" /\ g.then = f.then
        BY <1>2, <1>p, <2>3, Typed, Goes DEF TransitionState, Row
      <3>2. rec'[id].state \in StatesOf(g, k, Tracked(id)')
        BY <1>2, <3>1, StatesByPosition
      <3> QED
        BY <1>7, <1>w, <2>1, <3>1, <3>2
    <2>4. CASE ~Matches(id, f.row.state) /\ Go(t, id, "exit") /\ rec' = rec
      <3>1. rec'[id].state = "ignored" /\ rec'[id] = rec[id] /\ g.pc = "exit" /\ g.then = f.then
        BY <1>p, <2>2, <2>4, Goes DEF Matches
      <3>2. rec'[id].state \in StatesOf(g, k, Tracked(id)')
        BY <1>2, <3>1, IgnoredAnywhere
      <3> QED
        BY <1>7, <1>w, <2>1, <3>1, <3>2
    <2> QED
      BY <1>9, <2>3, <2>4 DEF FailCas
  <1>10. CASE FailReget(t, id)
    <2>1. f.pc = "failReget" /\ rec' = rec /\ Tracked(id)' = Tracked(id)
      BY <1>10 DEF FailReget, At, storeVars, Tracked
    <2>2. rec[id].state \in {"failed", "ignored"}
      BY <1>2, <1>3, <2>1, StatesByPosition
    <2>3. PICK r : r = [rec[id] EXCEPT !.state = "failed"]
      OBVIOUS
    <2>4. PICK h : h = [task[t][id] EXCEPT !.pc = "failWrite", !.row = r]
      OBVIOUS
    <2>5. h.pc = "failWrite" /\ h.then = f.then
      BY <1>2, <2>4 DEF Frame
    <2>6. g.pc = "failWrite" /\ g.then = f.then
      BY <1>10, <2>3, <2>4, <2>5, SetTask DEF FailReget
    <2>7. rec'[id].state \in StatesOf(g, k, Tracked(id)')
      BY <1>2, <2>1, <2>2, <2>6, StatesByPosition
    <2> QED
      BY <1>7, <1>w, <2>1, <2>6, <2>7
  <1>11. CASE FailWrite(t, id)
    <2>1. f.pc = "failWrite" /\ rec'[id] = f.row /\ Tracked(id)' = Tracked(id)
      BY <1>11, Typed DEF FailWrite, At, Update, Tracked
    <2>2. g.pc = "exit" /\ g.then = f.then
      BY <1>11, <1>p, Goes DEF FailWrite
    <2>3. rec'[id].state = "failed"
      BY <1>1, <2>1 DEF Known, CopyFits, At
    <2>4. rec'[id].state \in StatesOf(g, k, Tracked(id)')
      BY <1>2, <2>2, <2>3, StatesByPosition
    <2> QED
      BY <1>7, <1>w, <2>1, <2>2, <2>3, <2>4
  <1> QED
    BY <1>5, <1>6, <1>8, <1>9, <1>10, <1>11

\* scanRetry's search and write.
LEMMA ScanAlone ==
  ASSUME OneTick, TypeInv, TypeInv', HandoverInv, SlotInv,
         NEW id \in Ids, NEW t \in Ticks, Alone(id), UNCHANGED imp,
         ScanSearch(t, id) \/ ScanWrite(t, id)
  PROVE  Alone(id)'
  <1> DEFINE f == task[t][id]
  <1> DEFINE g == task'[t][id]
  <1> DEFINE k == tick[t].phase
  <1>1. Known(t, id)
    BY KnownOf
  <1>2. f \in Frame /\ g \in Frame /\ rec[id] \in Row /\ Tracked(id) \in BOOLEAN /\ Tracked(id)' \in BOOLEAN
    BY <1>1 DEF Known, Tracked
  <1>3. rec[id].state \in StatesOf(f, k, Tracked(id))
    BY DEF Alone, TaskAlone
  <1>4. UNCHANGED <<bus, res, tick>>
    BY DEF ScanSearch, ScanWrite,
           storeVars, tickVars
  <1>p. /\ rec[id].state \in States
        /\ Pcs = {"idle", "listed", "acquire", "cas", "launch", "reread", "persist",
                  "poll", "status", "progress", "complete", "filePath", "announce",
                  "abort", "write", "failGet", "failCas", "failReget", "failWrite", "exit"}
    BY <1>2 DEF Row, Pcs
  <1>w. ASSUME f.pc # "idle", ~(f.pc = "exit" /\ f.then = "drop"),
               rec'[id].state \in StatesOf(g, k, Tracked(id)'),
               WorksUntracked(g, k) => ~Tracked(id)',
               rec'[id] = rec[id] \/ rec'[id].state # "queued" \/ g.pc = "idle"
        PROVE  Alone(id)'
    BY <1>4, <1>w, WorkMoves DEF At
  <1>5. CASE ScanSearch(t, id)
    <2>1. f.pc = "listed" /\ k = "retry" /\ rec' = rec /\ Tracked(id)' = Tracked(id)
      BY <1>5 DEF ScanSearch, Take, At, In, storeVars, Tracked
    <2>2. rec[id].state \in {"failed", "failedPending", "ignored"} /\ ~Tracked(id)
      BY <1>1, <1>2, <1>3, <2>1, StatesByPosition DEF Known, WorksUntracked
    <2>3. g.pc \in {"idle", "write"}
      <3>1. CASE Set(t, id, Idle)
        BY <1>p, <3>1, Goes
      <3>2. CASE ~Set(t, id, Idle)
        <4>1. PICK found : Set(t, id, [task[t][id] EXCEPT
                             !.pc = "write",
                             !.row = [found EXCEPT !.state = "queued",
                                                   !.tries = found.tries + 1,
                                                   !.wait = TRUE]])
          BY <1>5, <3>2 DEF ScanSearch
        <4>2. PICK r : r = [found EXCEPT !.state = "queued", !.tries = found.tries + 1,
                                         !.wait = TRUE]
          OBVIOUS
        <4>3. PICK h : h = [task[t][id] EXCEPT !.pc = "write", !.row = r]
          OBVIOUS
        <4>4. h.pc = "write" /\ Set(t, id, h)
          BY <1>2, <4>1, <4>2, <4>3 DEF Frame
        <4> QED
          BY <4>4, SetTask
      <3> QED
        BY <3>1, <3>2
    <2>4. rec'[id].state \in StatesOf(g, k, Tracked(id)')
      BY <1>2, <1>p, <2>1, <2>2, <2>3, StatesByPosition
    <2> QED
      BY <1>w, <2>1, <2>2, <2>4
  <1>6. CASE ScanWrite(t, id)
    <2>1. f.pc = "write" /\ g.pc = "idle" /\ Tracked(id)' = Tracked(id)
      BY <1>6, <1>p, Goes DEF ScanWrite, At, Tracked
    <2>2. ~Tracked(id) /\ rec'[id].state \in States
      BY <1>1, <2>1 DEF Known, WorksUntracked, Row
    <2>3. rec'[id].state \in StatesOf(g, k, Tracked(id)')
      BY <1>2, <2>1, <2>2, StatesByPosition
    <2> QED
      BY <1>w, <2>1, <2>2, <2>3
  <1> QED
    BY <1>5, <1>6

\* The announcement: nobody was at work on the record but this poll, which is
\* now only to drop the download.
LEMMA AnnounceAlone ==
  ASSUME OneTick, TypeInv, TypeInv', NEW id \in Ids, NEW t \in Ticks, Alone(id),
         UNCHANGED imp, PollAnnounce(t, id)
  PROVE  Alone(id)'
  <1> DEFINE g == task'[t][id]
  <1>1. /\ task[t][id].pc = "announce" /\ g.pc = "exit" /\ g.then = "drop"
        /\ UNCHANGED <<rec, active, res, tick>> /\ bus'[id] = bus[id] + 1
    BY Goes, Typed DEF PollAnnounce, At, tickVars, Pcs
  <1>2. /\ ~Busy(id) /\ res[id].pc = "idle"
        /\ rec[id].state \in StatesOf(task[t][id], tick[t].phase, Tracked(id))
    BY <1>1, AtWork DEF At
  <1>3. task[t][id] \in Frame /\ g \in Frame /\ bus[id] \in Nat /\ Tracked(id) \in BOOLEAN
    BY DEF TypeInv, TypeOK, MonitorTypeOK, StoreTypeOK, Tracked
  <1>4. rec[id].state \in {"importPending", "ignored"} /\ Tracked(id)' = Tracked(id)
    BY <1>1, <1>2, <1>3, StatesByPosition DEF Tracked
  <1>5. OneImport(id)'
    BY <1>1, <1>2, <1>3, <1>4 DEF OneImport, Busy, ImpAt
  <1>6. \A s \in Ticks : s = t
    BY DEF OneTick
  <1>7. ResolverAlone(id)'
    BY <1>1, <1>2, <1>4 DEF ResolverAlone
  <1>8. rec'[id].state \in StatesOf(g, tick'[t].phase, Tracked(id)')
    BY <1>1, <1>3, <1>4, StatesByPosition
  <1>9. TaskAlone(t, id)'
    BY <1>1, <1>2, <1>8 DEF TaskAlone, At, WorksUntracked
  <1> QED
    BY <1>5, <1>6, <1>7, <1>9 DEF Alone

\* The end of a step's work: the download is dropped, or was not tracked.
LEMMA LeaveAlone ==
  ASSUME OneTick, TypeInv, TypeInv', NEW id \in Ids, NEW t \in Ticks, Alone(id),
         UNCHANGED imp, Leave(t, id)
  PROVE  Alone(id)'
  <1> DEFINE f == task[t][id]
  <1> DEFINE g == task'[t][id]
  <1>1. /\ f.pc = "exit" /\ g.pc = "idle" /\ UNCHANGED <<rec, bus, res, tick>>
    BY Goes DEF Leave, At, tickVars, storeVars, Pcs
  <1>2. /\ TaskAlone(t, id) /\ ResolverAlone(id) /\ OneImport(id)
        /\ f \in Frame /\ g \in Frame /\ rec[id] \in Row /\ active \in [Ids -> Track]
    BY DEF Alone, TypeInv, TypeOK, MonitorTypeOK, StoreTypeOK
  <1>3. ~Tracked(id)'
    <2>1. CASE f.then = "drop"
      BY <1>2, <2>1 DEF Leave, RemoveTracking, Tracked, Untracked
    <2>2. CASE f.then # "drop"
      BY <1>1, <1>2, <2>2 DEF Leave, TaskAlone, WorksUntracked, Tracked
    <2> QED
      BY <2>1, <2>2
  <1>4. res[id].pc = "idle" /\ Busy(id)' = Busy(id)
    BY <1>1, <1>2 DEF TaskAlone, At, Busy, ImpAt
  <1>5. OneImport(id)'
    BY <1>1, <1>2, <1>4 DEF OneImport, ImpAt
  <1>6. \A s \in Ticks : s = t
    BY DEF OneTick
  <1>7. ResolverAlone(id)'
    BY <1>1, <1>4, <1>6 DEF ResolverAlone, At
  <1>8. rec'[id].state \in StatesOf(g, tick'[t].phase, Tracked(id)')
    <2>1. Tracked(id)' \in BOOLEAN
      BY DEF Tracked
    <2> QED
      BY <1>1, <1>2, <1>3, <2>1, StatesByPosition DEF Row
  <1>9. TaskAlone(t, id)'
    BY <1>1, <1>3, <1>4, <1>8 DEF TaskAlone, At, WorksUntracked
  <1> QED
    BY <1>5, <1>6, <1>7, <1>9 DEF Alone

LEMMA OthersKeptTick ==
  ASSUME NEW id \in Ids, NEW t \in Ticks, TaskStep(t, id)
  PROVE  UNCHANGED <<tick, tickVars>>
    BY DEF TaskStep, SyncFail, StartPick, StartAcquire, StartCas, StartLaunch, StartFails,
           StartReread, StartPersist, PollBegin, PollStatus, PollProgress, PollComplete,
           PollFilePath, PollAnnounce, CheckGet, CheckAbort, FailGet, FailCas, FailReget,
           FailWrite, Leave, ScanSearch, ScanWrite

\* What a step for one id leaves as it is for the others.
LEMMA OthersKept ==
  ASSUME TypeInv, NEW id \in Ids, NEW t \in Ticks, TaskStep(t, id), NEW i \in Ids, i # id
  PROVE  /\ rec'[i] = rec[i] /\ bus'[i] = bus[i] /\ active'[i] = active[i]
         /\ \A s \in Ticks : task'[s][i] = task[s][i]
         /\ UNCHANGED <<tick, tickVars>>
  <1>1. \A r : Update(id, r) => rec'[i] = rec[i]
    BY Typed DEF Update
  <1>2. \A s, r : UpdateProgress(id, s) \/ TransitionState(id, r, s) => rec'[i] = rec[i]
    BY Typed DEF UpdateProgress, TransitionState
  <1>3. \A h : Set(t, id, h) => \A s \in Ticks : task'[s][i] = task[s][i]
    BY Typed DEF Set
  <1>4. /\ \A pc : Go(t, id, pc) => \A s \in Ticks : task'[s][i] = task[s][i]
        /\ \A x : Exit(t, id, x) \/ Fail(t, id, x) => \A s \in Ticks : task'[s][i] = task[s][i]
    BY <1>3 DEF Go, Exit, Fail
  <1>5. \A s \in Ticks : task'[s][i] = task[s][i]
    BY <1>3, <1>4 DEF TaskStep, SyncFail, StartPick, StartAcquire, StartCas, StartLaunch, StartFails,
           StartReread, StartPersist, PollBegin, PollStatus, PollProgress, PollComplete,
           PollFilePath, PollAnnounce, CheckGet, CheckAbort, FailGet, FailCas, FailReget,
           FailWrite, Leave, ScanSearch, ScanWrite
  <1>6. rec'[i] = rec[i]
    BY <1>1, <1>2 DEF TaskStep, SyncFail, StartPick, StartAcquire, StartCas, StartLaunch, StartFails,
           StartReread, StartPersist, PollBegin, PollStatus, PollProgress, PollComplete,
           PollFilePath, PollAnnounce, CheckGet, CheckAbort, FailGet, FailCas, FailReget,
           FailWrite, Leave, ScanSearch, ScanWrite, storeVars
  <1>7. bus'[i] = bus[i]
    BY Typed DEF TaskStep, SyncFail, StartPick, StartAcquire, StartCas, StartLaunch, StartFails,
           StartReread, StartPersist, PollBegin, PollStatus, PollProgress, PollComplete,
           PollFilePath, PollAnnounce, CheckGet, CheckAbort, FailGet, FailCas, FailReget,
           FailWrite, Leave, ScanSearch, ScanWrite, storeVars
  <1>8. active'[i] = active[i]
    BY Typed DEF TaskStep, SyncFail, StartPick, StartAcquire, StartCas, StartLaunch, StartFails,
           StartReread, StartPersist, PollBegin, PollStatus, PollProgress, PollComplete,
           PollFilePath, PollAnnounce, CheckGet, CheckAbort, FailGet, FailCas, FailReget,
           FailWrite, Leave, ScanSearch, ScanWrite, RemoveTracking
  <1> QED
    BY <1>5, <1>6, <1>7, <1>8, OthersKeptTick

\* While the process has not started nothing is at work but recovery.
LEMMA BootKept ==
  ASSUME ExclusiveInv, UNCHANGED <<up, boot, resolver>>,
         up \/ (\A id \in boot : ~Busy(id)'),
         up \/ UNCHANGED <<task, tick, active, res>>
  PROVE  BootAlone'
  BY DEF ExclusiveInv, BootAlone, In, Quiet, At, Tracked

LEMMA TaskStepExclusive ==
  ASSUME OneTick, TypeInv, TypeInv', HandoverInv, SlotInv, ExclusiveInv,
         NEW t \in Ticks, NEW id \in Ids, TaskStep(t, id), UNCHANGED <<imp, ret>>
  PROVE  ExclusiveInv'
  <1>1. Alone(id)'
    <2>1. Alone(id)
      BY ExclusiveParts
    <2> QED
      BY <2>1, StartAlone, PollAlone, FailAlone, ScanAlone, AnnounceAlone, LeaveAlone DEF TaskStep
  <1>2. ASSUME NEW i \in Ids, i # id
        PROVE  Alone(i)'
    <2>1. Alone(i) /\ UNCHANGED res
      BY <1>2, ExclusiveParts, OthersKept DEF tickVars
    <2> QED
      BY <1>2, <2>1, OthersKept, Untouched DEF Tracked
  <1>3. ~At(t, id, "idle")
    BY DEF TaskStep, SyncFail, StartPick, StartAcquire, StartCas, StartLaunch, StartFails,
           StartReread, StartPersist, PollBegin, PollStatus, PollProgress, PollComplete,
           PollFilePath, PollAnnounce, CheckGet, CheckAbort, FailGet, FailCas, FailReget,
           FailWrite, Leave, ScanSearch, ScanWrite, Take, At
  <1>4. UNCHANGED <<up, boot, resolver>>
    <2>1. UNCHANGED tickVars
      BY OthersKeptTick
    <2> QED
      BY <2>1 DEF tickVars
  <1>5. up
    BY <1>3 DEF ExclusiveInv, BootAlone, Quiet
  <1>6. BootAlone'
    BY <1>4, <1>5, BootKept
  <1> QED
    BY <1>1, <1>2, <1>6, ExclusiveParts

----------------------------------------------------------------------------
(* A step of a tick as a whole.                                            *)

\* A record that a tick is not at work on, before or after the step.
LEMMA PhaseIdle ==
  ASSUME OneTick, TypeInv, TypeInv', NEW id \in Ids, NEW t \in Ticks, Alone(id),
         At(t, id, "idle"), At(t, id, "idle")',
         UNCHANGED <<rec, bus, imp, res>>, Tracked(id)' = Tracked(id)
  PROVE  Alone(id)'
  <1>1. \A s \in Ticks : s = t
    BY DEF OneTick
  <1>2. Busy(id)' = Busy(id) /\ TaskAlone(t, id) /\ OneImport(id) /\ ResolverAlone(id)
    BY DEF Busy, ImpAt, Alone
  <1>3. OneImport(id)' /\ ResolverAlone(id)'
    BY <1>1, <1>2 DEF OneImport, ResolverAlone, ImpAt, At
  <1>4. /\ task[t][id] \in Frame /\ task'[t][id] \in Frame
        /\ Tracked(id) \in BOOLEAN /\ Tracked(id)' \in BOOLEAN
    BY DEF TypeInv, TypeOK, MonitorTypeOK, Tracked
  <1>5. rec'[id].state \in StatesOf(task'[t][id], tick'[t].phase, Tracked(id)')
    BY <1>2, <1>4, StatesByPosition DEF TaskAlone, At
  <1>6. TaskAlone(t, id)'
    BY <1>2, <1>5 DEF TaskAlone, At, WorksUntracked
  <1> QED
    BY <1>1, <1>3, <1>6 DEF Alone

\* What is known of a record that no tick is at work on.
LEMMA AtRest ==
  ASSUME OneTick, TypeInv, NEW id \in Ids, NEW t \in Ticks, Alone(id), At(t, id, "idle")
  PROVE  /\ Tracked(id) => /\ rec[id].state \in {"downloading", "ignored"}
                           /\ ~Busy(id) /\ res[id].pc = "idle"
         /\ rec[id].state \in {"absent", "queued", "failed", "failedPending"} =>
              ~Tracked(id) /\ ~Busy(id)
         /\ rec[id].state = "queued" /\ ~IsPendingSource(rec[id]) => res[id].pc = "idle"
         /\ rec[id].state \in {"absent", "failed", "failedPending"} => res[id].pc = "idle"
  <1>1. TaskAlone(t, id) /\ OneImport(id) /\ ResolverAlone(id)
    BY DEF Alone
  <1>2. task[t][id] \in Frame /\ Tracked(id) \in BOOLEAN
    BY DEF TypeInv, TypeOK, MonitorTypeOK, Tracked
  <1>3. Tracked(id) => rec[id].state \in {"downloading", "ignored"}
    BY <1>1, <1>2, StatesByPosition DEF TaskAlone, At
  <1> QED
    BY <1>1, <1>3 DEF TaskAlone, OneImport, ResolverAlone, At

\* A tick that takes up a record at rest.
LEMMA TakesUp ==
  ASSUME OneTick, TypeInv, TypeInv', NEW id \in Ids, NEW t \in Ticks, Alone(id),
         At(t, id, "idle"), UNCHANGED <<rec, bus, imp, res>>,
         ~Busy(id), res[id].pc = "idle",
         rec[id].state \in StatesOf(task'[t][id], tick'[t].phase, Tracked(id)'),
         WorksUntracked(task'[t][id], tick'[t].phase) => ~Tracked(id)',
         rec[id].state = "queued" => ~IsPendingSource(rec[id])
  PROVE  Alone(id)'
  BY TickMoves

LEMMA TickBeginAlone ==
  ASSUME OneTick, TypeInv, NEW id \in Ids, NEW t \in Ticks, Alone(id), TickBegin(t),
         UNCHANGED imp
  PROVE  Alone(id)'
  <1>1. /\ UNCHANGED <<rec, bus, res, active, task>>
        /\ tick[t].phase = "off" /\ tick'[t].phase = "sync"
    <2>1. tick \in [Ticks -> Tick]
      BY DEF TypeInv, TypeOK, MonitorTypeOK
    <2> QED
      BY <2>1 DEF TickBegin, storeVars, tickVars, In
  <1>2. \A s \in Ticks : s = t
    BY DEF OneTick
  <1>3. Busy(id)' = Busy(id) /\ Tracked(id)' = Tracked(id)
    BY <1>1 DEF Busy, ImpAt, Tracked
  <1>4. OneImport(id)' /\ ResolverAlone(id)' /\ TaskAlone(t, id)
    BY <1>1, <1>3 DEF Alone, OneImport, ResolverAlone, ImpAt, At
  <1>5. StatesOf(task[t][id], "sync", Tracked(id)) = StatesOf(task[t][id], "off", Tracked(id))
    BY DEF StatesOf
  <1>6. TaskAlone(t, id)'
    BY <1>1, <1>3, <1>4, <1>5 DEF TaskAlone, At, WorksUntracked
  <1> QED
    BY <1>2, <1>4, <1>6 DEF Alone

\* What the tick follows: a tracked record at rest is taken up with its handle.
LEMMA SnapshotAlone ==
  ASSUME OneTick, TypeInv, TypeInv', NEW id \in Ids, NEW t \in Ticks, Alone(id),
         At(t, id, "idle"), UNCHANGED <<rec, bus, imp, res, active>>,
         NEW pc, NEW phase, Enter(t, phase, Snapshot(pc)),
         (pc = "poll" /\ phase = "poll") \/ (pc = "listed" /\ phase = "check")
  PROVE  Alone(id)'
  <1>1. tick \in [Ticks -> Tick] /\ task \in [Ticks -> [Ids -> Frame]]
    BY DEF TypeInv, TypeOK, MonitorTypeOK
  <1>2. tick'[t].phase = phase /\ task'[t][id] = Snapshot(pc)[id]
    BY <1>1 DEF Enter, Tick
  <1>3. Tracked(id)' = Tracked(id)
    BY DEF Tracked
  <1>4. CASE ~Tracked(id)
    <2>1. task'[t][id].pc = "idle"
      <3>1. task'[t][id] = Idle
        BY <1>2, <1>4 DEF Snapshot
      <3> QED
        BY <3>1 DEF Idle
    <2>2. At(t, id, "idle")'
      BY <2>1 DEF At
    <2> QED
      BY <1>3, <2>2, PhaseIdle
  <1>5. CASE Tracked(id)
    <2>1. task'[t][id].pc = pc
      BY <1>2, <1>5 DEF Snapshot, Idle
    <2>2. /\ rec[id].state \in {"downloading", "ignored"}
          /\ ~Busy(id) /\ res[id].pc = "idle"
      BY <1>5, AtRest
    <2>3. task'[t][id] \in Frame /\ Tracked(id)' \in BOOLEAN
      BY DEF TypeInv, TypeOK, MonitorTypeOK, Tracked
    <2>4. rec[id].state \in StatesOf(task'[t][id], tick'[t].phase, Tracked(id)')
      BY <1>2, <2>1, <2>2, <2>3, StatesByPosition DEF Launched
    <2> QED
      BY <1>2, <2>1, <2>2, <2>4, TakesUp DEF WorksUntracked
  <1> QED
    BY <1>4, <1>5

\* What the tick lists from the table: a row at rest in a state to act on.
LEMMA ListAlone ==
  ASSUME OneTick, TypeInv, TypeInv', NEW id \in Ids, NEW t \in Ticks, Alone(id),
         At(t, id, "idle"), UNCHANGED <<rec, bus, imp, res, active>>,
         NEW phase, tick'[t].phase = phase,
         \/ task'[t][id].pc = "idle"
         \/ /\ task'[t][id].pc = "listed"
            /\ \/ phase = "start" /\ rec[id].state = "queued" /\ ~IsPendingSource(rec[id])
               \/ phase = "retry" /\ rec[id].state \in Retryable
  PROVE  Alone(id)'
  <1>1. Tracked(id)' = Tracked(id)
    BY DEF Tracked
  <1>2. CASE task'[t][id].pc = "idle"
    BY <1>1, <1>2, PhaseIdle DEF At
  <1>3. CASE task'[t][id].pc = "listed"
    <2>1. ~Busy(id) /\ res[id].pc = "idle" /\ ~Tracked(id)
      BY <1>3, AtRest DEF Retryable
    <2>2. task'[t][id] \in Frame /\ Tracked(id)' \in BOOLEAN
      BY DEF TypeInv, TypeOK, MonitorTypeOK, Tracked
    <2>3. rec[id].state \in StatesOf(task'[t][id], tick'[t].phase, Tracked(id)')
      BY <1>3, <2>2, StatesByPosition DEF Retryable
    <2>4. rec[id].state = "queued" => ~IsPendingSource(rec[id])
      BY <1>3 DEF Retryable
    <2> QED
      BY <1>1, <2>1, <2>3, <2>4, TakesUp
  <1> QED
    BY <1>2, <1>3

\* What the sync lost: a tracked record at rest loses its tracking.
LEMMA SyncDropAlone ==
  ASSUME OneTick, TypeInv, TypeInv', NEW id \in Ids, NEW t \in Ticks, Alone(id),
         SyncDrop(t), UNCHANGED imp
  PROVE  Alone(id)'
  <1> DEFINE p == tick[t].via
  <1> DEFINE lost == {i \in Ids : /\ Tracked(i) /\ active[i].via = p
                                  /\ <<i, active[i].h>> \notin tick[t].seen}
  <1>1. /\ tick \in [Ticks -> Tick] /\ task \in [Ticks -> [Ids -> Frame]]
        /\ active \in [Ids -> Track] /\ task'[t][id] \in Frame
        /\ Tracked(id) \in BOOLEAN /\ Tracked(id)' \in BOOLEAN
    BY DEF TypeInv, TypeOK, MonitorTypeOK, Tracked
  <1>2. /\ At(t, id, "idle") /\ UNCHANGED <<rec, bus, res>>
        /\ active'[id] = IF id \in lost THEN Untracked ELSE active[id]
        /\ task'[t][id] = IF id \in lost
                          THEN [Idle EXCEPT !.pc = "listed", !.then = "free",
                                            !.via = p, !.h = active[id].h]
                          ELSE Idle
    BY <1>1 DEF SyncDrop, Quiet, storeVars, tickVars
  <1>3. tick'[t].phase = "sync"
    <2>1. tick' = [tick EXCEPT ![t].phase = "sync", ![t].seen = {}, ![t].via = Client]
      BY DEF SyncDrop
    <2>2. tick[t] \in Tick
      BY <1>1
    <2> QED
      BY <1>1, <2>1, <2>2 DEF Tick
  <1>4. CASE id \notin lost
    <2>1. task'[t][id].pc = "idle" /\ Tracked(id)' = Tracked(id)
      BY <1>2, <1>4 DEF Idle, Tracked
    <2> QED
      BY <1>2, <2>1, PhaseIdle DEF At
  <1>5. CASE id \in lost
    <2>1. Tracked(id) /\ ~Tracked(id)' /\ task'[t][id].pc = "listed"
      BY <1>2, <1>5 DEF Idle, Tracked, Untracked
    <2>2. /\ rec[id].state \in {"downloading", "ignored"}
          /\ ~Busy(id) /\ res[id].pc = "idle"
      BY <1>2, <2>1, AtRest
    <2>3. rec[id].state \in StatesOf(task'[t][id], tick'[t].phase, Tracked(id)')
      BY <1>1, <1>3, <2>1, <2>2, StatesByPosition
    <2> QED
      BY <1>2, <2>1, <2>2, <2>3, TakesUp
  <1> QED
    BY <1>4, <1>5

LEMMA TickStepExclusive ==
  ASSUME OneTick, TypeInv, TypeInv', ExclusiveInv, NEW t \in Ticks, TickStep(t),
         UNCHANGED <<imp, ret>>
  PROVE  ExclusiveInv'
  <1>1. UNCHANGED <<up, boot>>
    BY DEF TickStep, TickBegin, SyncList, SyncDrop, StartList, PollList, CheckList, RetryList,
           TickEnd, tickVars
  <1>2. up
    <2>1. tick[t].phase # "off" \/ up
      BY DEF TickStep, TickBegin, SyncList, SyncDrop, StartList, PollList, CheckList, RetryList,
             TickEnd, In
    <2> QED
      BY <2>1 DEF ExclusiveInv, BootAlone, In
  <1>3. BootAlone'
    BY <1>1, <1>2 DEF ExclusiveInv, BootAlone
  <1>4. ASSUME NEW id \in Ids
        PROVE  Alone(id)'
    <2>1. Alone(id)
      BY ExclusiveParts
    <2>2. tick \in [Ticks -> Tick] /\ task \in [Ticks -> [Ids -> Frame]]
      BY DEF TypeInv, TypeOK, MonitorTypeOK
    <2>3. CASE TickBegin(t)
      BY <2>1, <2>3, TickBeginAlone
    <2>4. CASE (\E p \in Providers : SyncList(t, p)) \/ TickEnd(t)
      <3>1. At(t, id, "idle") /\ UNCHANGED <<rec, bus, res, active, task>>
        BY <2>4 DEF SyncList, TickEnd, Quiet, storeVars, tickVars
      <3> QED
        BY <2>1, <3>1, PhaseIdle DEF At, Tracked
    <2>5. CASE SyncDrop(t)
      BY <2>1, <2>5, SyncDropAlone
    <2>6. CASE PollList(t) \/ CheckList(t)
      <3>1. /\ At(t, id, "idle") /\ UNCHANGED <<rec, bus, res, active>>
            /\ Enter(t, "poll", Snapshot("poll")) \/ Enter(t, "check", Snapshot("listed"))
        BY <2>6 DEF PollList, CheckList, Quiet, storeVars, tickVars
      <3> QED
        BY <2>1, <3>1, SnapshotAlone
    <2>7. CASE StartList(t)
      <3>1. /\ At(t, id, "idle") /\ UNCHANGED <<rec, bus, res, active>>
            /\ tick' = [tick EXCEPT ![t].phase = "start"]
            /\ task'[t][id] =
                 IF rec[id].state = "queued" /\ ~IsPendingSource(rec[id]) /\ ~rec[id].wait
                 THEN [Idle EXCEPT !.pc = "listed"] ELSE Idle
        BY <2>2, <2>7 DEF StartList, Quiet, Enter, storeVars, tickVars
      <3>2. /\ task'[t][id].pc \in {"idle", "listed"}
            /\ task'[t][id].pc = "listed" =>
                 rec[id].state = "queued" /\ ~IsPendingSource(rec[id])
        BY <3>1 DEF Idle
      <3>3. tick'[t].phase = "start"
        BY <2>2, <3>1 DEF Tick
      <3> QED
        BY <2>1, <3>1, <3>2, <3>3, ListAlone
    <2>8. CASE RetryList(t)
      <3> DEFINE due == sinceRetry + 1 >= RetryEvery
      <3>1. /\ At(t, id, "idle") /\ UNCHANGED <<rec, bus, res, active>>
            /\ tick' = [tick EXCEPT ![t].phase = "retry"]
            /\ task'[t][id] =
                 IF due /\ rec[id].state \in Retryable /\ rec[id].tries < MaxRetries /\ ~rec[id].wait
                 THEN [Idle EXCEPT !.pc = "listed", !.row = rec[id]] ELSE Idle
        BY <2>2, <2>8 DEF RetryList, Quiet, Enter, storeVars
      <3>2. /\ task'[t][id].pc \in {"idle", "listed"}
            /\ task'[t][id].pc = "listed" => rec[id].state \in Retryable
        BY <3>1 DEF Idle
      <3>3. tick'[t].phase = "retry"
        BY <2>2, <3>1 DEF Tick
      <3> QED
        BY <2>1, <3>1, <3>2, <3>3, ListAlone
    <2> QED
      BY <2>3, <2>4, <2>5, <2>6, <2>7, <2>8 DEF TickStep
  <1> QED
    BY <1>3, <1>4, ExclusiveParts

----------------------------------------------------------------------------
(* What users do.                                                          *)

\* A row that is inserted: nothing was at work on it.
LEMMA InsertAlone ==
  ASSUME TypeInv, TypeInv', NEW id \in Ids, Alone(id),
         rec[id].state = "absent", rec'[id].state = "queued",
         UNCHANGED <<bus, imp, res, active, task, tick>>
  PROVE  Alone(id)'
  <1>1. OneImport(id) /\ ResolverAlone(id)
    BY DEF Alone
  <1>2. ~Busy(id) /\ res[id].pc = "idle"
    BY <1>1 DEF OneImport, ResolverAlone
  <1>3. ~Busy(id)' /\ Tracked(id)' = Tracked(id)
    BY <1>2 DEF Busy, ImpAt, Tracked
  <1>4. ASSUME NEW t \in Ticks
        PROVE  At(t, id, "idle") /\ ~Tracked(id) /\ TaskAlone(t, id)'
    <2>1. TaskAlone(t, id) /\ task[t][id] \in Frame /\ Tracked(id) \in BOOLEAN
      BY DEF Alone, TypeInv, TypeOK, MonitorTypeOK, Tracked
    <2>2. At(t, id, "idle") /\ ~Tracked(id)
      BY <2>1, NotElsewhere DEF TaskAlone, At
    <2>3. rec'[id].state \in StatesOf(task[t][id], tick[t].phase, Tracked(id))
      BY <2>1, <2>2, StatesByPosition DEF At, States
    <2> QED
      BY <1>2, <1>3, <2>2, <2>3 DEF TaskAlone, At, WorksUntracked
  <1>5. OneImport(id)'
    BY <1>1, <1>2, <1>3 DEF OneImport, ImpAt
  <1>6. ResolverAlone(id)'
    BY <1>2, <1>4 DEF ResolverAlone, At
  <1> QED
    BY <1>4, <1>5, <1>6 DEF Alone

LEMMA ServiceStepExclusive ==
  ASSUME MaxUserRetries = 0, TypeInv, TypeInv', ExclusiveInv, ServiceStep
  PROVE  ExclusiveInv'
  <1>1. UNCHANGED <<bus, imp, up, boot, resolver, active, task, tick, res>>
    BY DEF ServiceStep, ServiceNext, Queue, QueuePending, CancelGet, CancelWrite, CancelProvider,
           RetryGet, RetryWrite, RetrySearch, RetrySubmit, storeVars, monitorVars
  <1>2. /\ rec \in [Ids -> Row] /\ can \in [Ids -> CanFrame] /\ rec' \in [Ids -> Row]
        /\ retries = 0
    BY DEF TypeInv, TypeOK, StoreTypeOK, ServiceTypeOK
  <1>3. \A c \in Callers, id \in Ids : ~RetryGet(c, id)
    BY <1>2 DEF RetryGet
  <1>4. \A c \in Callers : ~RetryWrite(c) /\ ~RetrySearch(c) /\ ~RetrySubmit(c)
    BY DEF ExclusiveInv, RetryWrite, RetrySearch, RetrySubmit
  <1>5. PICK id \in Ids : \/ Queue(id) \/ QueuePending(id) \/ CancelGet(id)
                          \/ CancelWrite(id) \/ CancelProvider(id)
    BY <1>3, <1>4 DEF ServiceStep, ServiceNext
  <1>6. ret' = ret
    BY <1>5 DEF Queue, QueuePending, CancelGet, CancelWrite, CancelProvider, serviceVars
  <1>7. \A i \in Ids : i # id => rec'[i] = rec[i]
    BY <1>2, <1>5 DEF Queue, QueuePending, CancelGet, CancelWrite, CancelProvider, Insert, Update,
                      storeVars
  <1>9. BootAlone'
    BY <1>1 DEF ServiceStep, ExclusiveInv, BootAlone
  <1>10. ASSUME NEW i \in Ids, rec'[i] = rec[i]
         PROVE  Alone(i)'
    BY <1>1, <1>10, Untouched, ExclusiveParts DEF Tracked
  <1>11. Alone(id)'
    <2>1. CASE Queue(id) \/ QueuePending(id)
      <3>1. rec[id].state = "absent"
        BY <2>1 DEF Queue, QueuePending
      <3>2. rec'[id].state = "queued"
        <4>1. PICK r : rec' = [rec EXCEPT ![id] = [r EXCEPT !.state = "queued", !.tries = 0]] /\ r \in Row
          <5>1. CASE QueuePending(id)
            BY <5>1, NoRowTyped DEF QueuePending, Insert
          <5>2. CASE Queue(id)
            <6>1. PICK p \in Providers \ {Client} : Insert(id, WithSource(NoRow, p))
              BY <5>2 DEF Queue
            <6>2. WithSource(NoRow, p) \in Row
              BY NoRowTyped, WithSourceTyped
            <6> QED
              BY <6>1, <6>2 DEF Insert
          <5> QED
            BY <2>1, <5>1, <5>2
        <4> QED
          BY <1>2, <4>1 DEF Row
      <3> QED
        BY <1>1, <3>1, <3>2, InsertAlone, ExclusiveParts
    <2>2. CASE CancelWrite(id)
      <3>1. PICK r \in Row : r = can[id].row
        BY <1>2 DEF CanFrame
      <3>2. rec'[id].state = "ignored"
        BY <1>2, <2>2, <3>1 DEF CancelWrite, Update, Row
      <3> QED
        BY <1>1, <3>2, RowIgnored, ExclusiveParts
    <2>3. CASE CancelGet(id) \/ CancelProvider(id)
      BY <1>10, <2>3 DEF CancelGet, CancelProvider, storeVars
    <2> QED
      BY <1>5, <2>1, <2>2, <2>3
  <1> QED
    BY <1>6, <1>7, <1>9, <1>10, <1>11, ExclusiveParts

----------------------------------------------------------------------------
(* The resolver.                                                           *)

\* Nothing but the resolver is on a record that it lists, or has listed.
LEMMA ResolvesAlone ==
  ASSUME TypeInv, NEW id \in Ids, Alone(id), ~Tracked(id), ~Busy(id),
         \A t \in Ticks : At(t, id, "idle"),
         rec'[id].state \in States,
         res'[id].pc # "idle" => /\ rec'[id].state \in {"queued", "ignored"}
                                 /\ rec'[id].state = "queued" => IsPendingSource(rec'[id]),
         UNCHANGED <<bus, imp, active, task, tick>>
  PROVE  Alone(id)'
  <1>1. ~Busy(id)' /\ Tracked(id)' = Tracked(id)
    BY DEF Busy, ImpAt, Tracked
  <1>2. OneImport(id)'
    BY <1>1 DEF Alone, OneImport, ImpAt
  <1>3. ResolverAlone(id)'
    BY <1>1 DEF ResolverAlone, At
  <1>4. ASSUME NEW t \in Ticks
        PROVE  TaskAlone(t, id)'
    <2>1. task[t][id] \in Frame /\ Tracked(id) \in BOOLEAN
      BY DEF TypeInv, TypeOK, MonitorTypeOK, Tracked
    <2>2. rec'[id].state \in StatesOf(task[t][id], tick[t].phase, Tracked(id))
      BY <2>1, StatesByPosition DEF At
    <2> QED
      BY <1>1, <2>2 DEF TaskAlone, At, WorksUntracked
  <1> QED
    BY <1>2, <1>3, <1>4 DEF Alone

LEMMA ResolverStepExclusive ==
  ASSUME OneTick, TypeInv, TypeInv', HandoverInv, ExclusiveInv, ResolverStep,
         UNCHANGED <<imp, ret>>
  PROVE  ExclusiveInv'
  <1>1. UNCHANGED <<bus, up, boot, active, task, tick>>
    BY DEF ResolverStep, ResolveList, ResolveEnd, ResolveSearch, ResolveWrite, storeVars
  <1>2. rec \in [Ids -> Row] /\ rec' \in [Ids -> Row] /\ res \in [Ids -> ResFrame]
    BY DEF TypeInv, TypeOK, StoreTypeOK, MonitorTypeOK
  <1>3. ASSUME NEW id \in Ids
        PROVE  Alone(id) /\ ResolverAlone(id) /\ OneImport(id)
    BY ExclusiveParts DEF Alone
  <1>4. ASSUME NEW id \in Ids, res[id].pc # "idle"
        PROVE  /\ ~Tracked(id) /\ ~Busy(id) /\ \A t \in Ticks : At(t, id, "idle")
               /\ rec[id].state \in {"queued", "ignored"}
               /\ rec[id].state = "queued" => IsPendingSource(rec[id])
    <2>1. ASSUME NEW t \in Ticks
          PROVE  At(t, id, "idle")
      <3>1. TaskAlone(t, id)
        BY <1>3 DEF Alone
      <3> QED
        BY <1>4, <3>1 DEF TaskAlone
    <2> QED
      BY <1>3, <1>4, <2>1 DEF ResolverAlone
  <1>5. up
    <2>1. resolver # "off" \/ \E id \in Ids : res[id].pc # "idle"
      BY DEF ResolverStep, ResolveList, ResolveEnd, ResolveSearch, ResolveWrite
    <2> QED
      BY <2>1 DEF ExclusiveInv, BootAlone
  <1>6. BootAlone'
    BY <1>1, <1>5 DEF ExclusiveInv, BootAlone
  <1>7. ASSUME NEW id \in Ids, rec'[id] = rec[id], res'[id] = res[id]
        PROVE  Alone(id)'
    BY <1>1, <1>3, <1>7, Untouched DEF Tracked
  <1>8. CASE ResolveList
    <2>1. ASSUME NEW id \in Ids, rec[id].state = "queued", IsPendingSource(rec[id])
          PROVE  ~Tracked(id) /\ ~Busy(id) /\ \A t \in Ticks : At(t, id, "idle")
      <3>1. ~Busy(id) /\ \A t \in Ticks : At(t, id, "idle")
        BY <1>3, <2>1 DEF ResolverAlone, OneImport
      <3>2. PICK t \in Ticks : At(t, id, "idle")
        BY <3>1, MonitorAssumption
      <3> QED
        BY <1>3, <2>1, <3>1, <3>2, AtRest
    <2>2. ASSUME NEW id \in Ids
          PROVE  Alone(id)'
      <3>1. CASE rec[id].state = "queued" /\ IsPendingSource(rec[id])
        <4>1. rec' = rec /\ rec[id].state \in States
          BY <1>2, <1>8 DEF ResolveList, storeVars, Row
        <4> QED
          BY <1>1, <1>3, <2>1, <3>1, <4>1, ResolvesAlone
      <3>2. CASE ~(rec[id].state = "queued" /\ IsPendingSource(rec[id]))
        <4>1. res'[id].pc = "idle" /\ rec' = rec
          BY <1>2, <1>8, <3>2 DEF ResolveList, NoRes, storeVars
        <4>2. Busy(id)' = Busy(id) /\ Tracked(id)' = Tracked(id)
          BY <1>1 DEF Busy, ImpAt, Tracked
        <4> QED
          BY <1>1, <1>3, <3>2, <4>1, <4>2
          DEF Alone, OneImport, ResolverAlone, TaskAlone, ImpAt, At
      <3> QED
        BY <3>1, <3>2
    <2> QED
      BY <1>6, <2>2, ExclusiveParts
  <1>9. CASE ResolveEnd
    BY <1>6, <1>7, <1>9, ExclusiveParts DEF ResolveEnd, storeVars
  <1>10. CASE \E id \in Ids : ResolveSearch(id) \/ ResolveWrite(id)
    <2>1. PICK id \in Ids : ResolveSearch(id) \/ ResolveWrite(id)
      BY <1>10
    <2>2. res[id].pc # "idle"
      BY <2>1 DEF ResolveSearch, ResolveWrite
    <2>3. ASSUME NEW i \in Ids, i # id
          PROVE  rec'[i] = rec[i] /\ res'[i] = res[i]
      BY <1>2, <2>1, <2>3 DEF ResolveSearch, ResolveWrite, Update, storeVars
    <2>4. rec'[id].state \in States
      BY <1>2 DEF Row
    <2>5. res'[id].pc # "idle" => rec'[id] = rec[id]
      BY <1>2, <2>1 DEF ResolveSearch, ResolveWrite, NoRes, storeVars
    <2>6. Alone(id)'
      BY <1>1, <1>3, <1>4, <2>2, <2>4, <2>5, ResolvesAlone
    <2> QED
      BY <1>6, <1>7, <2>3, <2>6, ExclusiveParts
  <1> QED
    BY <1>8, <1>9, <1>10 DEF ResolverStep

----------------------------------------------------------------------------
(* Recovery, the passing of time and the transfers themselves.             *)

LEMMA BootStepExclusive ==
  ASSUME TypeInv, TypeInv', ExclusiveInv, BootStep, UNCHANGED <<imp, ret>>
  PROVE  ExclusiveInv'
  <1>1. UNCHANGED <<active, task, tick, res>> /\ ~up
    BY DEF BootStep, Start, Recover, Revisit
  <1>2. rec \in [Ids -> Row] /\ bus \in [Ids -> Nat]
    BY DEF TypeInv, TypeOK, StoreTypeOK
  <1>3. ASSUME NEW id \in Ids
        PROVE  /\ Alone(id) /\ OneImport(id) /\ ResolverAlone(id)
               /\ ~Tracked(id) /\ res[id].pc = "idle"
               /\ \A t \in Ticks : At(t, id, "idle") /\ In(t, "off")
    BY <1>1, ExclusiveParts DEF Alone, BootAlone, Quiet
  <1>4. ASSUME NEW id \in Ids, rec'[id] = rec[id], bus'[id] = bus[id]
        PROVE  Alone(id)'
    BY <1>1, <1>3, <1>4, Untouched DEF Tracked
  <1>5. CASE Start
    <2>1. \A id \in Ids : Alone(id)'
      BY <1>4, <1>5 DEF Start, storeVars
    <2>2. BootAlone'
      BY <1>5 DEF Start, BootAlone
    <2> QED
      BY <2>1, <2>2, ExclusiveParts
  <1>6. CASE \E id \in Ids : Recover(id)
    <2>1. PICK id \in Ids : Recover(id)
      BY <1>6
    <2>2. /\ id \in boot /\ boot' = boot \ {id} /\ UNCHANGED <<up, resolver>>
          /\ \A i \in Ids : i # id => rec'[i] = rec[i] /\ bus'[i] = bus[i]
      BY <1>2, <2>1 DEF Recover, Revisit, UpdateProgress
    <2>3. ~Busy(id)
      BY <2>2 DEF ExclusiveInv, BootAlone
    <2>4. BootAlone'
      <3>1. \A i \in boot' : ~Busy(i)'
        <4>1. ASSUME NEW i \in boot'
              PROVE  ~Busy(i)'
          <5>1. i \in boot /\ i # id /\ i \in Ids
            BY <2>2, <4>1 DEF TypeInv, TypeOK, MonitorTypeOK
          <5>2. ~Busy(i)
            BY <5>1 DEF ExclusiveInv, BootAlone
          <5> QED
            BY <2>2, <5>1, <5>2 DEF Busy, ImpAt
        <4> QED
          BY <4>1
      <3> QED
        BY <1>1, <2>2, <3>1 DEF ExclusiveInv, BootAlone, In, Quiet, At, Tracked
    <2>5. Alone(id)'
      <3>1. CASE rec[id].state = "importPending"
        <4>1. rec'[id] = rec[id] /\ bus'[id] = bus[id] + 1
          BY <1>2, <2>1, <3>1 DEF Recover
        <4>2. bus[id] = 0 /\ \A w \in Workers : ImpAt(id, w, "idle")
          BY <1>2, <2>3 DEF Busy
        <4>3. OneImport(id)'
          BY <3>1, <4>1, <4>2 DEF OneImport, ImpAt
        <4>4. ResolverAlone(id)'
          BY <1>1, <1>3, <3>1, <4>1 DEF ResolverAlone
        <4>5. ASSUME NEW t \in Ticks
              PROVE  TaskAlone(t, id)'
          BY <1>1, <1>3, <4>1 DEF Alone, TaskAlone, At, Tracked
        <4> QED
          BY <4>3, <4>4, <4>5 DEF Alone
      <3>2. CASE rec[id].state # "importPending"
        <4>1. bus'[id] = bus[id] /\ (rec'[id] = rec[id] \/ rec'[id].state = "failed")
          BY <1>2, <2>1, <3>2 DEF Recover, UpdateProgress, Row
        <4>2. CASE rec'[id] = rec[id]
          BY <1>4, <4>1, <4>2
        <4>3. CASE rec'[id].state = "failed"
          <5>1. ~Busy(id)' /\ Tracked(id)' = Tracked(id)
            BY <1>1, <2>3, <4>1 DEF Busy, ImpAt, Tracked
          <5>2. OneImport(id)'
            BY <1>3, <4>1, <5>1 DEF OneImport, ImpAt
          <5>3. ResolverAlone(id)'
            BY <1>1, <1>3, <4>3 DEF ResolverAlone
          <5>4. ASSUME NEW t \in Ticks
                PROVE  TaskAlone(t, id)'
            <6>1. task[t][id] \in Frame /\ Tracked(id) \in BOOLEAN
              BY DEF TypeInv, TypeOK, MonitorTypeOK, Tracked
            <6>2. rec'[id].state \in StatesOf(task[t][id], tick[t].phase, Tracked(id))
              BY <1>3, <4>3, <6>1, StatesByPosition DEF At, States, Terminal
            <6> QED
              BY <1>1, <1>3, <5>1, <6>2 DEF TaskAlone, At
          <5> QED
            BY <5>2, <5>3, <5>4 DEF Alone
        <4> QED
          BY <4>1, <4>2, <4>3
      <3> QED
        BY <3>1, <3>2
    <2> QED
      BY <1>4, <2>2, <2>4, <2>5, ExclusiveParts
  <1> QED
    BY <1>5, <1>6 DEF BootStep

\* Steps that change nothing but the other columns of rows, the deadlines and
\* the transfers.
LEMMA OutsideExclusive ==
  ASSUME ExclusiveInv,
         \A id \in Ids : /\ rec'[id].state = rec[id].state
                         /\ IsPendingSource(rec'[id]) <=> IsPendingSource(rec[id])
                         /\ Tracked(id)' = Tracked(id),
         UNCHANGED <<bus, imp, res, ret, task, tick, up, boot, resolver>>
  PROVE  ExclusiveInv'
  <1>1. \A id \in Ids : Alone(id)'
    BY Untouched, ExclusiveParts
  <1>2. BootAlone'
    BY DEF ExclusiveInv, BootAlone, Busy, ImpAt, In, Quiet, At
  <1> QED
    BY <1>1, <1>2, ExclusiveParts

LEMMA TimeStepExclusive ==
  ASSUME TypeInv, ExclusiveInv, TimeStep, UNCHANGED <<imp, ret>>
  PROVE  ExclusiveInv'
  <1>1. rec \in [Ids -> Row] /\ active \in [Ids -> Track]
    BY DEF TypeInv, TypeOK, StoreTypeOK, MonitorTypeOK
  <1>2. ASSUME NEW i \in Ids, BackoffElapses(i), NEW id \in Ids
        PROVE  /\ rec'[id].state = rec[id].state
               /\ IsPendingSource(rec'[id]) <=> IsPendingSource(rec[id])
    <2>1. PICK r \in Row : r = rec[id]
      BY <1>1
    <2>2. rec'[id] = r \/ rec'[id] = [r EXCEPT !.wait = FALSE]
      BY <1>1, <1>2, <2>1 DEF BackoffElapses
    <2> QED
      BY <2>1, <2>2 DEF Row, IsPendingSource
  <1>3. ASSUME NEW i \in Ids, DeadlinePasses(i), NEW id \in Ids
        PROVE  Tracked(id)' = Tracked(id)
    <2>1. PICK a \in Track : a = active[id]
      BY <1>1
    <2>2. active'[id] = a \/ active'[id] = [a EXCEPT !.late = TRUE]
      BY <1>1, <1>3, <2>1 DEF DeadlinePasses
    <2> QED
      BY <2>1, <2>2 DEF Track, Tracked
  <1>4. CASE \E i \in Ids : BackoffElapses(i)
    BY <1>2, <1>4, OutsideExclusive DEF BackoffElapses, monitorVars, Tracked
  <1>5. CASE \E i \in Ids : DeadlinePasses(i)
    BY <1>3, <1>5, OutsideExclusive DEF DeadlinePasses, storeVars, tickVars
  <1> QED
    BY <1>4, <1>5 DEF TimeStep

----------------------------------------------------------------------------
(* The import chain.                                                       *)

\* While somebody is to import a record or does, its row moves from importing
\* to imported or failed, and no tick and no resolver is in the way.
LEMMA ImportMoves ==
  ASSUME TypeInv, NEW id \in Ids, Alone(id), Busy(id),
         \/ rec'[id] = rec[id]
         \/ rec'[id].state \in {"importing", "imported", "failed"},
         OneImport(id)', UNCHANGED <<res, active, task, tick>>
  PROVE  Alone(id)'
  <1>1. OneImport(id) /\ ResolverAlone(id)
    BY DEF Alone
  <1>2. res[id].pc = "idle" /\ Tracked(id)' = Tracked(id)
    BY <1>1 DEF ResolverAlone, Tracked
  <1>3. ResolverAlone(id)'
    BY <1>1, <1>2 DEF OneImport, ResolverAlone
  <1>4. ASSUME NEW t \in Ticks
        PROVE  TaskAlone(t, id)'
    <2>1. TaskAlone(t, id) /\ task[t][id] \in Frame /\ Tracked(id) \in BOOLEAN
      BY DEF Alone, TypeInv, TypeOK, MonitorTypeOK, Tracked
    <2>2. \/ At(t, id, "idle") /\ ~Tracked(id)
          \/ At(t, id, "exit") /\ task[t][id].then = "drop"
      BY <2>1 DEF TaskAlone
    <2>3. rec'[id].state \in StatesOf(task[t][id], tick[t].phase, Tracked(id))
      BY <2>1, <2>2, StatesByPosition DEF TaskAlone, At, States, Terminal
    <2> QED
      BY <1>2, <2>1, <2>2, <2>3 DEF TaskAlone, At, WorksUntracked
  <1> QED
    BY <1>3, <1>4 DEF Alone

\* One importer at work stays one, and when it is done there is none.
LEMMA OneImportKept ==
  ASSUME TypeInv, NEW id \in Ids, NEW w \in Workers, OneImport(id), ~ImpAt(id, w, "idle"),
         bus' = bus, \A v \in Workers : v # w => imp'[id][v] = imp[id][v],
         \/ rec'[id] = rec[id] \/ rec'[id].state = "importing" \/ ImpAt(id, w, "idle")'
  PROVE  OneImport(id)'
  <1>1. bus[id] = 0 /\ \A v \in Workers : v # w => ImpAt(id, v, "idle")
    <2>1. bus[id] \in Nat
      BY Typed
    <2>2. bus[id] # 1
      BY DEF OneImport
    <2> QED
      BY <2>1, <2>2 DEF OneImport
  <1>2. \A v \in Workers : v # w => ImpAt(id, v, "idle")'
    BY <1>1 DEF ImpAt
  <1>3. Busy(id) /\ (Busy(id)' => ~ImpAt(id, w, "idle")')
    BY <1>1, <1>2 DEF Busy
  <1> QED
    BY <1>1, <1>2, <1>3 DEF OneImport

LEMMA ImporterStepExclusive ==
  ASSUME TypeInv, HandoverInv, ExclusiveInv, ImporterStep
  PROVE  ExclusiveInv'
  <1>1. UNCHANGED <<ret, up, boot, resolver, active, task, tick, res>>
    BY DEF ImporterStep, serviceVars, monitorVars
  <1>2. /\ rec \in [Ids -> Row] /\ bus \in [Ids -> Nat]
        /\ imp \in [Ids -> [Workers -> ImpFrame]]
    BY Typed
  <1>3. PICK id \in Ids, w \in Workers : ImpStep(id, w)
    BY DEF ImporterStep
  <1>4. \A i \in Ids : i # id => rec'[i] = rec[i] /\ bus'[i] = bus[i] /\ imp'[i] = imp[i]
    BY <1>2, <1>3 DEF ImpStep, ImpBegin, ImpCas, ImpCheck, ImpRename, ImpRest, ImpAlbum, ImpFinal,
       ImpFail, ImpSet, ImpGo, ImpStop, TransitionState, Update, storeVars
  <1>5. \A v \in Workers : v # w => imp'[id][v] = imp[id][v]
    BY <1>2, <1>3 DEF ImpStep, ImpBegin, ImpCas, ImpCheck, ImpRename, ImpRest, ImpAlbum, ImpFinal,
       ImpFail, ImpSet, ImpGo, ImpStop
  <1>6. Alone(id) /\ OneImport(id)
    BY ExclusiveParts DEF Alone
  <1>7. Busy(id)
    BY <1>3 DEF ImpStep, ImpBegin, ImpCas, ImpCheck, ImpRename, ImpRest, ImpAlbum, ImpFinal,
       ImpFail, Busy, ImpAt
  <1>8. imp[id][w] \in ImpFrame
    BY <1>2
  <1>9. Alone(id)'
    <2>1. CASE ImpBegin(id, w)
      <3>1. /\ bus[id] = 1 /\ bus'[id] = 0 /\ rec' = rec
            /\ \A v \in Workers : ImpAt(id, v, "idle")
        BY <1>2, <1>6, <2>1 DEF ImpBegin, OneImport
      <3>2. OneImport(id)'
        BY <1>5, <1>6, <1>7, <3>1 DEF OneImport, ImpAt
      <3> QED
        BY <1>1, <1>6, <1>7, <3>1, <3>2, ImportMoves
    <2>2. CASE ~ImpBegin(id, w)
      <3>1. bus' = bus /\ ~ImpAt(id, w, "idle")
        BY <1>3, <2>2 DEF ImpStep, ImpCas, ImpCheck, ImpRename, ImpRest, ImpAlbum, ImpFinal,
           ImpFail, ImpAt, storeVars
      <3>2. \/ rec'[id] = rec[id]
            \/ rec'[id].state = "importing"
            \/ rec'[id].state \in {"imported", "failed"} /\ ImpAt(id, w, "idle")'
        <4>1. PICK r \in Row : r = imp[id][w].row
          BY <1>8 DEF ImpFrame
        <4>2. imp[id][w].pc \in Chain => r.state = "importing"
          BY <4>1 DEF HandoverInv, ChainCopies
        <4>3. CASE ImpCas(id, w)
          BY <1>2, <4>3 DEF ImpCas, TransitionState, Row
        <4>4. CASE ImpCheck(id, w) \/ ImpRest(id, w)
          BY <4>4 DEF ImpCheck, ImpRest, storeVars
        <4>5. CASE ImpRename(id, w) \/ ImpAlbum(id, w)
          BY <1>2, <4>1, <4>2, <4>5 DEF ImpRename, ImpAlbum, ImpAt, Update, Chain
        <4>6. CASE ImpFinal(id, w) \/ ImpFail(id, w)
          <5>1. rec'[id].state \in {"imported", "failed"}
            BY <1>2, <4>1, <4>6 DEF ImpFinal, ImpFail, Update, Row
          <5>2. ImpAt(id, w, "idle")'
            BY <1>2, <4>6 DEF ImpFinal, ImpFail, ImpStop, ImpSet, ImpAt, NoImp
          <5> QED
            BY <5>1, <5>2
        <4> QED
          BY <1>3, <2>2, <4>3, <4>4, <4>5, <4>6 DEF ImpStep
      <3>3. OneImport(id)'
        BY <1>5, <1>6, <3>1, <3>2, OneImportKept
      <3> QED
        BY <1>1, <1>6, <1>7, <3>2, <3>3, ImportMoves
    <2> QED
      BY <2>1, <2>2
  <1>10. ASSUME NEW i \in Ids, i # id
         PROVE  Alone(i)'
    BY <1>1, <1>4, <1>10, Untouched, ExclusiveParts DEF Tracked
  <1>11. BootAlone'
    <2>1. ASSUME NEW i \in boot
          PROVE  ~Busy(i)'
      <3>1. i \in Ids /\ ~Busy(i)
        BY <2>1 DEF ExclusiveInv, BootAlone, TypeInv, TypeOK, MonitorTypeOK
      <3> QED
        BY <1>4, <1>7, <3>1 DEF Busy, ImpAt
    <2> QED
      BY <1>1, <2>1, BootKept
  <1> QED
    BY <1>1, <1>9, <1>10, <1>11, ExclusiveParts

----------------------------------------------------------------------------
(* Starting from nothing, and the theorem.                                 *)

\* A process that has just been started is at work on nothing.
Fresh ==
  /\ rec \in [Ids -> Row] /\ boot \subseteq Ids /\ ~up
  /\ active = NothingTracked /\ task = NoTask /\ tick = NoTick /\ resolver = "off"
  /\ res = NothingResolving /\ imp = NothingImporting /\ bus = [id \in Ids |-> 0]
  /\ ret = [c \in Callers |-> NoRet]

LEMMA FreshAlone == Fresh => ExclusiveInv
  <1> SUFFICES ASSUME Fresh PROVE ExclusiveInv
    OBVIOUS
  <1>1. ASSUME NEW id \in Ids
        PROVE  /\ ~Tracked(id) /\ ~Busy(id) /\ bus[id] = 0 /\ res[id].pc = "idle"
               /\ \A w \in Workers : ImpAt(id, w, "idle")
    BY DEF Fresh, Tracked, NothingTracked, Untracked, Busy, ImpAt, NothingImporting, NoImp,
           NothingResolving, NoRes
  <1>2. ASSUME NEW t \in Ticks, NEW id \in Ids
        PROVE  task[t][id] = Idle /\ At(t, id, "idle") /\ In(t, "off")
    BY DEF Fresh, NoTask, Idle, At, NoTick, In
  <1>3. ASSUME NEW id \in Ids
        PROVE  OneImport(id) /\ ResolverAlone(id)
    BY <1>1, <1>2 DEF OneImport, ResolverAlone
  <1>4. ASSUME NEW t \in Ticks, NEW id \in Ids
        PROVE  TaskAlone(t, id)
    <2>1. Tracked(id) \in BOOLEAN /\ rec[id].state \in States /\ Idle.pc = "idle"
      BY DEF Fresh, Tracked, Row, Idle
    <2>2. rec[id].state \in StatesOf(task[t][id], tick[t].phase, Tracked(id))
      BY <1>1, <1>2, <2>1, IdleTyped, StatesByPosition
    <2> QED
      BY <1>1, <1>2, <2>1, <2>2 DEF TaskAlone, WorksUntracked
  <1>5. BootAlone
    <2>1. boot \subseteq Ids /\ ~up /\ resolver = "off"
      BY DEF Fresh
    <2>2. \A id \in boot : ~Busy(id)
      BY <1>1, <2>1
    <2>3. ASSUME NEW t \in Ticks
          PROVE  In(t, "off") /\ Quiet(t)
      <3>1. In(t, "off")
        BY <2>3 DEF Fresh, NoTick, In
      <3>2. Quiet(t)
        BY <1>2 DEF Quiet
      <3> QED
        BY <3>1, <3>2
    <2> QED
      BY <1>1, <2>1, <2>2, <2>3 DEF BootAlone
  <1>6. \A c \in Callers : ret[c].pc = "idle"
    BY DEF Fresh, NoRet
  <1> QED
    BY <1>3, <1>4, <1>5, <1>6 DEF ExclusiveInv

LEMMA ExclusiveStep ==
  ASSUME OneTick, MaxUserRetries = 0, TypeInv, HandoverInv, SlotInv, ExclusiveInv, [Next]_vars
  PROVE  ExclusiveInv'
  <1>1. TypeInv'
    BY TypeNext
  <1>2. CASE ServiceStep
    BY <1>1, <1>2, ServiceStepExclusive
  <1>3. CASE MonitorStep
    <2>1. UNCHANGED <<imp, ret>>
      BY <1>3 DEF MonitorStep, serviceVars
    <2> QED
      BY <1>1, <1>3, <2>1, TickStepExclusive, TaskStepExclusive, ResolverStepExclusive,
         BootStepExclusive, TimeStepExclusive
      DEF MonitorStep, MonitorNext
  <1>4. CASE ImporterStep
    BY <1>4, ImporterStepExclusive
  <1>5. CASE ProviderStep
    BY <1>5, OutsideExclusive DEF ProviderStep, JobEnds, JobLost, JobCancelled, serviceVars,
       monitorVars, Tracked
  <1>6. CASE Crash
    <2>1. Fresh'
      BY <1>1, <1>6 DEF Fresh, Crash, MonitorReset, TypeInv, TypeOK, StoreTypeOK, MonitorTypeOK
    <2> QED
      BY <2>1, FreshAlone, PTL
  <1>7. CASE UNCHANGED vars
    BY <1>7, OutsideExclusive DEF vars, storeVars, serviceVars, monitorVars, Tracked
  <1> QED
    BY <1>2, <1>3, <1>4, <1>5, <1>6, <1>7 DEF Next

\* The inductive invariant: from the announcement of a completed download to
\* the end of its import, nobody else is at work on the record.
THEOREM ExclusiveHolds ==
  ASSUME OneTick, MaxUserRetries = 0
  PROVE  Spec => []ExclusiveInv
  <1>1. Init => ExclusiveInv
    BY FreshAlone, TypeInit DEF Fresh, Init, StoreInit, ServiceInit, MonitorInit, ImporterInit, TypeInv,
       TypeOK, StoreTypeOK
  <1>2. TypeInv /\ HandoverInv /\ SlotInv /\ ExclusiveInv /\ [Next]_vars => ExclusiveInv'
    BY ExclusiveStep
  <1> QED
    BY <1>1, <1>2, TypeCorrect, HandoverHolds, SlotsInvariant, PTL DEF Spec

\* onDownloadCompleted's compare-and-swap and the order in which the monitor
\* announces and drops a download: two import chains never run for one record
\* at the same time, however often it is dispatched, retried by scanRetry,
\* cancelled or recovered after a restart.
THEOREM ImportsExclusive ==
  ASSUME OneTick, MaxUserRetries = 0
  PROVE  Spec => []ImportExclusive
  <1>1. ExclusiveInv => ImportExclusive
    <2>1. SUFFICES ASSUME ExclusiveInv, NEW id \in Ids
                   PROVE  Cardinality(InChain(id)) <= 1
      BY DEF ImportExclusive
    <2>2. ASSUME NEW v \in InChain(id), NEW w \in InChain(id)
          PROVE  v = w
      <3>1. v \in Workers /\ w \in Workers /\ ~ImpAt(id, v, "idle") /\ ~ImpAt(id, w, "idle")
        <4>1. /\ v \in Workers /\ w \in Workers
              /\ imp[id][v].pc \in Chain /\ imp[id][w].pc \in Chain
          <5>1. \A u \in InChain(id) : u \in Workers /\ imp[id][u].pc \in Chain
            BY Zenon DEF InChain
          <5> QED
            BY <2>2, <5>1
        <4>2. "idle" \notin Chain
          BY DEF Chain
        <4> QED
          BY <4>1, <4>2 DEF ImpAt
      <3>2. OneImport(id)
        BY <2>1 DEF ExclusiveInv
      <3> QED
        BY <3>1, <3>2 DEF OneImport
    <2>3. CASE InChain(id) = {}
      BY <2>3, FS_EmptySet
    <2>4. CASE InChain(id) # {}
      <3>1. PICK w \in InChain(id) : InChain(id) = {w}
        BY <2>2, <2>4
      <3> QED
        BY <3>1, FS_Singleton
    <2> QED
      BY <2>3, <2>4
  <1> QED
    BY <1>1, ExclusiveHolds, PTL
=============================================================================
