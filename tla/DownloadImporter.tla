--------------------------- MODULE DownloadImporter ---------------------------
(***************************************************************************)
(* download.CompletedDownloadService: the handler of TopicDownloadCompleted*)
(* and the import chain.  The bus runs every delivery in a goroutine of    *)
(* its own, so several may be under way for one id.                        *)
(*                                                                         *)
(* Of the chain's handlers only the first (FileRenamer) writes the row, so *)
(* the chain is: check, rename, check, the rest, final write.  An album is *)
(* imported by albumHandler, which writes the row once and is not preceded *)
(* by a check.                                                             *)
(***************************************************************************)
EXTENDS DownloadStore

CONSTANT Workers  \* goroutines that may handle completed-events of one id at once

VARIABLE imp      \* imp[id][w]: a goroutine with its copy of the row

ImpFrame == [pc : {"idle", "cas", "check", "rename", "recheck", "rest",
                   "album", "final", "fail"}, row : Row]
NoImp == [pc |-> "idle", row |-> NoRow]
NothingImporting == [id \in Ids |-> [w \in Workers |-> NoImp]]

Chain == {"check", "rename", "recheck", "rest", "album", "final", "fail"}
ImpAt(id, w, pc) == imp[id][w].pc = pc
ImpSet(id, w, f) == imp' = [imp EXCEPT ![id][w] = f]
ImpGo(id, w, pc) == ImpSet(id, w, [imp[id][w] EXCEPT !.pc = pc])
ImpStop(id, w) == ImpSet(id, w, NoImp)

\* The row is read; anything but importPending is skipped.
ImpBegin(id, w) ==
  /\ bus[id] > 0
  /\ ImpAt(id, w, "idle")
  /\ bus' = [bus EXCEPT ![id] = @ - 1]
  /\ IF rec[id].state = "importPending"
     THEN ImpSet(id, w, [pc |-> "cas", row |-> rec[id]])
     ELSE UNCHANGED imp
  /\ UNCHANGED <<rec, job>>

\* Mutant: the chain's own copy is not moved to importing.
ImpCasStaleCopy(id, w) ==
  /\ ImpAt(id, w, "cas")
  /\ \/ /\ TransitionState(id, "importPending", "importing")
        /\ ImpGo(id, w, IF id \in Albums THEN "album" ELSE "check")
     \/ /\ ~Matches(id, "importPending")
        /\ ImpStop(id, w)
        /\ UNCHANGED rec
  /\ UNCHANGED <<job, bus>>

ImpCas(id, w) ==
  /\ ImpAt(id, w, "cas")
  /\ \/ /\ TransitionState(id, "importPending", "importing")
        /\ ImpSet(id, w, [pc  |-> IF id \in Albums THEN "album" ELSE "check",
                          row |-> [imp[id][w].row EXCEPT !.state = "importing"]])
     \/ /\ ~Matches(id, "importPending")
        /\ ImpStop(id, w)
        /\ UNCHANGED rec
  /\ UNCHANGED <<job, bus>>

\* Between handlers the state is read again; a terminal one ends the chain.
ImpCheck(id, w) ==
  /\ \/ ImpAt(id, w, "check") \/ ImpAt(id, w, "recheck")
  /\ IF rec[id].state \in Terminal THEN ImpStop(id, w)
     ELSE ImpGo(id, w, IF ImpAt(id, w, "check") THEN "rename" ELSE "rest")
  /\ UNCHANGED storeVars

\* FileRenamer writes the whole row when the path has changed.
ImpRename(id, w) ==
  /\ ImpAt(id, w, "rename")
  /\ \/ Update(id, imp[id][w].row) /\ ImpGo(id, w, "recheck")
     \/ UNCHANGED rec /\ ImpGo(id, w, "recheck")
     \/ UNCHANGED rec /\ ImpGo(id, w, "fail")
  /\ UNCHANGED <<job, bus>>

ImpRest(id, w) ==
  /\ ImpAt(id, w, "rest")
  /\ \/ ImpGo(id, w, "final") \/ ImpGo(id, w, "fail")
  /\ UNCHANGED storeVars

\* AlbumImportHandler.Handle, which records the imported track ids if any.
ImpAlbum(id, w) ==
  /\ ImpAt(id, w, "album")
  /\ \/ Update(id, imp[id][w].row) /\ ImpGo(id, w, "final")
     \/ UNCHANGED rec /\ ImpGo(id, w, "final")
     \/ UNCHANGED rec /\ ImpGo(id, w, "fail")
  /\ UNCHANGED <<job, bus>>

ImpFinal(id, w) ==
  /\ ImpAt(id, w, "final")
  /\ Update(id, [imp[id][w].row EXCEPT !.state = "imported"])
  /\ ImpStop(id, w)
  /\ UNCHANGED <<job, bus>>

\* Mutant: a failed import is only logged.
ImpFailSilent(id, w) ==
  /\ ImpAt(id, w, "fail")
  /\ ImpStop(id, w)
  /\ UNCHANGED storeVars

ImpFail(id, w) ==
  /\ ImpAt(id, w, "fail")
  /\ Update(id, [imp[id][w].row EXCEPT !.state = "failed"])
  /\ ImpStop(id, w)
  /\ UNCHANGED <<job, bus>>

ImporterInit == imp = NothingImporting

ImpStep(id, w) ==
  \/ ImpBegin(id, w) \/ ImpCas(id, w) \/ ImpCheck(id, w) \/ ImpRename(id, w)
  \/ ImpRest(id, w) \/ ImpAlbum(id, w) \/ ImpFinal(id, w) \/ ImpFail(id, w)

ImporterTypeOK == imp \in [Ids -> [Workers -> ImpFrame]]
=============================================================================
