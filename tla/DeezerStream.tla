------------------------------ MODULE DeezerStream ------------------------------
(***************************************************************************)
(* One Deezer download (providers/deezer/download.go downloadSync): which  *)
(* quality it asks for, how the body is read chunk by chunk, every third   *)
(* of which Deezer encrypts when it is a full one, and what is left on     *)
(* disk.  Units stand for bytes.                                           *)
(***************************************************************************)
EXTENDS Naturals, Sequences, FiniteSets

CONSTANTS
  ChunkUnits,    \* chunkSize
  TrackLengths,  \* units a track may have
  MinUnits,      \* minFileSize
  Formats        \* qualityOrder's length: 1 is the best quality

ASSUME DeezerStreamAssumption ==
  /\ ChunkUnits \in Nat \ {0} /\ Formats \in Nat \ {0} /\ MinUnits \in Nat
  /\ TrackLengths \subseteq Nat

VARIABLES
  offer,      \* Deezer's side: the track's length and the qualities it has
  wish,       \* the plugin's section: its quality (0: unset), whether others will do
  fetch,      \* downloadSync: where it is and what it holds
  written,    \* the file, as unit numbers and whether they went through the cipher
  dlRecord,   \* c.downloads: the record's state, or none
  ctxDone,    \* the download's context is cancelled
  refused     \* ghost: offered qualities whose question failed

deezerStreamVars == <<offer, wish, fetch, written, dlRecord, ctxDone, refused>>

NoOutput == <<<<0, FALSE>>>>
EndState(s) == s \in {"imported", "failed", "ignored"}
Untouched == [at |-> "none", ask |-> 1, format |-> 0, pos |-> 0, buf |-> 0, index |-> 0,
              first |-> TRUE, ended |-> "no"]

DeezerStreamInit ==
  /\ offer = [units |-> 0, has |-> {}] /\ wish = [format |-> 0, fallback |-> TRUE]
  /\ fetch = Untouched /\ written = NoOutput /\ dlRecord = "none" /\ ctxDone = FALSE
  /\ refused = {}

SetRow(s) == dlRecord' = IF dlRecord = "none" THEN "none" ELSE s
FailRow == SetRow(IF EndState(dlRecord) THEN dlRecord ELSE "failed")
FetchGoes(place) == fetch' = [fetch EXCEPT !.at = place]

StartTrack(units, has, format, fallback) ==
  /\ fetch.at = "none"
  /\ offer' = [units |-> units, has |-> has] /\ wish' = [format |-> format, fallback |-> fallback]
  /\ FetchGoes("data") /\ dlRecord' = "queued"
  /\ UNCHANGED <<written, ctxDone, refused>>

(* The track's data and its token; the context is looked at before and     *)
(* after, and ends the download without a word.                            *)
SongData ==
  /\ fetch.at = "data"
  /\ \/ ctxDone /\ FetchGoes("over") /\ UNCHANGED dlRecord
     \/ ~ctxDone /\ FetchGoes("media") /\ UNCHANGED dlRecord
     \/ FetchGoes("over") /\ FailRow
  /\ UNCHANGED <<offer, wish, written, ctxDone, refused>>

(* getMediaURL: from the wished quality down, then the better ones.        *)
MediaOrder ==
  LET all == [i \in 1 .. Formats |-> i]
      turned == IF wish.format = 0 THEN all
                ELSE SubSeq(all, wish.format, Formats) \o SubSeq(all, 1, wish.format - 1) IN
  IF wish.fallback THEN turned ELSE SubSeq(turned, 1, 1)

getMediaURL ==
  /\ fetch.at = "media"
  /\ IF fetch.ask > Len(MediaOrder)
     THEN FetchGoes("over") /\ FailRow /\ UNCHANGED refused
     ELSE LET q == MediaOrder[fetch.ask] IN
          /\ \/ q \in offer.has /\ fetch' = [fetch EXCEPT !.at = "open", !.format = q] /\ UNCHANGED refused
             \/ fetch' = [fetch EXCEPT !.ask = @ + 1] /\ refused' = refused \cup {q}
          /\ UNCHANGED dlRecord
  /\ UNCHANGED <<offer, wish, written, ctxDone>>

(* The request, the file and the state, which is written whatever it is.   *)
OpenTrack ==
  /\ fetch.at = "open"
  /\ \/ FetchGoes("failed") /\ UNCHANGED <<written, dlRecord>>
     \/ ~ctxDone /\ FetchGoes("read") /\ written' = <<>> /\ SetRow("downloading")
  /\ UNCHANGED <<offer, wish, ctxDone, refused>>

(* io.ReadFull over the stalling reader: the body comes in any pieces; it  *)
(* may end, break off (which io reports like an early end), or fail.       *)
ReadBody ==
  /\ fetch.at = "read"
  /\ LET left == offer.units - fetch.pos IN
     \/ \E n \in 1 .. ChunkUnits - fetch.buf :
          /\ fetch.ended = "no" /\ n <= left
          /\ fetch' = [fetch EXCEPT !.pos = @ + n, !.buf = @ + n,
                          !.at = IF fetch.buf + n = ChunkUnits THEN "write" ELSE "read"]
     \/ fetch' = [fetch EXCEPT !.at = "write",
                     !.ended = IF @ # "no" THEN @ ELSE IF left = 0 THEN "eof" ELSE "cut"]
     \/ fetch.ended = "no" /\ FetchGoes("failed")
  /\ UNCHANGED <<offer, wish, written, dlRecord, ctxDone, refused>>

Ciphered(index, n) == index % 3 = 0 /\ n = ChunkUnits
\* A part of a chunk is deciphered as a whole one is.
CipheredAny(index, n) == index % 3 = 0
Deciphered(index, n) == Ciphered(index, n)

WriteChunk ==
  /\ fetch.at = "write"
  /\ \/ /\ written' = written \o [i \in 1 .. fetch.buf |->
                        <<fetch.pos - fetch.buf + i, Deciphered(fetch.index, fetch.buf)>>]
        /\ fetch' = [fetch EXCEPT !.buf = 0, !.index = IF fetch.buf > 0 THEN @ + 1 ELSE @,
                        !.at = IF fetch.ended # "no" /\ ~fetch.first THEN "check" ELSE "loop"]
     \/ fetch.buf > 0 /\ FetchGoes("failed") /\ UNCHANGED written
  /\ UNCHANGED <<offer, wish, dlRecord, ctxDone, refused>>

NextChunk ==
  /\ fetch.at = "loop"
  /\ fetch' = [fetch EXCEPT !.first = FALSE, !.at = IF ctxDone THEN "failed" ELSE "read"]
  /\ UNCHANGED <<offer, wish, written, dlRecord, ctxDone, refused>>

DropTrack ==
  /\ fetch.at = "failed"
  /\ FailRow /\ written' = NoOutput /\ FetchGoes("over")
  /\ UNCHANGED <<offer, wish, ctxDone, refused>>

CheckSize ==
  /\ fetch.at = "check" /\ FetchGoes("over")
  /\ IF Len(written) < MinUnits THEN FailRow /\ written' = NoOutput
     ELSE /\ SetRow(IF EndState(dlRecord) THEN dlRecord ELSE "imported")
          /\ UNCHANGED written
  /\ UNCHANGED <<offer, wish, ctxDone, refused>>

CancelTrack(remove) ==
  /\ fetch.at # "none" /\ dlRecord # "none" /\ ~ctxDone
  /\ dlRecord' = IF remove THEN "none" ELSE "ignored"
  /\ ctxDone' = TRUE
  /\ UNCHANGED <<offer, wish, fetch, written, refused>>

DeezerStreamNext ==
  \/ \E units \in TrackLengths, has \in SUBSET (1 .. Formats), format \in 0 .. Formats,
        fallback \in BOOLEAN : StartTrack(units, has, format, fallback)
  \/ SongData \/ getMediaURL \/ OpenTrack \/ ReadBody \/ WriteChunk \/ NextChunk \/ DropTrack
  \/ CheckSize \/ \E remove \in BOOLEAN : CancelTrack(remove)

-----------------------------------------------------------------------------
DeezerStreamTypeOK ==
  /\ dlRecord \in {"none", "queued", "downloading", "imported", "failed", "ignored"}
  /\ fetch.pos <= offer.units /\ fetch.buf <= ChunkUnits
  /\ written # NoOutput => Len(written) + fetch.buf <= fetch.pos

(* The chunks of the file Deezer would send whole.                         *)
Encrypted(u) == LET index == (u - 1) \div ChunkUnits IN
  Ciphered(index, IF (index + 1) * ChunkUnits <= offer.units THEN ChunkUnits ELSE 1)
WholeChunks(n) == (n \div ChunkUnits) * ChunkUnits

(* However the body came, what a download leaves on disk is the track from *)
(* its start, its full chunks deciphered where Deezer enciphers and        *)
(* nowhere else, all of it unless the connection broke off, and never less *)
(* than a file must have; an imported download has left it.                *)
LeftoverPlays ==
  fetch.at = "over" =>
    /\ dlRecord = "imported" => written # NoOutput
    /\ written # NoOutput =>
         /\ Len(written) >= MinUnits
         /\ fetch.ended = "cut" \/ Len(written) = offer.units
         /\ \A i \in 1 .. Len(written) :
              /\ written[i][1] = i
              /\ i <= WholeChunks(Len(written)) \/ fetch.ended # "cut" =>
                   written[i][2] = Encrypted(i)

(* The quality asked for is the nearest that is not better than the wish,  *)
(* and a better one only where no such one is to be had.                   *)
Distance(q) == LET from == IF wish.format = 0 THEN 1 ELSE wish.format IN
  IF q >= from THEN q - from ELSE Formats + q
NearestFormat ==
  fetch.format # 0 =>
    /\ \A q \in offer.has \ refused : Distance(fetch.format) <= Distance(q)
    /\ wish.fallback \/ Distance(fetch.format) = 0
=============================================================================
