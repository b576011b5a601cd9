------------------------------ MODULE TidalStream ------------------------------
(***************************************************************************)
(* One Tidal download (providers/tidal/client.go downloadSync) and the     *)
(* reader that joins the segments of its stream (stream_reader.go), which  *)
(* fetches the next segment while the current one is read.                 *)
(***************************************************************************)
EXTENDS Naturals, Sequences

CONSTANTS
  Segments,   \* how many URLs the manifest names
  Chunks      \* bound: reads a segment takes

ASSUME StreamAssumption == Segments \in Nat \ {0} /\ Chunks \in Nat \ {0}

VARIABLES
  entry,      \* c.downloads: the record, or none
  cancelKept, \* cancelFuncs has the download
  ctxOver,    \* its context is cancelled
  loading,    \* where downloadSync is
  output,     \* the file, as the chunks written to it
  nextUrl,    \* multiStreamReader.index
  current,    \* the open segment and how much of it was read
  ahead,      \* nextDone and nextResult
  reading,    \* where Read is
  cancelling  \* where Cancel is

streamVars == <<entry, cancelKept, ctxOver, loading, output, nextUrl, current, ahead, reading,
                cancelling>>

NoEntry == "none"
NoBody == 0
NoSegment == [seg |-> NoBody, chunk |-> 0]
NoFile == <<<<0, 0>>>>
NoAhead == [at |-> "none", seg |-> NoBody, ok |-> TRUE]
Terminal(s) == s \in {"imported", "failed", "ignored"}
WholeStream == [i \in 1 .. Segments * Chunks |-> <<((i - 1) \div Chunks) + 1, ((i - 1) % Chunks) + 1>>]

(* StartDownload: the record and the cancel function are there before the  *)
(* goroutine starts.                                                       *)
StreamInit ==
  /\ entry = "queued" /\ cancelKept = TRUE /\ ctxOver = FALSE
  /\ loading = "start" /\ output = NoFile
  /\ nextUrl = 1 /\ current = NoSegment /\ ahead = NoAhead /\ reading = "idle"
  /\ cancelling = "idle"

updateRecord(s) == entry' = IF entry = NoEntry THEN NoEntry ELSE s
setError == updateRecord(IF Terminal(entry) THEN entry ELSE "failed")
Reader == <<nextUrl, current, ahead, reading>>
Canceller == <<cancelKept, ctxOver, cancelling>>

-----------------------------------------------------------------------------
(* downloadSync before the file: token, track and manifest, each of which  *)
(* may fail; only between the first two the context is looked at.          *)
downloadSync ==
  /\ loading = "start"
  /\ \/ ctxOver /\ loading' = "return" /\ UNCHANGED entry
     \/ ~ctxOver /\ loading' = "track" /\ UNCHANGED entry
     \/ ~ctxOver /\ loading' = "return" /\ setError
  /\ UNCHANGED <<output, Reader, Canceller>>

GetTrackStream ==
  /\ loading = "track"
  /\ \/ ctxOver /\ loading' = "return" /\ UNCHANGED entry
     \/ ~ctxOver /\ loading' = "create" /\ UNCHANGED entry
     \/ loading' = "return" /\ setError
  /\ UNCHANGED <<output, Reader, Canceller>>

(* os.Create, then the state: the write looks at no state, so it takes a   *)
(* Cancel's "ignored" back.                                                *)
writeStream ==
  /\ loading = "create"
  /\ \/ /\ output' = <<>> /\ updateRecord("downloading") /\ loading' = "loop"
     \/ /\ output' = output /\ setError /\ loading' = "close"
  /\ UNCHANGED <<Reader, Canceller>>

CallRead ==
  /\ loading = "loop"
  /\ IF ctxOver
     THEN loading' = "fail" /\ output' = NoFile /\ UNCHANGED reading
     ELSE loading' = "reading" /\ reading' = "current" /\ UNCHANGED output
  /\ UNCHANGED <<entry, nextUrl, current, ahead, Canceller>>

FailStream ==
  /\ loading = "fail"
  /\ setError /\ output' = NoFile /\ loading' = "close"
  /\ UNCHANGED <<Reader, Canceller>>

(* The end of the stream: the file is looked at, then the record is set,   *)
(* unless a Cancel has set it.                                             *)
FinishFile ==
  /\ loading = "finish"
  /\ \/ updateRecord(IF Terminal(entry) THEN entry ELSE "imported") /\ UNCHANGED output
     \/ setError /\ output' = NoFile
  /\ loading' = "close"
  /\ UNCHANGED <<Reader, Canceller>>

(* The deferred Close of the reader, which ends its context: nothing looks *)
(* at the download's own context after it.                                 *)
CloseReader ==
  /\ loading = "close"
  /\ ctxOver' = TRUE /\ current' = NoSegment
  /\ loading' = "return"
  /\ UNCHANGED <<entry, output, nextUrl, ahead, reading, cancelKept, cancelling>>

ForgetCancel ==
  /\ loading = "return"
  /\ cancelKept' = FALSE /\ loading' = "over"
  /\ UNCHANGED <<entry, output, Reader, ctxOver, cancelling>>

-----------------------------------------------------------------------------
(* openSegment takes the URL under the lock and asks outside it.           *)
BodyOf(i) == {[seg |-> i, ok |-> TRUE], [seg |-> NoBody, ok |-> FALSE]}
TakeUrl == nextUrl' = IF nextUrl > Segments THEN nextUrl ELSE nextUrl + 1

\* A prefetch is announced under the lock, when there is a URL left.
prefetchNextLocked == [NoAhead EXCEPT !.at = IF nextUrl > Segments THEN "none" ELSE "asked"]

(* currentReader without a prefetch: it opens the segment itself, which    *)
(* only the first one needs.                                               *)
openSegment ==
  /\ reading = "current" /\ current = NoSegment /\ ahead.at = "none" /\ nextUrl <= Segments
  /\ TakeUrl /\ reading' = "opening"
  /\ UNCHANGED <<entry, loading, output, current, ahead, Canceller>>

SegmentOpened ==
  /\ reading = "opening"
  /\ \E b \in BodyOf(nextUrl - 1) :
       \/ /\ b.ok
          /\ current' = [seg |-> b.seg, chunk |-> 0] /\ ahead' = prefetchNextLocked
          /\ reading' = "chunk" /\ UNCHANGED loading
       \/ ~b.ok /\ loading' = "fail" /\ reading' = "idle" /\ UNCHANGED <<current, ahead>>
  /\ UNCHANGED <<entry, output, nextUrl, Canceller>>

(* The end: no segment is open and no URL is left.                         *)
NoSegmentLeft ==
  /\ reading = "current" /\ current = NoSegment /\ ahead.at = "none" /\ nextUrl > Segments
  /\ loading' = "finish" /\ reading' = "idle"
  /\ UNCHANGED <<entry, output, nextUrl, current, ahead, Canceller>>

(* The goroutine of a prefetch.                                            *)
PrefetchTakes ==
  /\ ahead.at = "asked"
  /\ TakeUrl /\ ahead' = [ahead EXCEPT !.at = "asking", !.seg = nextUrl]
  /\ UNCHANGED <<entry, loading, output, current, reading, Canceller>>

PrefetchAnswered ==
  /\ ahead.at = "asking"
  /\ \E b \in BodyOf(ahead.seg) :
       ahead' = IF ctxOver THEN [at |-> "ready", seg |-> NoBody, ok |-> FALSE]
                ELSE [at |-> "ready", seg |-> b.seg, ok |-> b.ok]
  /\ UNCHANGED <<entry, loading, output, nextUrl, current, reading, Canceller>>

(* currentReader with a prefetch: it waits for it or for the context.      *)
TakePrefetched ==
  /\ reading = "current" /\ current = NoSegment /\ ahead.at = "ready"
  /\ IF ahead.ok
     THEN /\ current' = [seg |-> ahead.seg, chunk |-> 0] /\ ahead' = prefetchNextLocked
          /\ reading' = "chunk" /\ UNCHANGED loading
     ELSE /\ loading' = "fail" /\ reading' = "idle" /\ ahead' = NoAhead /\ UNCHANGED current
  /\ UNCHANGED <<entry, output, nextUrl, Canceller>>

StopWaiting ==
  /\ reading = "current" /\ current = NoSegment /\ ahead.at # "none" /\ ctxOver
  /\ loading' = "fail" /\ reading' = "idle"
  /\ UNCHANGED <<entry, output, nextUrl, current, ahead, Canceller>>

HasCurrent ==
  /\ reading = "current" /\ current # NoSegment
  /\ reading' = "chunk"
  /\ UNCHANGED <<entry, loading, output, nextUrl, current, ahead, Canceller>>

(* Read returns what the segment gives: data, data with its end, its end   *)
(* alone (then the next segment is read at once) or an error; data that    *)
(* came with an error is written before the error is looked at.            *)
ReadChunk ==
  /\ reading = "chunk"
  /\ LET c == current.chunk + 1
         more == Append(output, <<current.seg, c>>)
     IN
     \/ /\ current.chunk < Chunks
        /\ output' = more /\ loading' = "loop" /\ reading' = "idle"
        /\ current' \in {[current EXCEPT !.chunk = c]} \cup (IF c = Chunks THEN {NoSegment} ELSE {})
     \/ /\ current.chunk = Chunks
        /\ current' = NoSegment /\ reading' = "current" /\ UNCHANGED <<output, loading>>
     \/ /\ output' \in {output} \cup (IF current.chunk < Chunks THEN {more} ELSE {})
        /\ current' = NoSegment /\ reading' = "idle" /\ loading' = "fail"
  /\ UNCHANGED <<entry, nextUrl, ahead, Canceller>>

-----------------------------------------------------------------------------
(* Cancel: the record under one lock, the cancel function under another.   *)
CancelRecord ==
  /\ cancelling = "idle"
  /\ entry # NoEntry /\ \E removed \in BOOLEAN : entry' = IF removed THEN NoEntry ELSE "ignored"
  /\ cancelling' = "record"
  /\ UNCHANGED <<cancelKept, ctxOver, loading, output, Reader>>

CancelContext ==
  /\ cancelling = "record"
  /\ ctxOver' = (ctxOver \/ cancelKept) /\ cancelKept' = FALSE
  /\ cancelling' = "done"
  /\ UNCHANGED <<entry, loading, output, Reader>>

StreamNext ==
  \/ downloadSync \/ GetTrackStream \/ writeStream \/ CallRead \/ FailStream \/ FinishFile
  \/ CloseReader \/ ForgetCancel
  \/ openSegment \/ SegmentOpened \/ NoSegmentLeft \/ PrefetchTakes \/ PrefetchAnswered
  \/ TakePrefetched \/ StopWaiting \/ HasCurrent \/ ReadChunk
  \/ CancelRecord \/ CancelContext

-----------------------------------------------------------------------------
StreamTypeOK ==
  /\ entry \in {NoEntry, "queued", "downloading", "imported", "failed", "ignored"}
  /\ nextUrl \in 1 .. Segments + 1 /\ current.seg < nextUrl
  /\ ahead.at \in {"none", "asked", "asking", "ready"}

(* A download that ends as imported has the whole stream in its file, each *)
(* segment once and in order, however the prefetch, the reads, errors and  *)
(* a Cancel fall (stream_reader.go:56, client.go:526).                     *)
ImportedIsWhole == entry = "imported" => output = WholeStream
===========================================================================
