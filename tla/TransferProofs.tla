---------------------------- MODULE TransferProofs ----------------------------
(***************************************************************************)
(* Proofs about what the providers' clients download: an imported file is  *)
(* the whole stream and plays, its quality is the nearest to the wish, the *)
(* Soulseek client answers for the right transfer and a search of it loses *)
(* no file, and an album's import accounts for the files of its folder;    *)
(* for any number of segments, chunks, files, peers, pollers and replies.  *)
(* At the end, the types of all the clients.                               *)
(***************************************************************************)
EXTENDS ProvidersProofs, LibraryProofs

\* Division with remainder, of which the provers know the existence only.
LEMMA OneQuotient ==
  ASSUME NEW n \in Nat \ {0}, NEW q \in Nat, NEW r \in 0 .. n - 1,
         NEW p \in Nat, NEW s \in 0 .. n - 1, q * n + r = p * n + s
  PROVE  p = q /\ r = s
<1>1. ASSUME NEW a \in Nat, NEW b \in Nat, NEW c \in 0 .. n - 1, NEW d \in 0 .. n - 1,
             a * n + c = b * n + d, a < b
      PROVE  FALSE
  <2>1. b - a - 1 \in Nat /\ b = a + 1 + (b - a - 1)
    BY <1>1
  <2>2. b * n = a * n + n + (b - a - 1) * n
    BY <2>1
  <2>3. (b - a - 1) * n >= 0
    BY <2>1
  <2> QED
    BY <1>1, <2>2, <2>3
<1>2. ~ (q < p) /\ ~ (p < q)
  BY <1>1
<1>3. p = q
  BY <1>2
<1> QED
  BY <1>3

LEMMA Quotient ==
  ASSUME NEW n \in Nat \ {0}, NEW q \in Nat, NEW r \in 0 .. n - 1
  PROVE  (q * n + r) \div n = q /\ (q * n + r) % n = r
<1> DEFINE x == q * n + r
<1>1. x \in Nat
  OBVIOUS
<1>2. x \div n \in Nat /\ x % n \in 0 .. n - 1 /\ x = (x \div n) * n + (x % n)
  BY <1>1
<1> QED
  BY <1>1, <1>2, OneQuotient

-----------------------------------------------------------------------------
(* Tidal: the segments of a stream *)

Piece(i) == <<((i - 1) \div Chunks) + 1, ((i - 1) % Chunks) + 1>>

StreamTyped ==
  /\ entry \in {NoEntry, "queued", "downloading", "imported", "failed", "ignored"}
  /\ loading \in {"start", "track", "create", "loop", "reading", "fail", "finish", "close", "return", "over"}
  /\ reading \in {"idle", "current", "opening", "chunk"}
  /\ nextUrl \in 1 .. Segments + 1
  /\ current \in [seg : 0 .. Segments, chunk : 0 .. Chunks]
  /\ ahead \in [at : {"none", "asked", "asking", "ready"}, seg : 0 .. Segments, ok : BOOLEAN]
  /\ output \in Seq(Nat \X Nat)

(* The segments whose URL was taken and that are not still being fetched:  *)
(* the last of them is the one that is open.                               *)
Fetching == reading = "opening" \/ ahead.at \in {"asking", "ready"}
Reached == IF Fetching THEN nextUrl - 2 ELSE nextUrl - 1

(* The positions of reader, prefetch and download fit together; the one    *)
(* that is announced has a URL left to take.                               *)
PlacesFit ==
  /\ reading = "idle" <=> loading # "reading"
  /\ current.seg < nextUrl /\ (current.seg = NoBody => current = NoSegment)
  /\ reading = "chunk" => current.seg # NoBody
  /\ reading = "opening" => current = NoSegment /\ ahead.at = "none" /\ nextUrl >= 2
  /\ ahead.at = "asked" => nextUrl <= Segments
  /\ ahead.at \in {"asking", "ready"} => nextUrl >= 2
  /\ ahead.at = "asking" => ahead.seg = nextUrl - 1
  /\ ahead.at = "ready" /\ ahead.ok => ahead.seg = nextUrl - 1
  /\ loading \in {"start", "track", "create"} => nextUrl = 1 /\ current = NoSegment /\ ahead = NoAhead
  /\ loading = "finish" => current = NoSegment /\ ahead.at = "none" /\ nextUrl = Segments + 1

(* While the file is written it is a beginning of the stream, up to where  *)
(* the open segment was read.                                              *)
OutputFits ==
  /\ loading \in {"loop", "reading", "finish"} =>
       /\ current.seg # NoBody => current.seg = Reached
       /\ Len(output) = IF current.seg = NoBody THEN Reached * Chunks ELSE (Reached - 1) * Chunks + current.chunk
       /\ \A i \in 1 .. Len(output) : output[i] = Piece(i)
  /\ entry = "imported" => loading \in {"close", "return", "over"} /\ output = WholeStream

StreamInv == StreamTyped /\ PlacesFit /\ OutputFits

LEMMA StreamInvInit == StreamInit => StreamInv
<1> SUFFICES ASSUME StreamInit PROVE StreamInv
  OBVIOUS
<1> USE StreamAssumption DEF StreamInit, NoFile, NoSegment, NoAhead, NoBody, NoEntry
<1>1. StreamTyped
  <2>1. output \in Seq(Nat \X Nat)
    <3>1. <<0, 0>> \in Nat \X Nat
      OBVIOUS
    <3> QED
      BY <3>1
  <2> QED
    BY <2>1 DEF StreamTyped
<1>2. PlacesFit
  BY DEF PlacesFit
<1>3. OutputFits
  BY DEF OutputFits
<1> QED
  BY <1>1, <1>2, <1>3 DEF StreamInv

LEMMA StreamTypedStep ==
  ASSUME StreamInv, [StreamNext]_streamVars
  PROVE  StreamTyped'
<1> USE StreamAssumption DEF Reader, Canceller
<1>0. StreamTyped /\ PlacesFit
  BY DEF StreamInv
<1>1. entry' \in {NoEntry, "queued", "downloading", "imported", "failed", "ignored"}
  BY <1>0 DEF StreamTyped, StreamNext, streamVars, updateRecord, setError, downloadSync, GetTrackStream, writeStream, CallRead, FailStream,
     FinishFile, CloseReader, ForgetCancel, openSegment, SegmentOpened, NoSegmentLeft, PrefetchTakes, PrefetchAnswered,
     TakePrefetched, StopWaiting, HasCurrent, ReadChunk, CancelRecord, CancelContext, NoEntry
<1>2. loading' \in {"start", "track", "create", "loop", "reading", "fail", "finish", "close", "return", "over"}
  BY <1>0 DEF StreamTyped, StreamNext, streamVars, downloadSync, GetTrackStream, writeStream, CallRead, FailStream,
     FinishFile, CloseReader, ForgetCancel, openSegment, SegmentOpened, NoSegmentLeft, PrefetchTakes, PrefetchAnswered,
     TakePrefetched, StopWaiting, HasCurrent, ReadChunk, CancelRecord, CancelContext
<1>3. reading' \in {"idle", "current", "opening", "chunk"}
  BY <1>0 DEF StreamTyped, StreamNext, streamVars, downloadSync, GetTrackStream, writeStream, CallRead, FailStream,
     FinishFile, CloseReader, ForgetCancel, openSegment, SegmentOpened, NoSegmentLeft, PrefetchTakes, PrefetchAnswered,
     TakePrefetched, StopWaiting, HasCurrent, ReadChunk, CancelRecord, CancelContext
<1>4. nextUrl' \in 1 .. Segments + 1
  BY <1>0 DEF StreamTyped, StreamNext, streamVars, downloadSync, GetTrackStream, writeStream, CallRead, FailStream,
     FinishFile, CloseReader, ForgetCancel, openSegment, SegmentOpened, NoSegmentLeft, PrefetchTakes, PrefetchAnswered,
     TakePrefetched, StopWaiting, HasCurrent, ReadChunk, CancelRecord, CancelContext, TakeUrl
<1>5. current' \in [seg : 0 .. Segments, chunk : 0 .. Chunks]
  <2>1. NoSegment \in [seg : 0 .. Segments, chunk : 0 .. Chunks]
    BY DEF NoSegment, NoBody
  <2>2. CASE SegmentOpened
    BY <1>0, <2>2 DEF StreamTyped, PlacesFit, SegmentOpened, BodyOf, NoBody
  <2>3. CASE TakePrefetched
    BY <1>0, <2>3 DEF StreamTyped, TakePrefetched
  <2>4. CASE ReadChunk
    <3>1. current \in [seg : 0 .. Segments, chunk : 0 .. Chunks] /\ Chunks \in Nat
      BY <1>0 DEF StreamTyped
    <3>2. PICK c : c = current.chunk + 1
      OBVIOUS
    <3>3. current' = NoSegment \/ (current.chunk < Chunks /\ current' = [current EXCEPT !.chunk = c])
      BY <2>4, <3>2 DEF ReadChunk
    <3>4. CASE current.chunk < Chunks /\ current' = [current EXCEPT !.chunk = c]
      <4>1. c \in 0 .. Chunks
        BY <3>1, <3>2, <3>4
      <4> QED
        BY <3>1, <3>4, <4>1
    <3> QED
      BY <2>1, <3>3, <3>4
  <2>5. CASE CloseReader
    BY <2>1, <2>5 DEF CloseReader
  <2>6. CASE current' = current
    BY <1>0, <2>6 DEF StreamTyped
  <2> QED
    BY <2>2, <2>3, <2>4, <2>5, <2>6 DEF StreamNext, streamVars, downloadSync, GetTrackStream, writeStream, CallRead,
       FailStream, FinishFile, ForgetCancel, openSegment, NoSegmentLeft, PrefetchTakes, PrefetchAnswered,
       StopWaiting, HasCurrent, CancelRecord, CancelContext
<1>6. ahead' \in [at : {"none", "asked", "asking", "ready"}, seg : 0 .. Segments, ok : BOOLEAN]
  <2> DEFINE Aheads == [at : {"none", "asked", "asking", "ready"}, seg : 0 .. Segments, ok : BOOLEAN]
  <2>1. NoAhead \in Aheads /\ prefetchNextLocked \in Aheads
    <3>1. NoAhead \in Aheads
      BY DEF NoAhead, NoBody
    <3>2. prefetchNextLocked = [NoAhead EXCEPT !.at = "none"] \/ prefetchNextLocked = [NoAhead EXCEPT !.at = "asked"]
      BY DEF prefetchNextLocked
    <3>3. [NoAhead EXCEPT !.at = "none"] \in Aheads /\ [NoAhead EXCEPT !.at = "asked"] \in Aheads
      BY <3>1
    <3> QED
      BY <3>1, <3>2, <3>3
  <2>2. CASE SegmentOpened \/ TakePrefetched
    BY <1>0, <2>1, <2>2 DEF StreamTyped, SegmentOpened, TakePrefetched
  <2>3. CASE PrefetchTakes
    <3>1. nextUrl \in 0 .. Segments
      BY <1>0, <2>3 DEF StreamTyped, PlacesFit, PrefetchTakes
    <3>2. ahead' = [ahead EXCEPT !.at = "asking", !.seg = nextUrl] /\ ahead \in Aheads
      BY <1>0, <2>3 DEF StreamTyped, PrefetchTakes
    <3> QED
      BY <3>1, <3>2
  <2>4. CASE PrefetchAnswered
    <3>1. PICK b \in BodyOf(ahead.seg) :
             ahead' = IF ctxOver THEN [at |-> "ready", seg |-> NoBody, ok |-> FALSE]
                      ELSE [at |-> "ready", seg |-> b.seg, ok |-> b.ok]
      BY <2>4 DEF PrefetchAnswered
    <3>2. b.seg \in 0 .. Segments /\ b.ok \in BOOLEAN
      <4>1. ahead.seg \in 0 .. Segments
        BY <1>0 DEF StreamTyped
      <4>2. b = [seg |-> ahead.seg, ok |-> TRUE] \/ b = [seg |-> 0, ok |-> FALSE]
        BY <3>1 DEF BodyOf, NoBody
      <4>3. b.seg = ahead.seg \/ b.seg = 0
        BY <4>2
      <4>4. b.ok \in BOOLEAN
        <5>1. CASE b = [seg |-> ahead.seg, ok |-> TRUE]
          BY <5>1
        <5>2. CASE b = [seg |-> 0, ok |-> FALSE]
          BY <5>2
        <5> QED
          BY <4>2, <5>1, <5>2
      <4> QED
        BY <4>1, <4>3, <4>4
    <3> QED
      BY <3>1, <3>2 DEF NoBody
  <2>5. CASE ahead' = ahead
    BY <1>0, <2>5 DEF StreamTyped
  <2> QED
    BY <2>2, <2>3, <2>4, <2>5 DEF StreamNext, streamVars, downloadSync, GetTrackStream, writeStream, CallRead,
       FailStream, FinishFile, CloseReader, ForgetCancel, openSegment, NoSegmentLeft, StopWaiting, HasCurrent,
       ReadChunk, CancelRecord, CancelContext
<1>7. output' \in Seq(Nat \X Nat)
  <2>1. <<>> \in Seq(Nat \X Nat) /\ NoFile \in Seq(Nat \X Nat)
    <3>1. <<0, 0>> \in Nat \X Nat
      OBVIOUS
    <3> QED
      BY <3>1 DEF NoFile
  <2>2. CASE ReadChunk
    <3>1. <<current.seg, current.chunk + 1>> \in Nat \X Nat
      BY <1>0 DEF StreamTyped
    <3>2. Append(output, <<current.seg, current.chunk + 1>>) \in Seq(Nat \X Nat)
      BY <1>0, <3>1 DEF StreamTyped
    <3> QED
      BY <1>0, <2>2, <3>2 DEF StreamTyped, ReadChunk
  <2>3. CASE output' = output
    BY <1>0, <2>3 DEF StreamTyped
  <2>4. CASE output' = <<>> \/ output' = NoFile
    BY <2>1, <2>4
  <2> QED
    BY <2>2, <2>3, <2>4 DEF StreamNext, streamVars, downloadSync, GetTrackStream, writeStream, CallRead,
       FailStream, FinishFile, CloseReader, ForgetCancel, openSegment, SegmentOpened, NoSegmentLeft, PrefetchTakes,
       PrefetchAnswered, TakePrefetched, StopWaiting, HasCurrent, CancelRecord, CancelContext, Reader, Canceller
<1> QED
  BY <1>1, <1>2, <1>3, <1>4, <1>5, <1>6, <1>7 DEF StreamTyped

LEMMA PlacesFitStep ==
  ASSUME StreamInv, [StreamNext]_streamVars
  PROVE  PlacesFit'
<1> USE StreamAssumption DEF Reader, Canceller, NoSegment, NoBody
<1>0. StreamTyped /\ PlacesFit
  BY DEF StreamInv
<1>1. CASE UNCHANGED streamVars
  BY <1>0, <1>1 DEF PlacesFit, streamVars
<1>2. CASE downloadSync \/ GetTrackStream \/ writeStream
  BY <1>0, <1>2 DEF PlacesFit, StreamTyped, downloadSync, GetTrackStream, writeStream
<1>3. CASE CallRead \/ FailStream \/ FinishFile
  BY <1>0, <1>3 DEF PlacesFit, StreamTyped, CallRead, FailStream, FinishFile
<1>4. CASE CloseReader
  BY <1>0, <1>4 DEF PlacesFit, StreamTyped, CloseReader
<1>5. CASE ForgetCancel \/ CancelRecord \/ CancelContext
  BY <1>0, <1>5 DEF PlacesFit, StreamTyped, ForgetCancel, CancelRecord, CancelContext
<1>6. CASE openSegment
  BY <1>0, <1>6 DEF PlacesFit, StreamTyped, openSegment, TakeUrl
<1>7. CASE SegmentOpened
  <2>1. PICK b \in BodyOf(nextUrl - 1) :
          \/ /\ b.ok
             /\ current' = [seg |-> b.seg, chunk |-> 0] /\ ahead' = prefetchNextLocked
             /\ reading' = "chunk" /\ UNCHANGED loading
          \/ ~b.ok /\ loading' = "fail" /\ reading' = "idle" /\ UNCHANGED <<current, ahead>>
    BY <1>7 DEF SegmentOpened
  <2>2. nextUrl' = nextUrl /\ reading = "opening" /\ nextUrl >= 2 /\ loading = "reading"
    BY <1>0, <1>7 DEF SegmentOpened, PlacesFit
  <2>3. CASE b.ok
    <3>1. b.seg = nextUrl - 1
      BY <2>3 DEF BodyOf
    <3>2. prefetchNextLocked.at \in {"none", "asked"} /\ (prefetchNextLocked.at = "asked" => ~(nextUrl > Segments))
      BY DEF prefetchNextLocked, NoAhead
    <3> QED
      BY <1>0, <2>1, <2>2, <2>3, <3>1, <3>2 DEF PlacesFit, StreamTyped
  <2>4. CASE ~b.ok
    BY <1>0, <2>1, <2>2, <2>4 DEF PlacesFit, StreamTyped
  <2> QED
    BY <2>3, <2>4
<1>8. CASE NoSegmentLeft \/ StopWaiting \/ HasCurrent
  BY <1>0, <1>8 DEF PlacesFit, StreamTyped, NoSegmentLeft, StopWaiting, HasCurrent
<1>9. CASE PrefetchTakes
  <2>1. nextUrl <= Segments /\ nextUrl' = nextUrl + 1 /\ reading # "opening" /\ loading # "finish"
        /\ loading \notin {"start", "track", "create"}
    BY <1>0, <1>9 DEF PlacesFit, StreamTyped, PrefetchTakes, TakeUrl, NoAhead
  <2>2. ahead' = [ahead EXCEPT !.at = "asking", !.seg = nextUrl]
        /\ UNCHANGED <<entry, loading, output, current, reading>>
    BY <1>9 DEF PrefetchTakes
  <2>3. ahead'.at = "asking" /\ ahead'.seg = nextUrl
    BY <1>0, <2>2 DEF StreamTyped
  <2> QED
    BY <1>0, <2>1, <2>2, <2>3 DEF PlacesFit, StreamTyped
<1>10. CASE PrefetchAnswered
  <2>1. PICK b \in BodyOf(ahead.seg) :
           ahead' = IF ctxOver THEN [at |-> "ready", seg |-> NoBody, ok |-> FALSE]
                    ELSE [at |-> "ready", seg |-> b.seg, ok |-> b.ok]
    BY <1>10 DEF PrefetchAnswered
  <2>2. ahead.at = "asking" /\ UNCHANGED <<entry, loading, output, nextUrl, current, reading>>
    BY <1>10 DEF PrefetchAnswered
  <2>3. ahead'.at = "ready" /\ (ahead'.ok => ahead'.seg = ahead.seg)
    BY <2>1 DEF BodyOf
  <2> QED
    BY <1>0, <2>2, <2>3 DEF PlacesFit, StreamTyped, NoAhead
<1>11. CASE TakePrefetched
  <2>1. prefetchNextLocked.at \in {"none", "asked"} /\ (prefetchNextLocked.at = "asked" => ~(nextUrl > Segments))
    BY DEF prefetchNextLocked, NoAhead
  <2>2. reading = "current" /\ loading = "reading" /\ ahead.at = "ready" /\ UNCHANGED nextUrl /\ nextUrl >= 2
    BY <1>0, <1>11 DEF TakePrefetched, PlacesFit
  <2>3. CASE ahead.ok
    <3>1. current' = [seg |-> ahead.seg, chunk |-> 0] /\ ahead' = prefetchNextLocked
          /\ reading' = "chunk" /\ UNCHANGED loading /\ ahead.seg = nextUrl - 1
      BY <1>0, <1>11, <2>2, <2>3 DEF TakePrefetched, PlacesFit
    <3> QED
      BY <1>0, <2>1, <2>2, <3>1 DEF PlacesFit, StreamTyped
  <2>4. CASE ~ahead.ok
    <3>1. loading' = "fail" /\ reading' = "idle" /\ ahead' = NoAhead /\ UNCHANGED current
      BY <1>11, <2>4 DEF TakePrefetched
    <3> QED
      BY <1>0, <2>2, <3>1 DEF PlacesFit, StreamTyped, NoAhead
  <2> QED
    BY <2>3, <2>4
<1>12. CASE ReadChunk
  <2>1. reading = "chunk" /\ loading = "reading" /\ UNCHANGED <<nextUrl, ahead>>
    BY <1>0, <1>12 DEF ReadChunk, PlacesFit
  <2>2. current'.seg \in {current.seg, 0} /\ (current'.seg = 0 => current' = NoSegment)
    BY <1>0, <1>12 DEF ReadChunk, PlacesFit, StreamTyped
  <2>3. reading' \in {"idle", "current"} /\ loading' \in {"loop", "reading", "fail"}
        /\ (reading' = "idle" <=> loading' # "reading")
    BY <2>1, <1>12 DEF ReadChunk
  <2> QED
    BY <1>0, <2>1, <2>2, <2>3 DEF PlacesFit, StreamTyped
<1> QED
  BY <1>1, <1>2, <1>3, <1>4, <1>5, <1>6, <1>7, <1>8, <1>9, <1>10, <1>11, <1>12 DEF StreamNext

\* The chunk that comes after the first k of a stream.
LEMMA NextPiece ==
  ASSUME NEW s \in 1 .. Segments, NEW c \in 0 .. Chunks - 1
  PROVE  /\ (s - 1) * Chunks + c \in Nat
         /\ Piece((s - 1) * Chunks + c + 1) = <<s, c + 1>>
<1> USE StreamAssumption
<1>1. s - 1 \in Nat /\ c \in 0 .. Chunks - 1
  OBVIOUS
<1>2. (s - 1) * Chunks + c \in Nat
  BY <1>1
<1>3. ((s - 1) * Chunks + c) \div Chunks = s - 1 /\ ((s - 1) * Chunks + c) % Chunks = c
  BY <1>1, Quotient
<1>4. ((s - 1) * Chunks + c + 1) - 1 = (s - 1) * Chunks + c
  BY <1>2
<1> QED
  BY <1>2, <1>3, <1>4 DEF Piece

LEMMA OutputFitsStep ==
  ASSUME StreamInv, [StreamNext]_streamVars
  PROVE  OutputFits'
<1> USE StreamAssumption DEF Reader, Canceller, NoSegment, NoBody
<1>0. StreamTyped /\ PlacesFit /\ OutputFits
  BY DEF StreamInv
<1>1. CASE UNCHANGED streamVars
  BY <1>0, <1>1 DEF OutputFits, streamVars, Reached, Fetching
<1>2. CASE downloadSync \/ GetTrackStream
  BY <1>0, <1>2 DEF OutputFits, StreamTyped, downloadSync, GetTrackStream, setError, updateRecord, NoEntry
<1>3. CASE writeStream
  <2>1. entry' # "imported" /\ (loading' = "close" \/ (loading' = "loop" /\ output' = <<>>))
    BY <1>0, <1>3 DEF writeStream, OutputFits, setError, updateRecord, NoEntry
  <2>2. nextUrl' = 1 /\ current' = NoSegment /\ ahead' = NoAhead /\ reading' = "idle"
    BY <1>0, <1>3 DEF writeStream, PlacesFit
  <2>3. Reached' = 0
    BY <2>2 DEF Reached, Fetching, NoAhead
  <2>4. output' = <<>> => Len(output') = 0
    OBVIOUS
  <2> QED
    BY <2>1, <2>2, <2>3, <2>4 DEF OutputFits
<1>4. CASE CallRead
  <2>1. entry' # "imported"
    BY <1>0, <1>4 DEF CallRead, OutputFits
  <2>2. CASE loading' = "fail"
    BY <2>1, <2>2 DEF OutputFits
  <2>3. CASE loading' = "reading"
    <3>1. reading' = "current" /\ reading = "idle" /\ loading = "loop" /\ UNCHANGED <<output, nextUrl, current, ahead>>
      BY <1>0, <1>4, <2>3 DEF CallRead, PlacesFit
    <3>2. Reached' = Reached
      BY <3>1 DEF Reached, Fetching
    <3> QED
      BY <1>0, <2>1, <2>3, <3>1, <3>2 DEF OutputFits
  <2> QED
    BY <1>4, <2>2, <2>3 DEF CallRead
<1>5. CASE FailStream
  BY <1>0, <1>5 DEF OutputFits, FailStream, setError, updateRecord, NoEntry
<1>6. CASE FinishFile
  <2>1. loading' = "close" /\ (output' = output \/ entry' # "imported")
    BY <1>0, <1>6 DEF OutputFits, FinishFile, setError, updateRecord, NoEntry
  <2>2. output = WholeStream
    <3>1. Reached = Segments /\ current = NoSegment
      BY <1>0, <1>6 DEF FinishFile, PlacesFit, Reached, Fetching, StreamTyped
    <3>2. Len(output) = Segments * Chunks /\ \A i \in 1 .. Len(output) : output[i] = Piece(i)
      BY <1>0, <1>6, <3>1 DEF OutputFits, FinishFile
    <3>3. WholeStream = [i \in 1 .. Segments * Chunks |-> Piece(i)]
      BY DEF WholeStream, Piece
    <3>4. output = [i \in 1 .. Len(output) |-> output[i]]
      BY <1>0 DEF StreamTyped
    <3> QED
      BY <3>2, <3>3, <3>4
  <2> QED
    BY <2>1, <2>2 DEF OutputFits
<1>7. CASE CloseReader \/ ForgetCancel \/ CancelRecord
  BY <1>0, <1>7 DEF OutputFits, CloseReader, ForgetCancel, CancelRecord, Reached, Fetching, NoEntry
<1>8. CASE CancelContext
  BY <1>0, <1>8 DEF OutputFits, CancelContext, Reached, Fetching
<1>9. CASE openSegment
  <2>1. Reached' = Reached /\ UNCHANGED <<entry, loading, output, current>>
    <3>1. nextUrl' = nextUrl + 1 /\ reading' = "opening" /\ reading = "current" /\ ahead.at = "none" /\ nextUrl \in Nat
          /\ UNCHANGED <<entry, loading, output, current>>
      BY <1>0, <1>9 DEF openSegment, TakeUrl, StreamTyped
    <3> QED
      BY <3>1 DEF Reached, Fetching
  <2> QED
    BY <1>0, <2>1 DEF OutputFits
<1>10. CASE SegmentOpened
  <2>1. PICK b \in BodyOf(nextUrl - 1) :
          \/ /\ b.ok
             /\ current' = [seg |-> b.seg, chunk |-> 0] /\ ahead' = prefetchNextLocked
             /\ reading' = "chunk" /\ UNCHANGED loading
          \/ ~b.ok /\ loading' = "fail" /\ reading' = "idle" /\ UNCHANGED <<current, ahead>>
    BY <1>10 DEF SegmentOpened
  <2>2. nextUrl' = nextUrl /\ reading = "opening" /\ nextUrl >= 2 /\ loading = "reading" /\ current.seg = 0
        /\ UNCHANGED <<entry, output>> /\ Reached = nextUrl - 2 /\ nextUrl \in Nat
    BY <1>0, <1>10 DEF SegmentOpened, PlacesFit, StreamTyped, Reached, Fetching
  <2>3. CASE b.ok
    <3>1. b.seg = nextUrl - 1
      BY <2>3 DEF BodyOf
    <3>2. prefetchNextLocked.at \in {"none", "asked"}
      BY DEF prefetchNextLocked, NoAhead
    <3>3. Reached' = nextUrl - 1
      BY <2>1, <2>2, <2>3, <3>2 DEF Reached, Fetching
    <3>4. Len(output) = (Reached' - 1) * Chunks + 0
      BY <1>0, <2>2, <3>3 DEF OutputFits
    <3>5. current'.seg = Reached' /\ current'.chunk = 0 /\ loading' = loading /\ current'.seg # 0
      BY <2>1, <2>2, <2>3, <3>1, <3>3
    <3> QED
      BY <1>0, <2>2, <3>4, <3>5 DEF OutputFits
  <2>4. CASE ~b.ok
    BY <1>0, <2>1, <2>2, <2>4 DEF OutputFits
  <2> QED
    BY <2>3, <2>4
<1>11. CASE NoSegmentLeft \/ HasCurrent
  <2>1. Reached' = Reached /\ UNCHANGED <<entry, output, current>> /\ loading = "reading"
    BY <1>0, <1>11 DEF NoSegmentLeft, HasCurrent, Reached, Fetching, PlacesFit
  <2> QED
    BY <1>0, <2>1 DEF OutputFits
<1>12. CASE StopWaiting
  BY <1>0, <1>12 DEF StopWaiting, OutputFits, PlacesFit
<1>13. CASE PrefetchTakes
  <2>1. Reached' = Reached /\ UNCHANGED <<entry, output, current, loading>>
    <3>1. nextUrl' = nextUrl + 1 /\ UNCHANGED <<entry, output, current, loading, reading>> /\ nextUrl \in Nat
          /\ reading # "opening" /\ ahead.at = "asked"
      BY <1>0, <1>13 DEF PrefetchTakes, TakeUrl, PlacesFit, StreamTyped
    <3>2. ahead'.at = "asking"
      BY <1>0, <1>13 DEF PrefetchTakes, StreamTyped
    <3> QED
      BY <3>1, <3>2 DEF Reached, Fetching
  <2> QED
    BY <1>0, <2>1 DEF OutputFits
<1>14. CASE PrefetchAnswered
  <2>1. ahead'.at = "ready" /\ ahead.at = "asking" /\ UNCHANGED <<entry, loading, output, nextUrl, current, reading>>
    BY <1>14 DEF PrefetchAnswered
  <2>2. Reached' = Reached
    BY <2>1 DEF Reached, Fetching
  <2> QED
    BY <1>0, <2>1, <2>2 DEF OutputFits
<1>15. CASE TakePrefetched
  <2>1. prefetchNextLocked.at \in {"none", "asked"}
    BY DEF prefetchNextLocked, NoAhead
  <2>2. reading = "current" /\ loading = "reading" /\ ahead.at = "ready" /\ UNCHANGED <<nextUrl, output, entry>>
        /\ current.seg = 0 /\ nextUrl >= 2 /\ nextUrl \in Nat /\ Reached = nextUrl - 2
    BY <1>0, <1>15 DEF TakePrefetched, PlacesFit, StreamTyped, Reached, Fetching
  <2>3. CASE ahead.ok
    <3>1. current' = [seg |-> ahead.seg, chunk |-> 0] /\ ahead' = prefetchNextLocked
          /\ reading' = "chunk" /\ UNCHANGED loading /\ ahead.seg = nextUrl - 1
      BY <1>0, <1>15, <2>2, <2>3 DEF TakePrefetched, PlacesFit
    <3>2. Reached' = nextUrl - 1
      BY <2>1, <2>2, <3>1 DEF Reached, Fetching
    <3>3. Len(output) = (Reached' - 1) * Chunks + 0
      BY <1>0, <2>2, <3>2 DEF OutputFits
    <3>4. current'.seg = Reached' /\ current'.chunk = 0 /\ loading' = loading /\ current'.seg # 0
      BY <2>2, <3>1, <3>2
    <3> QED
      BY <1>0, <2>2, <3>3, <3>4 DEF OutputFits
  <2>4. CASE ~ahead.ok
    BY <1>0, <1>15, <2>2, <2>4 DEF TakePrefetched, OutputFits
  <2> QED
    BY <2>3, <2>4
<1>16. CASE ReadChunk
  <2>1. reading = "chunk" /\ loading = "reading" /\ UNCHANGED <<nextUrl, ahead, entry>> /\ entry # "imported"
    BY <1>0, <1>16 DEF ReadChunk, PlacesFit, OutputFits
  <2>2. CASE loading' = "fail"
    BY <2>1, <2>2 DEF OutputFits
  <2>3. CASE loading' # "fail"
    <3>1. current.seg = Reached /\ current.seg \in 1 .. Segments /\ Reached' = Reached
          /\ Len(output) = (current.seg - 1) * Chunks + current.chunk /\ current.chunk \in 0 .. Chunks
      <4>1. current.seg = Reached /\ current.seg \in 1 .. Segments
            /\ Len(output) = (current.seg - 1) * Chunks + current.chunk /\ current.chunk \in 0 .. Chunks
        BY <1>0, <2>1 DEF OutputFits, PlacesFit, StreamTyped
      <4>2. reading' # "opening"
        BY <1>16 DEF ReadChunk
      <4> QED
        BY <2>1, <4>1, <4>2 DEF Reached, Fetching
    <3>2. CASE current.chunk < Chunks /\ output' = Append(output, <<current.seg, current.chunk + 1>>)
               /\ current' \in {[current EXCEPT !.chunk = current.chunk + 1]}
                      \cup (IF current.chunk + 1 = Chunks THEN {NoSegment} ELSE {})
      <4>1. /\ Len(output') = Len(output) + 1 /\ Len(output) \in Nat
            /\ \A i \in 1 .. Len(output) : output'[i] = output[i]
            /\ output'[Len(output) + 1] = <<current.seg, current.chunk + 1>>
        BY <1>0, <3>2 DEF StreamTyped
      <4>2. Piece(Len(output) + 1) = <<current.seg, current.chunk + 1>>
        BY <3>1, <3>2, NextPiece
      <4>3. \A i \in 1 .. Len(output') : output'[i] = Piece(i)
        <5>1. \A i \in 1 .. Len(output) : output[i] = Piece(i)
          BY <1>0, <2>1 DEF OutputFits
        <5> SUFFICES ASSUME NEW i \in 1 .. Len(output') PROVE output'[i] = Piece(i)
          OBVIOUS
        <5>2. CASE i \in 1 .. Len(output)
          BY <4>1, <5>1, <5>2
        <5>3. CASE i = Len(output) + 1
          BY <4>1, <4>2, <5>3
        <5> QED
          BY <4>1, <5>2, <5>3
      <4>4. CASE current' = [current EXCEPT !.chunk = current.chunk + 1]
        <5>1. current'.seg = current.seg /\ current'.chunk = current.chunk + 1
          BY <1>0, <4>4 DEF StreamTyped
        <5>2. Len(output') = (Reached' - 1) * Chunks + current'.chunk
          BY <3>1, <4>1, <5>1
        <5> QED
          BY <2>1, <3>1, <4>3, <5>1, <5>2 DEF OutputFits
      <4>5. CASE current' = NoSegment /\ current.chunk + 1 = Chunks
        <5>1. Len(output') = (Reached - 1) * Chunks + Chunks
          BY <3>1, <4>1, <4>5
        <5>2. Len(output') = Reached' * Chunks
          BY <3>1, <5>1
        <5> QED
          BY <2>1, <3>1, <4>3, <4>5, <5>2 DEF OutputFits
      <4> QED
        BY <3>2, <4>4, <4>5
    <3>3. CASE current.chunk = Chunks /\ current' = NoSegment /\ output' = output
      <4>1. Len(output) = Reached' * Chunks
        BY <3>1, <3>3
      <4> QED
        BY <1>0, <2>1, <3>1, <3>3, <4>1 DEF OutputFits
    <3> QED
      BY <1>16, <2>3, <3>2, <3>3 DEF ReadChunk
  <2> QED
    BY <2>2, <2>3
<1> QED
  BY <1>1, <1>2, <1>3, <1>4, <1>5, <1>6, <1>7, <1>8, <1>9, <1>10, <1>11, <1>12, <1>13, <1>14, <1>15, <1>16 DEF StreamNext

LEMMA StreamInvStep ==
  ASSUME StreamInv, [StreamNext]_streamVars
  PROVE  StreamInv'
BY StreamTypedStep, PlacesFitStep, OutputFitsStep DEF StreamInv

-----------------------------------------------------------------------------
(* Deezer: the quality asked for, and the chunks of a body *)

FetchSteps == {"none", "data", "media", "open", "read", "write", "loop", "check", "failed", "over"}
FetchState ==
  [at : FetchSteps, ask : Nat, format : Nat, pos : Nat, buf : Nat, index : Nat, first : BOOLEAN,
   ended : {"no", "eof", "cut"}]

FetchTyped ==
  /\ offer \in [units : Nat, has : SUBSET (1 .. Formats)]
  /\ wish \in [format : 0 .. Formats, fallback : BOOLEAN]
  /\ fetch \in FetchState
  /\ written \in Seq(Nat \X BOOLEAN)
  /\ dlRecord \in {"none", "queued", "downloading", "imported", "failed", "ignored"}

(* Every quality before the one that is asked for was refused.             *)
ChoiceFits ==
  /\ fetch.at = "none" => fetch.ask = 1
  /\ fetch.at \in {"none", "data", "media"} => fetch.format = 0
  /\ fetch.ask >= 1
  /\ \A k \in 1 .. fetch.ask - 1 : k <= Len(MediaOrder) /\ MediaOrder[k] \in refused
  /\ fetch.format # 0 => fetch.ask <= Len(MediaOrder) /\ fetch.format = MediaOrder[fetch.ask]

(* Unit i of a file of n is where it belongs, deciphered if it is of an    *)
(* enciphered chunk that is whole.                                         *)
Marked(i, n) == ((i - 1) \div ChunkUnits) % 3 = 0 /\ i <= WholeChunks(n)
ContentFits == \A i \in 1 .. Len(written) : written[i] = <<i, Marked(i, Len(written))>>

(* What was read is in the file or in the buffer; the file is made of      *)
(* whole chunks until the body ended.                                      *)
BodyFits ==
  /\ fetch.pos <= offer.units
  /\ fetch.at \in {"none", "data", "media", "open"} =>
       fetch.pos = 0 /\ fetch.buf = 0 /\ fetch.index = 0 /\ fetch.ended = "no" /\ written = NoOutput
  /\ fetch.at \in {"read", "write", "loop", "check"} =>
       /\ Len(written) + fetch.buf = fetch.pos
       /\ ContentFits
       /\ fetch.ended = "no" \/ fetch.buf > 0 => Len(written) = fetch.index * ChunkUnits
       /\ fetch.at = "read" \/ fetch.ended # "no" => fetch.buf < ChunkUnits
       /\ fetch.at = "write" /\ fetch.ended = "no" => fetch.buf = ChunkUnits
       /\ fetch.at \in {"loop", "check"} => fetch.buf = 0
       /\ fetch.at = "check" => fetch.ended # "no"
       /\ fetch.ended = "eof" => fetch.pos = offer.units
  /\ fetch.at \in {"failed", "over"} => written = NoOutput \/ Len(written) + fetch.buf = fetch.pos
  /\ fetch.buf <= ChunkUnits

(* A file that stays is the one that was checked.                          *)
FileFits ==
  /\ dlRecord = "imported" => fetch.at = "over" /\ written # NoOutput
  /\ fetch.at = "over" /\ written # NoOutput =>
       /\ ContentFits /\ Len(written) >= MinUnits
       /\ fetch.ended = "cut" \/ Len(written) = offer.units

FetchInv == FetchTyped /\ ChoiceFits /\ BodyFits /\ FileFits

LEMMA NoOutputTyped == NoOutput \in Seq(Nat \X BOOLEAN)
<1>1. <<0, FALSE>> \in Nat \X BOOLEAN
  OBVIOUS
<1> QED
  BY <1>1 DEF NoOutput

LEMMA FetchInvInit == DeezerStreamInit => FetchInv
<1> SUFFICES ASSUME DeezerStreamInit PROVE FetchInv
  OBVIOUS
<1> USE DeezerStreamAssumption DEF DeezerStreamInit, Untouched
<1>1. FetchTyped
  BY NoOutputTyped DEF FetchTyped, FetchState, FetchSteps
<1>2. ChoiceFits
  BY DEF ChoiceFits
<1>3. BodyFits
  BY DEF BodyFits
<1>4. FileFits
  BY DEF FileFits
<1> QED
  BY <1>1, <1>2, <1>3, <1>4 DEF FetchInv

\* Of the whole chunks of n units: there are at most n, and what is left is
\* no whole chunk.
LEMMA WholeChunksOf ==
  ASSUME NEW n \in Nat
  PROVE  /\ WholeChunks(n) \in Nat /\ n - ChunkUnits < WholeChunks(n) /\ WholeChunks(n) <= n
         /\ WholeChunks(n) = (n \div ChunkUnits) * ChunkUnits /\ n \div ChunkUnits \in Nat
<1> USE DeezerStreamAssumption
<1>1. n \div ChunkUnits \in Nat /\ n % ChunkUnits \in 0 .. ChunkUnits - 1
      /\ n = (n \div ChunkUnits) * ChunkUnits + (n % ChunkUnits)
  OBVIOUS
<1>2. (n \div ChunkUnits) * ChunkUnits \in Nat
  BY <1>1
<1> QED
  BY <1>1, <1>2 DEF WholeChunks

LEMMA WholeChunksAre ==
  ASSUME NEW q \in Nat, NEW r \in 0 .. ChunkUnits - 1
  PROVE  q * ChunkUnits + r \in Nat /\ WholeChunks(q * ChunkUnits + r) = q * ChunkUnits
<1> USE DeezerStreamAssumption
<1>1. q * ChunkUnits + r \in Nat
  OBVIOUS
<1>2. (q * ChunkUnits + r) \div ChunkUnits = q
  BY Quotient
<1> QED
  BY <1>1, <1>2 DEF WholeChunks

\* The units of one chunk are behind the whole chunks before it.
LEMMA ChunkOfUnit ==
  ASSUME NEW q \in Nat, NEW i \in Nat, q * ChunkUnits < i, i <= q * ChunkUnits + ChunkUnits
  PROVE  (i - 1) \div ChunkUnits = q
<1> USE DeezerStreamAssumption
<1> DEFINE r == i - 1 - q * ChunkUnits
<1>1. q * ChunkUnits \in Nat
  OBVIOUS
<1>2. r \in 0 .. ChunkUnits - 1 /\ i - 1 = q * ChunkUnits + r
  BY <1>1
<1> HIDE DEF r
<1> QED
  BY <1>2, Quotient

(* getMediaURL's order: from the wished quality on, then the better ones.  *)
From == IF wish.format = 0 THEN 1 ELSE wish.format
InOrder(k) == IF From + k - 1 <= Formats THEN From + k - 1 ELSE From + k - 1 - Formats

LEMMA OrderedFormats ==
  ASSUME FetchTyped
  PROVE  /\ From \in 1 .. Formats
         /\ wish.fallback =>
              /\ Len(MediaOrder) = Formats
              /\ \A k \in 1 .. Formats : MediaOrder[k] = InOrder(k)
         /\ ~wish.fallback => Len(MediaOrder) = 1 /\ MediaOrder[1] = From
<1> DEFINE all == [i \in 1 .. Formats |-> i]
           turned == IF wish.format = 0 THEN all
                     ELSE SubSeq(all, wish.format, Formats) \o SubSeq(all, 1, wish.format - 1)
<1> USE DeezerStreamAssumption
<1>1. From \in 1 .. Formats /\ wish.format \in 0 .. Formats
  BY DEF FetchTyped, From
<1>2. all \in Seq(Nat) /\ Len(all) = Formats /\ \A i \in 1 .. Formats : all[i] = i
  OBVIOUS
<1>3. /\ turned \in Seq(Nat) /\ Len(turned) = Formats
      /\ \A k \in 1 .. Formats : turned[k] = InOrder(k)
  <2>1. CASE wish.format = 0
    BY <1>2, <2>1 DEF From, InOrder
  <2>2. CASE wish.format # 0
    <3> DEFINE f == wish.format
               low == SubSeq(all, f, Formats)
               high == SubSeq(all, 1, f - 1)
    <3>1. f \in 1 .. Formats /\ From = f
      BY <1>1, <2>2 DEF From
    <3> HIDE DEF all, f
    <3>2. /\ low \in Seq(Nat) /\ Len(low) = Formats - f + 1
          /\ \A k \in 1 .. Formats - f + 1 : low[k] = f + k - 1
      BY <1>2, <3>1
    <3>3. /\ high \in Seq(Nat) /\ Len(high) = f - 1
          /\ \A k \in 1 .. f - 1 : high[k] = k
      BY <1>2, <3>1
    <3> HIDE DEF low, high
    <3>4. low \o high \in Seq(Nat) /\ Len(low \o high) = Formats
      <4>1. low \o high \in Seq(Nat) /\ Len(low \o high) = Len(low) + Len(high)
        <5>1. low \in Seq(Nat) /\ high \in Seq(Nat)
          BY <3>2, <3>3
        <5> QED
          BY <5>1
      <4> QED
        BY <3>1, <3>2, <3>3, <4>1
    <3>5. \A k \in 1 .. Formats : (low \o high)[k] = InOrder(k)
      <4> SUFFICES ASSUME NEW k \in 1 .. Formats PROVE (low \o high)[k] = InOrder(k)
        OBVIOUS
      <4>1. CASE k <= Formats - f + 1
        <5>1. k \in 1 .. Len(low) /\ (low \o high)[k] = low[k]
          BY <3>1, <3>2, <3>3, <4>1
        <5> QED
          BY <3>1, <3>2, <4>1, <5>1 DEF InOrder
      <4>2. CASE ~ (k <= Formats - f + 1)
        <5>1. k \in Len(low) + 1 .. Len(low) + Len(high) /\ (low \o high)[k] = high[k - Len(low)]
          BY <3>1, <3>2, <3>3, <4>2, SMTT(30)
        <5>2. k - Len(low) = k - (Formats - f + 1) /\ k - Len(low) \in 1 .. f - 1
          BY <3>1, <3>2, <4>2
        <5>3. high[k - Len(low)] = k - (Formats - f + 1)
          BY <3>3, <5>2
        <5> QED
          BY <3>1, <4>2, <5>1, <5>3 DEF InOrder
      <4> QED
        BY <4>1, <4>2
    <3>6. turned = low \o high
      BY <2>2 DEF f, low, high
    <3> HIDE DEF turned
    <3> QED
      BY <3>4, <3>5, <3>6
  <2> HIDE DEF turned, all
  <2> QED
    BY <2>1, <2>2
<1> HIDE DEF all
<1>4. wish.fallback => MediaOrder = turned
  BY DEF MediaOrder, all
<1>5. ~wish.fallback => MediaOrder = SubSeq(turned, 1, 1)
  BY DEF MediaOrder, all
<1> HIDE DEF turned
<1>6. Len(SubSeq(turned, 1, 1)) = 1 /\ SubSeq(turned, 1, 1)[1] = turned[1]
  BY <1>3
<1>7. turned[1] = From
  BY <1>1, <1>3 DEF InOrder
<1> QED
  BY <1>1, <1>3, <1>4, <1>5, <1>6, <1>7

LEMMA EmptyJoined == ASSUME NEW S PROVE <<>> \in Seq(S)
OBVIOUS

LEMMA Joined ==
  ASSUME NEW S, NEW s \in Seq(S), NEW t \in Seq(S)
  PROVE  /\ s \o t \in Seq(S) /\ Len(s \o t) = Len(s) + Len(t)
         /\ \A i \in 1 .. Len(s) : (s \o t)[i] = s[i]
         /\ \A i \in 1 .. Len(t) : (s \o t)[Len(s) + i] = t[i]
<1>1. s \o t \in Seq(S) /\ Len(s \o t) = Len(s) + Len(t)
  OBVIOUS
<1>2. \A i \in 1 .. Len(s) : (s \o t)[i] = s[i]
  OBVIOUS
<1>3. \A i \in 1 .. Len(t) : (s \o t)[Len(s) + i] = t[i]
  OBVIOUS
<1> QED
  BY <1>1, <1>2, <1>3

LEMMA FetchTypedStep ==
  ASSUME FetchInv, [DeezerStreamNext]_deezerStreamVars
  PROVE  FetchTyped'
<1> USE DeezerStreamAssumption
<1>0. FetchTyped /\ ChoiceFits /\ BodyFits
  BY DEF FetchInv
<1> DEFINE Records == {"none", "queued", "downloading", "imported", "failed", "ignored"}
<1>1. fetch \in FetchState /\ dlRecord \in Records /\ written \in Seq(Nat \X BOOLEAN)
  BY <1>0 DEF FetchTyped
<1>2. ASSUME NEW place \in FetchSteps, FetchGoes(place)
      PROVE  fetch' \in FetchState
  BY <1>1, <1>2 DEF FetchGoes, FetchState
<1>3. ASSUME NEW s \in Records, SetRow(s)
      PROVE  dlRecord' \in Records
  BY <1>3 DEF SetRow
<1>4. FailRow => dlRecord' \in Records
  BY <1>1, <1>3 DEF FailRow
<1> HIDE DEF Records
<1>5. CASE UNCHANGED deezerStreamVars
  BY <1>0, <1>5 DEF FetchTyped, deezerStreamVars
<1>6. ASSUME NEW units \in TrackLengths, NEW has \in SUBSET (1 .. Formats), NEW format \in 0 .. Formats,
             NEW fallback \in BOOLEAN, StartTrack(units, has, format, fallback)
      PROVE  FetchTyped'
  <2>1. fetch' \in FetchState
    BY <1>2, <1>6 DEF StartTrack, FetchSteps
  <2>2. offer' \in [units : Nat, has : SUBSET (1 .. Formats)] /\ wish' \in [format : 0 .. Formats, fallback : BOOLEAN]
    BY <1>6 DEF StartTrack
  <2> QED
    BY <1>1, <1>6, <2>1, <2>2 DEF StartTrack, FetchTyped
<1>7. CASE SongData
  <2>1. fetch' \in FetchState
    BY <1>2, <1>7 DEF SongData, FetchSteps
  <2>2. dlRecord' \in Records
    BY <1>1, <1>4, <1>7 DEF SongData
  <2> QED
    BY <1>0, <1>7, <2>1, <2>2 DEF SongData, FetchTyped, Records
<1>8. CASE getMediaURL
  <2>1. fetch' \in FetchState
    <3>1. CASE FetchGoes("over")
      BY <1>2, <3>1 DEF FetchSteps
    <3>2. CASE \E q \in offer.has : fetch' = [fetch EXCEPT !.at = "open", !.format = q]
      <4>1. \A q \in offer.has : q \in Nat
        BY <1>0 DEF FetchTyped
      <4> QED
        BY <1>1, <3>2, <4>1 DEF FetchState, FetchSteps
    <3>3. CASE fetch' = [fetch EXCEPT !.ask = @ + 1]
      <4>1. fetch.ask + 1 \in Nat
        BY <1>1 DEF FetchState
      <4> QED
        BY <1>1, <3>3, <4>1 DEF FetchState
    <3> QED
      BY <1>8, <3>1, <3>2, <3>3 DEF getMediaURL
  <2>2. dlRecord' \in Records
    BY <1>1, <1>4, <1>8 DEF getMediaURL
  <2> QED
    BY <1>0, <1>8, <2>1, <2>2 DEF getMediaURL, FetchTyped, Records
<1>9. CASE OpenTrack
  <2>1. fetch' \in FetchState
    BY <1>2, <1>9 DEF OpenTrack, FetchSteps
  <2>2. dlRecord' \in Records
    <3>1. "downloading" \in Records
      BY DEF Records
    <3> QED
      BY <1>1, <1>3, <1>9, <3>1 DEF OpenTrack
  <2>3. written' \in Seq(Nat \X BOOLEAN)
    <3>1. <<>> \in Seq(Nat \X BOOLEAN)
      BY EmptyJoined
    <3> QED
      BY <1>1, <1>9, <3>1 DEF OpenTrack
  <2> QED
    BY <1>0, <1>9, <2>1, <2>2, <2>3 DEF OpenTrack, FetchTyped, Records
<1>10. CASE ReadBody
  <2>1. fetch' \in FetchState
    <3>1. CASE FetchGoes("failed")
      BY <1>2, <3>1 DEF FetchSteps
    <3>2. ASSUME NEW n \in 1 .. ChunkUnits - fetch.buf,
                 fetch' = [fetch EXCEPT !.pos = @ + n, !.buf = @ + n,
                             !.at = IF fetch.buf + n = ChunkUnits THEN "write" ELSE "read"]
          PROVE  fetch' \in FetchState
      <4>1. fetch.buf \in Nat /\ fetch.pos \in Nat
        BY <1>1 DEF FetchState
      <4>2. n \in Nat /\ fetch.pos + n \in Nat /\ fetch.buf + n \in Nat
        BY <4>1
      <4> QED
        BY <1>1, <3>2, <4>2 DEF FetchState, FetchSteps
    <3>3. ASSUME NEW left, fetch' = [fetch EXCEPT !.at = "write",
                             !.ended = IF @ # "no" THEN @ ELSE IF left = 0 THEN "eof" ELSE "cut"]
          PROVE  fetch' \in FetchState
      BY <1>1, <3>3 DEF FetchState, FetchSteps
    <3> QED
      BY <1>10, <3>1, <3>2, <3>3 DEF ReadBody
  <2> QED
    BY <1>0, <1>10, <2>1 DEF ReadBody, FetchTyped
<1>11. CASE WriteChunk
  <2>1. fetch' \in FetchState
    <3>1. CASE FetchGoes("failed")
      BY <1>2, <3>1 DEF FetchSteps
    <3>2. CASE fetch' = [fetch EXCEPT !.buf = 0, !.index = IF fetch.buf > 0 THEN @ + 1 ELSE @,
                        !.at = IF fetch.ended # "no" /\ ~fetch.first THEN "check" ELSE "loop"]
      <4>1. (IF fetch.buf > 0 THEN fetch.index + 1 ELSE fetch.index) \in Nat
        BY <1>1 DEF FetchState
      <4> QED
        BY <1>1, <3>2, <4>1 DEF FetchState, FetchSteps
    <3> QED
      BY <1>11, <3>1, <3>2 DEF WriteChunk
  <2>2. written' \in Seq(Nat \X BOOLEAN)
    <3> DEFINE new == [i \in 1 .. fetch.buf |-> <<fetch.pos - fetch.buf + i, Deciphered(fetch.index, fetch.buf)>>]
    <3>1. new \in Seq(Nat \X BOOLEAN)
      <4>1. fetch.buf \in Nat /\ fetch.pos \in Nat /\ fetch.pos - fetch.buf \in Nat
        <5>1. fetch.buf \in Nat /\ fetch.pos \in Nat
          BY <1>1 DEF FetchState
        <5>2. Len(written) + fetch.buf = fetch.pos /\ Len(written) \in Nat
          BY <1>0, <1>1, <1>11 DEF WriteChunk, BodyFits
        <5> QED
          BY <5>1, <5>2
      <4>2. Deciphered(fetch.index, fetch.buf) \in BOOLEAN
        BY DEF Deciphered, Ciphered
      <4>3. \A i \in 1 .. fetch.buf : <<fetch.pos - fetch.buf + i, Deciphered(fetch.index, fetch.buf)>> \in Nat \X BOOLEAN
        BY <4>1, <4>2
      <4> HIDE DEF Deciphered
      <4> QED
        BY <4>1, <4>3
    <3> HIDE DEF new
    <3>2. written' = written \o new \/ written' = written
      BY <1>11 DEF WriteChunk, new
    <3> QED
      <4>1. written \o new \in Seq(Nat \X BOOLEAN)
        BY <1>1, <3>1
      <4> QED
        BY <1>1, <3>2, <4>1
  <2> QED
    BY <1>0, <1>11, <2>1, <2>2 DEF WriteChunk, FetchTyped
<1>12. CASE NextChunk
  <2>1. fetch' \in FetchState
    BY <1>1, <1>12 DEF NextChunk, FetchState, FetchSteps
  <2> QED
    BY <1>0, <1>12, <2>1 DEF NextChunk, FetchTyped
<1>13. CASE DropTrack
  <2>1. fetch' \in FetchState
    BY <1>2, <1>13 DEF DropTrack, FetchSteps
  <2> QED
    BY <1>0, <1>4, <1>13, <2>1, NoOutputTyped DEF DropTrack, FetchTyped, Records
<1>14. CASE CheckSize
  <2>1. fetch' \in FetchState
    BY <1>2, <1>14 DEF CheckSize, FetchSteps
  <2>2. dlRecord' \in Records
    <3>1. (IF EndState(dlRecord) THEN dlRecord ELSE "imported") \in Records
      BY <1>1 DEF Records
    <3> QED
      BY <1>3, <1>4, <1>14, <3>1 DEF CheckSize
  <2>3. written' \in Seq(Nat \X BOOLEAN)
    BY <1>1, <1>14, NoOutputTyped DEF CheckSize
  <2> QED
    BY <1>0, <1>14, <2>1, <2>2, <2>3 DEF CheckSize, FetchTyped, Records
<1>15. ASSUME NEW remove \in BOOLEAN, CancelTrack(remove)
       PROVE  FetchTyped'
  BY <1>0, <1>15 DEF CancelTrack, FetchTyped
<1> QED
  BY <1>5, <1>6, <1>7, <1>8, <1>9, <1>10, <1>11, <1>12, <1>13, <1>14, <1>15 DEF DeezerStreamNext

LEMMA ChoiceFitsStep ==
  ASSUME FetchInv, [DeezerStreamNext]_deezerStreamVars
  PROVE  ChoiceFits'
<1> USE DeezerStreamAssumption
<1>0. FetchTyped /\ ChoiceFits /\ BodyFits /\ fetch \in FetchState
  BY DEF FetchInv, FetchTyped
\* What most steps do: they move on and leave the choice alone.
<1>1. ASSUME UNCHANGED wish, refused \subseteq refused', fetch'.ask = fetch.ask, fetch'.format = fetch.format,
             fetch'.at # "none", fetch'.at \in {"data", "media"} => fetch.at \in {"none", "data", "media"}
      PROVE  ChoiceFits'
  <2>1. MediaOrder' = MediaOrder
    BY <1>1 DEF MediaOrder
  <2> QED
    BY <1>0, <1>1, <2>1 DEF ChoiceFits
<1>2. CASE UNCHANGED <<wish, fetch, refused>>
  <2>1. MediaOrder' = MediaOrder
    BY <1>2 DEF MediaOrder
  <2> QED
    BY <1>0, <1>2, <2>1 DEF ChoiceFits
<1>3. ASSUME NEW units \in TrackLengths, NEW has \in SUBSET (1 .. Formats), NEW format \in 0 .. Formats,
             NEW fallback \in BOOLEAN, StartTrack(units, has, format, fallback)
      PROVE  ChoiceFits'
  <2>1. fetch'.ask = 1 /\ fetch'.format = 0 /\ fetch'.at = "data"
    BY <1>0, <1>3 DEF StartTrack, FetchGoes, ChoiceFits, FetchState
  <2> QED
    BY <2>1 DEF ChoiceFits
<1>4. ASSUME NEW place, place \notin {"none", "data"}, FetchGoes(place), place = "media" => fetch.at = "data",
             UNCHANGED wish, refused \subseteq refused'
      PROVE  ChoiceFits'
  <2>1. fetch'.ask = fetch.ask /\ fetch'.format = fetch.format /\ fetch'.at = place
    BY <1>0, <1>4 DEF FetchGoes, FetchState
  <2> QED
    BY <1>1, <1>4, <2>1
<1>5. CASE SongData
  BY <1>4, <1>5 DEF SongData
<1>6. CASE getMediaURL
  <2>1. CASE fetch.ask > Len(MediaOrder)
    BY <1>4, <1>6, <2>1 DEF getMediaURL
  <2>2. CASE ~ (fetch.ask > Len(MediaOrder))
    <3> DEFINE q == MediaOrder[fetch.ask]
    <3>0. Len(MediaOrder) \in Nat /\ fetch.ask \in Nat /\ MediaOrder' = MediaOrder /\ fetch.format = 0 /\ fetch.at = "media"
      <4>1. Len(MediaOrder) \in Nat
        BY <1>0, OrderedFormats DEF FetchTyped
      <4>2. MediaOrder' = MediaOrder
        BY <1>6 DEF MediaOrder, getMediaURL
      <4> QED
        BY <1>0, <1>6, <4>1, <4>2 DEF FetchState, ChoiceFits, getMediaURL
    <3>1. CASE fetch' = [fetch EXCEPT !.at = "open", !.format = q] /\ UNCHANGED refused
      <4>1. fetch'.ask = fetch.ask /\ fetch'.format = q /\ fetch'.at = "open"
        BY <1>0, <3>1 DEF FetchState
      <4> QED
        BY <1>0, <2>2, <3>0, <3>1, <4>1 DEF ChoiceFits
    <3>2. CASE fetch' = [fetch EXCEPT !.ask = @ + 1] /\ refused' = refused \cup {q}
      <4>1. fetch'.ask = fetch.ask + 1 /\ fetch'.format = 0 /\ fetch'.at = "media"
        BY <1>0, <3>0, <3>2 DEF FetchState
      <4>2. \A k \in 1 .. fetch'.ask - 1 : k <= Len(MediaOrder) /\ MediaOrder[k] \in refused'
        BY <1>0, <2>2, <3>0, <3>2, <4>1 DEF ChoiceFits
      <4> QED
        BY <1>0, <3>0, <4>1, <4>2 DEF ChoiceFits
    <3> QED
      BY <1>6, <2>2, <3>1, <3>2 DEF getMediaURL
  <2> QED
    BY <2>1, <2>2
<1>7. CASE OpenTrack
  BY <1>4, <1>7 DEF OpenTrack
<1>8. CASE ReadBody
  <2>1. fetch'.ask = fetch.ask /\ fetch'.format = fetch.format /\ fetch'.at \in {"read", "write", "failed"}
    BY <1>0, <1>8 DEF ReadBody, FetchGoes, FetchState
  <2> QED
    BY <1>1, <1>8, <2>1 DEF ReadBody
<1>9. CASE WriteChunk
  <2>1. fetch'.ask = fetch.ask /\ fetch'.format = fetch.format /\ fetch'.at \in {"loop", "check", "failed"}
    BY <1>0, <1>9 DEF WriteChunk, FetchGoes, FetchState
  <2> QED
    BY <1>1, <1>9, <2>1 DEF WriteChunk
<1>10. CASE NextChunk
  <2>1. fetch'.ask = fetch.ask /\ fetch'.format = fetch.format /\ fetch'.at \in {"read", "failed"}
    BY <1>0, <1>10 DEF NextChunk, FetchState
  <2> QED
    BY <1>1, <1>10, <2>1 DEF NextChunk
<1>11. CASE DropTrack \/ CheckSize
  BY <1>4, <1>11 DEF DropTrack, CheckSize
<1>12. ASSUME NEW remove \in BOOLEAN, CancelTrack(remove)
       PROVE  ChoiceFits'
  BY <1>2, <1>12 DEF CancelTrack
<1> QED
  BY <1>2, <1>3, <1>5, <1>6, <1>7, <1>8, <1>9, <1>10, <1>11, <1>12 DEF DeezerStreamNext, deezerStreamVars

\* Units before the last chunk keep their mark when it is written, the last
\* chunk's are marked as a whole.
LEMMA MarksGrow ==
  ASSUME NEW q \in Nat, NEW r \in Nat, r <= ChunkUnits
  PROVE  LET n == q * ChunkUnits IN
         /\ n \in Nat
         /\ \A i \in 1 .. n : Marked(i, n) <=> Marked(i, n + r)
         /\ \A j \in 1 .. r : Marked(n + j, n + r) <=> q % 3 = 0 /\ r = ChunkUnits
<1> USE DeezerStreamAssumption
<1> DEFINE n == q * ChunkUnits
<1>1. n \in Nat
  OBVIOUS
<1>2. WholeChunks(n) = n
  <2>1. 0 \in 0 .. ChunkUnits - 1 /\ n = q * ChunkUnits + 0
    BY <1>1
  <2> QED
    BY <2>1, WholeChunksAre
<1>3. CASE r = ChunkUnits
  <2>1. WholeChunks(n + r) = n + r
    <3>1. q + 1 \in Nat /\ 0 \in 0 .. ChunkUnits - 1 /\ n + r = (q + 1) * ChunkUnits + 0
      BY <1>3
    <3>2. WholeChunks((q + 1) * ChunkUnits + 0) = (q + 1) * ChunkUnits
      BY <3>1, WholeChunksAre
    <3> HIDE DEF n
    <3> QED
      BY <3>1, <3>2
  <2>2. \A j \in 1 .. r : ((n + j) - 1) \div ChunkUnits = q
    BY <1>1, <1>3, ChunkOfUnit
  <2> HIDE DEF n
  <2>3. ASSUME NEW i \in 1 .. n PROVE Marked(i, n) <=> Marked(i, n + r)
    <3>1. i <= n /\ i <= n + r
      BY <1>1
    <3> QED
      BY <1>2, <2>1, <3>1 DEF Marked
  <2>4. ASSUME NEW j \in 1 .. r PROVE Marked(n + j, n + r) <=> q % 3 = 0 /\ r = ChunkUnits
    <3>1. n + j <= n + r /\ ((n + j) - 1) \div ChunkUnits = q
      BY <1>1, <2>2
    <3>2. Marked(n + j, n + r) <=> (((n + j) - 1) \div ChunkUnits) % 3 = 0 /\ n + j <= n + r
      <4>1. Marked(n + j, n + r) <=> (((n + j) - 1) \div ChunkUnits) % 3 = 0 /\ n + j <= WholeChunks(n + r)
        BY DEF Marked
      <4> QED
        BY <2>1, <4>1, Zenon
    <3>3. (((n + j) - 1) \div ChunkUnits) % 3 = q % 3
      BY <3>1
    <3> QED
      BY <1>3, <3>1, <3>2, <3>3, Zenon
  <2> QED
    BY <1>1, <2>3, <2>4 DEF n
<1>4. CASE r < ChunkUnits
  <2>1. WholeChunks(n + r) = n
    <3>1. r \in 0 .. ChunkUnits - 1
      BY <1>4
    <3> QED
      BY <3>1, WholeChunksAre
  <2> HIDE DEF n
  <2>3. ASSUME NEW i \in 1 .. n PROVE Marked(i, n) <=> Marked(i, n + r)
    BY <1>2, <2>1 DEF Marked
  <2>4. ASSUME NEW j \in 1 .. r PROVE Marked(n + j, n + r) <=> q % 3 = 0 /\ r = ChunkUnits
    <3>1. ~ (n + j <= n)
      BY <1>1
    <3> QED
      BY <1>4, <2>1, <3>1 DEF Marked
  <2> QED
    BY <1>1, <2>3, <2>4 DEF n
<1> QED
  BY <1>3, <1>4

LEMMA ChunkWritten ==
  ASSUME FetchInv, fetch.at = "write",
         written' = written \o [i \in 1 .. fetch.buf |->
                        <<fetch.pos - fetch.buf + i, Deciphered(fetch.index, fetch.buf)>>]
  PROVE  ContentFits' /\ Len(written') = Len(written) + fetch.buf
<1> USE DeezerStreamAssumption
<1> DEFINE n == Len(written)
           r == fetch.buf
           new == [i \in 1 .. r |-> <<fetch.pos - r + i, Deciphered(fetch.index, r)>>]
<1>1. /\ written \in Seq(Nat \X BOOLEAN) /\ n \in Nat /\ r \in Nat /\ r <= ChunkUnits
      /\ fetch.pos = n + r /\ ContentFits /\ fetch.index \in Nat
      /\ r > 0 => n = fetch.index * ChunkUnits
  BY DEF FetchInv, FetchTyped, FetchState, BodyFits
<1>2. CASE r = 0
  <2>1. written' = written
    BY <1>1, <1>2
  <2> QED
    BY <1>1, <1>2, <2>1 DEF ContentFits, Marked, WholeChunks
<1>3. CASE r > 0
  <2>1. new \in Seq(Nat \X BOOLEAN) /\ Len(new) = r
        /\ \A j \in 1 .. r : new[j] = <<n + j, Deciphered(fetch.index, r)>>
    <3>1. Deciphered(fetch.index, r) \in BOOLEAN /\ \A j \in 1 .. r : fetch.pos - r + j = n + j
      BY <1>1 DEF Deciphered, Ciphered
    <3> HIDE DEF r, n
    <3>2. \A j \in 1 .. r : <<fetch.pos - r + j, Deciphered(fetch.index, r)>> \in Nat \X BOOLEAN
      BY <1>1, <3>1
    <3> QED
      BY <1>1, <3>1, <3>2
  <2>2. written' = written \o new
    OBVIOUS
  <2> HIDE DEF new
  <2>3. /\ Len(written') = n + r
        /\ \A i \in 1 .. n : written'[i] = written[i]
        /\ \A j \in 1 .. r : written'[n + j] = new[j]
    <3>1. /\ Len(written \o new) = Len(written) + Len(new)
          /\ \A i \in 1 .. Len(written) : (written \o new)[i] = written[i]
          /\ \A i \in 1 .. Len(new) : (written \o new)[Len(written) + i] = new[i]
      <4>1. written \in Seq(Nat \X BOOLEAN) /\ new \in Seq(Nat \X BOOLEAN)
        BY <1>1, <2>1
      <4> DEFINE S == Nat \X BOOLEAN
      <4> HIDE DEF S
      <4>2. written \in Seq(S) /\ new \in Seq(S)
        BY <4>1 DEF S
      <4> QED
        BY <4>2, Joined
    <3> QED
      BY <2>1, <2>2, <3>1
  <2>4. /\ \A i \in 1 .. n : Marked(i, n) <=> Marked(i, n + r)
        /\ \A j \in 1 .. r : Marked(n + j, n + r) <=> fetch.index % 3 = 0 /\ r = ChunkUnits
    <3> DEFINE m == fetch.index * ChunkUnits
    <3>1. /\ \A i \in 1 .. m : Marked(i, m) <=> Marked(i, m + r)
          /\ \A j \in 1 .. r : Marked(m + j, m + r) <=> fetch.index % 3 = 0 /\ r = ChunkUnits
      BY <1>1, MarksGrow
    <3>2. n = m
      BY <1>1, <1>3
    <3> HIDE DEF m, n
    <3> QED
      BY <3>1, <3>2
  <2> HIDE DEF n, r
  <2>5. \A i \in 1 .. n : written'[i] = <<i, Marked(i, n + r)>>
    <3> SUFFICES ASSUME NEW i \in 1 .. n PROVE written'[i] = <<i, Marked(i, n + r)>>
      OBVIOUS
    <3>1. written'[i] = <<i, Marked(i, n)>>
      BY <1>1, <2>3 DEF ContentFits, n
    <3>2. Marked(i, n) = Marked(i, n + r)
      BY <2>4 DEF Marked
    <3> QED
      BY <3>1, <3>2
  <2>6. \A j \in 1 .. r : written'[n + j] = <<n + j, Marked(n + j, n + r)>>
    <3> SUFFICES ASSUME NEW j \in 1 .. r PROVE written'[n + j] = <<n + j, Marked(n + j, n + r)>>
      OBVIOUS
    <3>1. written'[n + j] = <<n + j, Deciphered(fetch.index, r)>>
      BY <2>1, <2>3
    <3>2. Marked(n + j, n + r) = Deciphered(fetch.index, r)
      BY <2>4 DEF Marked, Deciphered, Ciphered
    <3> QED
      BY <3>1, <3>2
  <2>7. ASSUME NEW i \in 1 .. n + r
        PROVE  written'[i] = <<i, Marked(i, n + r)>>
    <3>1. CASE i <= n
      <4>1. i \in 1 .. n
        BY <1>1, <3>1
      <4> QED
        BY <2>5, <4>1, Zenon
    <3>2. CASE ~ (i <= n)
      <4>1. i - n \in 1 .. r /\ i = n + (i - n)
        BY <1>1, <3>2
      <4> QED
        BY <2>6, <4>1
    <3> QED
      BY <3>1, <3>2
  <2>8. \A i \in 1 .. Len(written') : written'[i] = <<i, Marked(i, Len(written'))>>
    BY <2>3, <2>7
  <2> QED
    BY <2>3, <2>8 DEF ContentFits, n, r, Marked, WholeChunks
<1> QED
  BY <1>1, <1>2, <1>3

LEMMA BodyFitsStep ==
  ASSUME FetchInv, [DeezerStreamNext]_deezerStreamVars
  PROVE  BodyFits'
<1> USE DeezerStreamAssumption
<1>0. FetchTyped /\ BodyFits /\ fetch \in FetchState /\ Len(written) \in Nat
  BY DEF FetchInv, FetchTyped
\* What a step keeps that leaves file and offer alone.
<1>1. ASSUME UNCHANGED <<offer, written>>
      PROVE  ContentFits' <=> ContentFits
  BY <1>1 DEF ContentFits, Marked, WholeChunks
<1>2. CASE UNCHANGED <<offer, fetch, written>>
  BY <1>0, <1>1, <1>2 DEF BodyFits
\* Before the file is created, and after it was given up.
<1>3. ASSUME NEW place, FetchGoes(place), UNCHANGED <<offer, written>>,
             \/ fetch.at \in {"data", "media", "open"} /\ place \in {"data", "media", "open", "over", "failed"}
             \/ fetch.at = "read" /\ place = "failed"
             \/ fetch.at = "write" /\ place = "failed"
      PROVE  BodyFits'
  <2>1. fetch' = [fetch EXCEPT !.at = place] /\ fetch'.at = place
    BY <1>0, <1>3 DEF FetchGoes, FetchState
  <2>2. UNCHANGED <<fetch.pos, fetch.buf, fetch.index, fetch.ended>>
    BY <1>0, <2>1 DEF FetchState
  <2> QED
    BY <1>0, <1>3, <2>1, <2>2 DEF BodyFits
<1>4. ASSUME NEW units \in TrackLengths, NEW has \in SUBSET (1 .. Formats), NEW format \in 0 .. Formats,
             NEW fallback \in BOOLEAN, StartTrack(units, has, format, fallback)
      PROVE  BodyFits'
  <2>1. fetch'.at = "data" /\ UNCHANGED <<fetch.pos, fetch.buf, fetch.index, fetch.ended, written>>
    BY <1>0, <1>4 DEF StartTrack, FetchGoes, FetchState
  <2>2. offer'.units \in Nat
    BY <1>4 DEF StartTrack
  <2> QED
    BY <1>0, <1>4, <2>1, <2>2 DEF BodyFits, StartTrack
<1>5. CASE SongData
  BY <1>3, <1>5 DEF SongData
<1>6. CASE getMediaURL
  <2>1. CASE FetchGoes("over")
    BY <1>3, <1>6, <2>1 DEF getMediaURL
  <2>2. CASE ~FetchGoes("over")
    <3>1. fetch'.at \in {"open", "media"} /\ UNCHANGED <<fetch.pos, fetch.buf, fetch.index, fetch.ended, offer, written>>
      BY <1>0, <1>6, <2>2 DEF getMediaURL, FetchState
    <3> QED
      BY <1>0, <1>6, <3>1 DEF BodyFits, getMediaURL
  <2> QED
    BY <2>1, <2>2
<1>7. CASE OpenTrack
  <2>1. CASE FetchGoes("failed") /\ UNCHANGED written
    BY <1>3, <1>7, <2>1 DEF OpenTrack
  <2>2. CASE FetchGoes("read") /\ written' = <<>>
    <3>1. fetch'.at = "read" /\ UNCHANGED <<fetch.pos, fetch.buf, fetch.index, fetch.ended, offer>>
      BY <1>0, <1>7, <2>2 DEF OpenTrack, FetchGoes, FetchState
    <3>2. Len(written') = 0 /\ ContentFits'
      BY <2>2 DEF ContentFits
    <3> QED
      BY <1>0, <1>7, <3>1, <3>2 DEF BodyFits, OpenTrack
  <2> QED
    BY <1>7, <2>1, <2>2 DEF OpenTrack
<1>8. CASE ReadBody
  <2>0. fetch.at = "read" /\ UNCHANGED <<offer, written>> /\ offer.units \in Nat
    BY <1>0, <1>8 DEF ReadBody, FetchTyped
  <2>1. CASE FetchGoes("failed")
    BY <1>3, <2>0, <2>1
  <2>2. ASSUME NEW n \in 1 .. ChunkUnits - fetch.buf, fetch.ended = "no", n <= offer.units - fetch.pos,
               fetch' = [fetch EXCEPT !.pos = @ + n, !.buf = @ + n,
                           !.at = IF fetch.buf + n = ChunkUnits THEN "write" ELSE "read"]
        PROVE  BodyFits'
    <3>1. /\ fetch'.pos = fetch.pos + n /\ fetch'.buf = fetch.buf + n /\ fetch'.index = fetch.index /\ fetch'.ended = "no"
          /\ fetch'.at = IF fetch.buf + n = ChunkUnits THEN "write" ELSE "read"
      BY <1>0, <2>2 DEF FetchState
    <3>2. fetch.pos \in Nat /\ fetch.buf \in Nat /\ fetch.buf + n <= ChunkUnits /\ fetch.pos + n <= offer.units
      BY <1>0, <2>0, <2>2 DEF FetchState
    <3>3. /\ Len(written) + fetch.buf = fetch.pos /\ ContentFits'
          /\ Len(written) = fetch.index * ChunkUnits
      BY <1>0, <1>1, <2>0, <2>2 DEF BodyFits
    <3>4. Len(written') + fetch'.buf = fetch'.pos /\ Len(written') = fetch'.index * ChunkUnits
      BY <1>0, <2>0, <3>1, <3>2, <3>3
    <3>5. /\ fetch'.at \in {"read", "write"} /\ fetch'.pos <= offer'.units /\ fetch'.buf <= ChunkUnits
          /\ fetch'.at = "read" => fetch'.buf < ChunkUnits
          /\ fetch'.at = "write" => fetch'.buf = ChunkUnits
      BY <2>0, <2>2, <3>1, <3>2
    <3> QED
      BY <3>1, <3>3, <3>4, <3>5 DEF BodyFits
  <2>3. CASE fetch' = [fetch EXCEPT !.at = "write",
                         !.ended = IF @ # "no" THEN @ ELSE IF offer.units - fetch.pos = 0 THEN "eof" ELSE "cut"]
    <3>1. /\ UNCHANGED <<fetch.pos, fetch.buf, fetch.index>> /\ fetch'.at = "write" /\ fetch'.ended # "no"
          /\ fetch'.ended = "eof" => fetch.ended = "eof" \/ fetch.pos = offer.units
      BY <1>0, <2>0, <2>3 DEF FetchState
    <3>2. fetch.ended = "eof" => fetch.pos = offer.units
      BY <1>0, <2>0 DEF BodyFits
    <3> QED
      BY <1>0, <1>1, <2>0, <3>1, <3>2 DEF BodyFits
  <2> QED
    BY <1>8, <2>1, <2>2, <2>3 DEF ReadBody
<1>9. CASE WriteChunk
  <2>0. fetch.at = "write" /\ UNCHANGED offer
    BY <1>9 DEF WriteChunk
  <2>1. CASE FetchGoes("failed") /\ UNCHANGED written
    BY <1>3, <2>0, <2>1
  <2>2. CASE ~ (FetchGoes("failed") /\ UNCHANGED written)
    <3>1. written' = written \o [i \in 1 .. fetch.buf |->
                        <<fetch.pos - fetch.buf + i, Deciphered(fetch.index, fetch.buf)>>]
          /\ fetch' = [fetch EXCEPT !.buf = 0, !.index = IF fetch.buf > 0 THEN @ + 1 ELSE @,
                        !.at = IF fetch.ended # "no" /\ ~fetch.first THEN "check" ELSE "loop"]
      BY <1>9, <2>2 DEF WriteChunk
    <3>2. ContentFits' /\ Len(written') = Len(written) + fetch.buf
      BY <2>0, <3>1, ChunkWritten
    <3>3. /\ fetch'.buf = 0 /\ UNCHANGED <<fetch.pos, fetch.ended>>
          /\ fetch'.index = IF fetch.buf > 0 THEN fetch.index + 1 ELSE fetch.index
          /\ fetch'.at = IF fetch.ended # "no" /\ ~fetch.first THEN "check" ELSE "loop"
      BY <1>0, <3>1 DEF FetchState
    <3>4. fetch.ended = "no" => Len(written') = fetch'.index * ChunkUnits
      <4> SUFFICES ASSUME fetch.ended = "no" PROVE Len(written') = fetch'.index * ChunkUnits
        OBVIOUS
      <4>1. fetch.buf = ChunkUnits /\ Len(written) = fetch.index * ChunkUnits /\ fetch.index \in Nat
        BY <1>0, <2>0 DEF BodyFits, FetchState
      <4>2. Len(written') = fetch.index * ChunkUnits + ChunkUnits /\ fetch'.index = fetch.index + 1
        BY <3>2, <3>3, <4>1
      <4> QED
        BY <4>1, <4>2
    <3>5. Len(written') + fetch'.buf = fetch'.pos /\ fetch'.pos <= offer'.units
      BY <1>0, <2>0, <3>2, <3>3 DEF BodyFits, FetchState
    <3>6. fetch'.ended = "eof" => fetch'.pos = offer'.units
      BY <1>0, <2>0, <3>3 DEF BodyFits
    <3> QED
      BY <3>2, <3>3, <3>4, <3>5, <3>6 DEF BodyFits
  <2> QED
    BY <2>1, <2>2
<1>10. CASE NextChunk
  <2>0. fetch.at = "loop" /\ UNCHANGED <<offer, written>>
    BY <1>10 DEF NextChunk
  <2>1. fetch'.at \in {"read", "failed"} /\ UNCHANGED <<fetch.pos, fetch.buf, fetch.index, fetch.ended>>
    BY <1>0, <1>10 DEF NextChunk, FetchState
  <2> QED
    BY <1>0, <1>1, <2>0, <2>1 DEF BodyFits
<1>11. CASE DropTrack
  <2>1. fetch'.at = "over" /\ UNCHANGED <<fetch.pos, fetch.buf, fetch.index, fetch.ended, offer>> /\ written' = NoOutput
    BY <1>0, <1>11 DEF DropTrack, FetchGoes, FetchState
  <2> QED
    BY <1>0, <2>1 DEF BodyFits
<1>12. CASE CheckSize
  <2>1. /\ fetch'.at = "over" /\ UNCHANGED <<fetch.pos, fetch.buf, fetch.index, fetch.ended, offer>>
        /\ written' = NoOutput \/ written' = written
        /\ fetch.at = "check"
    BY <1>0, <1>12 DEF CheckSize, FetchGoes, FetchState
  <2> QED
    BY <1>0, <2>1 DEF BodyFits
<1>13. ASSUME NEW remove \in BOOLEAN, CancelTrack(remove)
       PROVE  BodyFits'
  BY <1>2, <1>13 DEF CancelTrack
<1> QED
  BY <1>2, <1>4, <1>5, <1>6, <1>7, <1>8, <1>9, <1>10, <1>11, <1>12, <1>13 DEF DeezerStreamNext, deezerStreamVars

LEMMA FileFitsStep ==
  ASSUME FetchInv, [DeezerStreamNext]_deezerStreamVars
  PROVE  FileFits'
<1> USE DeezerStreamAssumption
<1>0. FetchTyped /\ BodyFits /\ FileFits /\ fetch \in FetchState /\ Len(written) \in Nat
  BY DEF FetchInv, FetchTyped
<1>1. ASSUME UNCHANGED written
      PROVE  ContentFits' <=> ContentFits
  BY <1>1 DEF ContentFits, Marked, WholeChunks
<1>2. CASE UNCHANGED <<offer, fetch, written>> /\ (dlRecord' = dlRecord \/ dlRecord' # "imported")
  BY <1>0, <1>1, <1>2 DEF FileFits
\* No step but the last one's makes it imported, and before the last the
\* file counts for nothing.
<1>3. FailRow => dlRecord' = dlRecord \/ dlRecord' # "imported"
  BY DEF FailRow, SetRow
<1>4. ASSUME fetch'.at # "over", fetch.at # "over", dlRecord' = dlRecord \/ dlRecord' # "imported"
      PROVE  FileFits'
  BY <1>0, <1>4 DEF FileFits
<1>5. ASSUME NEW place, FetchGoes(place)
      PROVE  fetch'.at = place
  BY <1>0, <1>5 DEF FetchGoes, FetchState
<1>6. ASSUME fetch'.at = "over", fetch.at # "over", dlRecord' = dlRecord \/ dlRecord' # "imported", written' = NoOutput
      PROVE  FileFits'
  BY <1>0, <1>6 DEF FileFits
<1>7. ASSUME NEW units \in TrackLengths, NEW has \in SUBSET (1 .. Formats), NEW format \in 0 .. Formats,
             NEW fallback \in BOOLEAN, StartTrack(units, has, format, fallback)
      PROVE  FileFits'
  BY <1>4, <1>5, <1>7 DEF StartTrack
<1>8. CASE SongData
  <2>1. dlRecord' = dlRecord \/ dlRecord' # "imported"
    BY <1>3, <1>8 DEF SongData
  <2>2. fetch'.at \in {"over", "media"} /\ fetch.at = "data" /\ written' = NoOutput
    BY <1>0, <1>5, <1>8 DEF SongData, BodyFits
  <2> QED
    BY <1>4, <1>6, <2>1, <2>2
<1>9. CASE getMediaURL
  <2>1. dlRecord' = dlRecord \/ dlRecord' # "imported"
    BY <1>3, <1>9 DEF getMediaURL
  <2>2. fetch'.at \in {"over", "media", "open"} /\ fetch.at = "media" /\ written' = NoOutput
    BY <1>0, <1>5, <1>9 DEF getMediaURL, BodyFits, FetchState
  <2> QED
    BY <1>4, <1>6, <2>1, <2>2
<1>10. CASE OpenTrack
  <2>1. dlRecord' = dlRecord \/ dlRecord' # "imported"
    BY <1>10 DEF OpenTrack, SetRow
  <2>2. fetch'.at \in {"failed", "read"} /\ fetch.at = "open"
    BY <1>5, <1>10 DEF OpenTrack
  <2> QED
    BY <1>4, <2>1, <2>2
<1>11. CASE ReadBody
  <2>1. fetch'.at \in {"failed", "read", "write"} /\ fetch.at = "read" /\ UNCHANGED dlRecord
    BY <1>0, <1>5, <1>11 DEF ReadBody, FetchState
  <2> QED
    BY <1>4, <2>1
<1>12. CASE WriteChunk
  <2>1. fetch'.at \in {"failed", "loop", "check"} /\ fetch.at = "write" /\ UNCHANGED dlRecord
    BY <1>0, <1>5, <1>12 DEF WriteChunk, FetchState
  <2> QED
    BY <1>4, <2>1
<1>13. CASE NextChunk
  <2>1. fetch'.at \in {"failed", "read"} /\ fetch.at = "loop" /\ UNCHANGED dlRecord
    BY <1>0, <1>13 DEF NextChunk, FetchState
  <2> QED
    BY <1>4, <2>1
<1>14. CASE DropTrack
  BY <1>3, <1>5, <1>6, <1>14 DEF DropTrack
<1>15. CASE CheckSize
  <2>1. fetch'.at = "over" /\ fetch.at = "check" /\ UNCHANGED <<offer, fetch.ended>>
    BY <1>0, <1>5, <1>15 DEF CheckSize, FetchGoes, FetchState
  <2>2. CASE Len(written) < MinUnits
    BY <1>3, <1>6, <1>15, <2>1, <2>2 DEF CheckSize
  <2>3. CASE ~ (Len(written) < MinUnits)
    <3>1. written' = written
      BY <1>15, <2>3 DEF CheckSize
    <3>2. ContentFits' /\ Len(written') >= MinUnits
      BY <1>0, <1>1, <2>1, <2>3, <3>1 DEF BodyFits
    <3>3. fetch.ended = "cut" \/ Len(written) = offer.units
      BY <1>0, <2>1 DEF BodyFits, FetchState
    <3>4. written # NoOutput
      <4>1. ContentFits
        BY <1>0, <2>1 DEF BodyFits
      <4>2. Len(NoOutput) = 1 /\ NoOutput[1] = <<0, FALSE>>
        BY DEF NoOutput
      <4>3. CASE Len(written) = 1
        <5>1. written[1] = <<1, Marked(1, 1)>>
          BY <4>1, <4>3 DEF ContentFits
        <5>2. written[1] # <<0, FALSE>>
          BY <5>1
        <5> QED
          BY <4>2, <5>2
      <4> QED
        BY <4>2, <4>3
    <3> QED
      BY <2>1, <3>1, <3>2, <3>3, <3>4 DEF FileFits
  <2> QED
    BY <2>2, <2>3
<1>16. ASSUME NEW remove \in BOOLEAN, CancelTrack(remove)
       PROVE  FileFits'
  BY <1>2, <1>16 DEF CancelTrack
<1> QED
  BY <1>2, <1>7, <1>8, <1>9, <1>10, <1>11, <1>12, <1>13, <1>14, <1>15, <1>16 DEF DeezerStreamNext, deezerStreamVars

LEMMA FetchInvStep ==
  ASSUME FetchInv, [DeezerStreamNext]_deezerStreamVars
  PROVE  FetchInv'
BY FetchTypedStep, ChoiceFitsStep, BodyFitsStep, FileFitsStep DEF FetchInv

LEMMA ChosenIsNearest == FetchInv => NearestFormat
<1> SUFFICES ASSUME FetchInv, fetch.format # 0
             PROVE  /\ \A q \in offer.has \ refused : Distance(fetch.format) <= Distance(q)
                    /\ wish.fallback \/ Distance(fetch.format) = 0
  BY DEF NearestFormat
<1> USE DeezerStreamAssumption
<1>0. FetchTyped /\ ChoiceFits /\ From \in 1 .. Formats /\ fetch.ask \in Nat
  BY OrderedFormats DEF FetchInv, FetchTyped, FetchState
<1>1. /\ fetch.ask >= 1 /\ fetch.ask <= Len(MediaOrder) /\ fetch.format = MediaOrder[fetch.ask]
      /\ \A k \in 1 .. fetch.ask - 1 : MediaOrder[k] \in refused
  BY <1>0 DEF ChoiceFits
<1>2. \A q : Distance(q) = IF q >= From THEN q - From ELSE Formats + q
  BY DEF Distance, From
<1>3. \A q \in 1 .. Formats : Distance(q) >= 0
  BY <1>0, <1>2
<1>4. CASE ~wish.fallback
  <2>1. fetch.format = From
    <3>1. Len(MediaOrder) = 1 /\ MediaOrder[1] = From
      BY <1>0, <1>4, OrderedFormats
    <3>2. fetch.ask = 1
      BY <1>0, <1>1, <3>1
    <3> QED
      BY <1>1, <3>1, <3>2
  <2>2. Distance(fetch.format) = 0
    BY <1>0, <1>2, <2>1
  <2>3. \A q \in offer.has : q \in 1 .. Formats
    BY <1>0 DEF FetchTyped
  <2> QED
    BY <1>3, <2>2, <2>3
<1>5. CASE wish.fallback
  <2>1. Len(MediaOrder) = Formats /\ \A k \in 1 .. Formats : MediaOrder[k] = InOrder(k)
    BY <1>0, <1>5, OrderedFormats
  <2>2. \A k \in 1 .. Formats : Distance(InOrder(k)) = IF From + k - 1 <= Formats THEN k - 1 ELSE From + k - 1
    <3> SUFFICES ASSUME NEW k \in 1 .. Formats
                 PROVE  Distance(InOrder(k)) = IF From + k - 1 <= Formats THEN k - 1 ELSE From + k - 1
      OBVIOUS
    <3>1. CASE From + k - 1 <= Formats
      <4>1. InOrder(k) = From + k - 1
        BY <3>1 DEF InOrder
      <4> QED
        BY <1>0, <1>2, <3>1, <4>1
    <3>2. CASE ~ (From + k - 1 <= Formats)
      <4>1. InOrder(k) = From + k - 1 - Formats
        BY <3>2 DEF InOrder
      <4> QED
        BY <1>0, <1>2, <3>2, <4>1
    <3> QED
      BY <3>1, <3>2
  <2>3. ASSUME NEW q \in offer.has \ refused
        PROVE  Distance(fetch.format) <= Distance(q)
    <3> DEFINE j == IF q >= From THEN q - From + 1 ELSE q - From + 1 + Formats
    <3>1. q \in 1 .. Formats
      BY <1>0 DEF FetchTyped
    <3>2. j \in 1 .. Formats /\ q = InOrder(j)
      BY <1>0, <3>1 DEF InOrder
    <3> HIDE DEF j
    <3>3. ~ (j < fetch.ask)
      BY <1>0, <1>1, <2>1, <3>2
    <3>4. fetch.ask \in 1 .. Formats /\ fetch.ask <= j
      BY <1>0, <1>1, <2>1, <3>2, <3>3
    <3>5. Distance(fetch.format) = IF From + fetch.ask - 1 <= Formats THEN fetch.ask - 1 ELSE From + fetch.ask - 1
      BY <1>1, <2>1, <2>2, <3>4
    <3>6. Distance(q) = IF From + j - 1 <= Formats THEN j - 1 ELSE From + j - 1
      BY <2>2, <3>2
    <3> QED
      BY <1>0, <3>2, <3>4, <3>5, <3>6
  <2> QED
    BY <1>5, <2>3
<1> QED
  BY <1>4, <1>5

LEMMA KeptFilePlays == FetchInv => LeftoverPlays
<1> SUFFICES ASSUME FetchInv, fetch.at = "over", written # NoOutput
             PROVE  /\ Len(written) >= MinUnits
                    /\ fetch.ended = "cut" \/ Len(written) = offer.units
                    /\ \A i \in 1 .. Len(written) :
                         /\ written[i][1] = i
                         /\ i <= WholeChunks(Len(written)) \/ fetch.ended # "cut" => written[i][2] = Encrypted(i)
  BY DEF LeftoverPlays, FetchInv, FileFits
<1> USE DeezerStreamAssumption
<1> DEFINE n == Len(written)
<1>0. /\ n \in Nat /\ ContentFits /\ n >= MinUnits /\ n <= offer.units /\ offer.units \in Nat
      /\ fetch.ended = "cut" \/ n = offer.units
  BY DEF FetchInv, FetchTyped, FetchState, BodyFits, FileFits
<1>1. ASSUME NEW i \in 1 .. n
      PROVE  /\ written[i][1] = i
             /\ i <= WholeChunks(n) \/ fetch.ended # "cut" => written[i][2] = Encrypted(i)
  <2> DEFINE w == WholeChunks(n)
             q == n \div ChunkUnits
             k == (i - 1) \div ChunkUnits
  <2>1. w \in Nat /\ n - ChunkUnits < w /\ w <= n /\ w = q * ChunkUnits /\ q \in Nat
    BY <1>0, WholeChunksOf
  <2>2. /\ k \in Nat /\ (i - 1) % ChunkUnits \in 0 .. ChunkUnits - 1 /\ i \in Nat
        /\ i - 1 = k * ChunkUnits + ((i - 1) % ChunkUnits)
    BY <1>0
  <2>3. k * ChunkUnits \in Nat /\ k * ChunkUnits < i /\ i <= k * ChunkUnits + ChunkUnits
        /\ (k + 1) * ChunkUnits = k * ChunkUnits + ChunkUnits
    BY <2>2
  <2>4. written[i] = <<i, Marked(i, n)>>
    BY <1>0 DEF ContentFits
  <2>5. Encrypted(i) = Ciphered(k, IF (k + 1) * ChunkUnits <= offer.units THEN ChunkUnits ELSE 1)
    BY DEF Encrypted
  <2>6. Marked(i, n) = (k % 3 = 0 /\ i <= w)
    BY DEF Marked
  <2> HIDE DEF n, w, q, k
  <2>7. CASE i <= w
    <3>1. k + 1 <= q
      <4> SUFFICES ASSUME k + 1 > q PROVE FALSE
        BY <2>1, <2>2
      <4>1. k - q \in Nat /\ k = q + (k - q)
        BY <2>1, <2>2
      <4>2. k * ChunkUnits = q * ChunkUnits + (k - q) * ChunkUnits /\ (k - q) * ChunkUnits >= 0
        BY <2>1, <4>1
      <4>3. k * ChunkUnits >= q * ChunkUnits
        <5>1. q * ChunkUnits \in Int /\ k * ChunkUnits \in Int /\ (k - q) * ChunkUnits \in Int
          BY <2>1, <2>2, <4>1
        <5> QED
          BY <4>2, <5>1
      <4> QED
        BY <2>1, <2>2, <2>3, <2>7, <4>3
    <3>2. (k + 1) * ChunkUnits <= w
      <4>1. q - (k + 1) \in Nat /\ q = (k + 1) + (q - (k + 1))
        BY <2>1, <2>2, <3>1
      <4>2. q * ChunkUnits = (k + 1) * ChunkUnits + (q - (k + 1)) * ChunkUnits /\ (q - (k + 1)) * ChunkUnits >= 0
        BY <2>1, <2>2, <4>1
      <4>3. q * ChunkUnits \in Int /\ (k + 1) * ChunkUnits \in Int /\ (q - (k + 1)) * ChunkUnits \in Int
        BY <2>1, <2>2
      <4> QED
        BY <2>1, <4>2, <4>3
    <3>3. (k + 1) * ChunkUnits <= offer.units
      BY <1>0, <2>1, <2>3, <3>2 DEF n
    <3>4. Encrypted(i) = (k % 3 = 0) /\ Marked(i, n) = (k % 3 = 0)
      BY <2>5, <2>6, <2>7, <3>3 DEF Ciphered
    <3> QED
      BY <2>4, <3>4
  <2>8. CASE ~ (i <= w) /\ fetch.ended # "cut"
    <3>1. n = offer.units
      BY <1>0, <2>8 DEF n
    <3>2. ChunkUnits # 1
      <4> SUFFICES ASSUME ChunkUnits = 1 PROVE FALSE
        OBVIOUS
      <4>1. w = n
        BY <1>0, <2>1 DEF n
      <4> QED
        BY <1>0, <2>8, <4>1 DEF n
    <3>3. k >= q
      <4> SUFFICES ASSUME k + 1 <= q PROVE FALSE
        BY <2>1, <2>2
      <4>1. q - (k + 1) \in Nat /\ q = (k + 1) + (q - (k + 1))
        BY <2>1, <2>2
      <4>2. q * ChunkUnits = (k + 1) * ChunkUnits + (q - (k + 1)) * ChunkUnits /\ (q - (k + 1)) * ChunkUnits >= 0
        BY <2>1, <2>2, <4>1
      <4> QED
        BY <2>1, <2>2, <2>3, <2>8, <4>2
    <3>4. k * ChunkUnits >= w
      <4>1. k - q \in Nat /\ k = q + (k - q)
        BY <2>1, <2>2, <3>3
      <4>2. k * ChunkUnits = q * ChunkUnits + (k - q) * ChunkUnits /\ (k - q) * ChunkUnits >= 0
        BY <2>1, <2>2, <4>1
      <4>3. q * ChunkUnits \in Int /\ k * ChunkUnits \in Int /\ (k - q) * ChunkUnits \in Int
        BY <2>1, <2>2
      <4> QED
        BY <2>1, <4>2, <4>3
    <3>5. ~ ((k + 1) * ChunkUnits <= offer.units)
      BY <1>0, <2>1, <2>3, <3>1, <3>4 DEF n
    <3>6. Encrypted(i) = Marked(i, n)
      BY <2>5, <2>6, <2>8, <3>2, <3>5 DEF Ciphered
    <3> QED
      BY <2>4, <3>6
  <2> QED
    BY <2>4, <2>7, <2>8 DEF w
<1> QED
  BY <1>0, <1>1

-----------------------------------------------------------------------------
(* Both downloads in the composition *)

LEMMA TransferScenes ==
  ASSUME [ProvidersNext]_<<scene, providers>>
  PROVE  /\ [StreamNext]_streamVars /\ [DeezerStreamNext]_deezerStreamVars
         /\ [SlskdNext]_slskdVars /\ [SlskdSearchNext]_slskdSearchVars
<1>1. CASE UNCHANGED <<scene, providers>>
  BY <1>1 DEF providers
<1>2. CASE ProvidersNext
  BY <1>2 DEF ProvidersNext, CooldownScene, RateScene, TokenScene, StreamScene, SlskdScene, SlskdsearchScene,
    AlbumimportScene, DeezerloginScene, DeezerScene, EnrichmentScene, LibraryScene
<1> QED
  BY <1>1, <1>2

LEMMA StreamInvHolds == ProvidersSpec => []StreamInv
<1>1. ProvidersInit => StreamInv
  BY StreamInvInit DEF ProvidersInit
<1>2. StreamInv /\ [ProvidersNext]_<<scene, providers>> => StreamInv'
  BY TransferScenes, StreamInvStep
<1> QED
  BY <1>1, <1>2, PTL DEF ProvidersSpec

LEMMA FetchInvHolds == ProvidersSpec => []FetchInv
<1>1. ProvidersInit => FetchInv
  BY FetchInvInit DEF ProvidersInit
<1>2. FetchInv /\ [ProvidersNext]_<<scene, providers>> => FetchInv'
  BY TransferScenes, FetchInvStep
<1> QED
  BY <1>1, <1>2, PTL DEF ProvidersSpec

\* However the prefetch of segments, reads that fail and a Cancel interleave,
\* a Tidal download ends as imported only with every segment in its file,
\* once and in order (stream_reader.go, client.go downloadSync).
THEOREM ImportedAlwaysWhole == ProvidersSpec => []ImportedIsWhole
<1>1. StreamInv => ImportedIsWhole
  BY DEF StreamInv, OutputFits, ImportedIsWhole
<1> QED
  BY <1>1, StreamInvHolds, PTL

\* What a download leaves on disk is what the provider sent: Tidal's segments
\* as above, Deezer's chunks from the first on, deciphered where they are
\* enciphered and all of them unless the connection broke off; and Deezer was
\* asked for the nearest quality that could be had.
THEOREM DownloadsAlwaysWhole == ProvidersSpec => []DownloadsWhole
<1>1. StreamInv => ImportedIsWhole
  BY DEF StreamInv, OutputFits, ImportedIsWhole
<1>2. StreamInv /\ FetchInv => DownloadsWhole
  BY <1>1, ChosenIsNearest, KeptFilePlays DEF DownloadsWhole
<1> QED
  BY <1>2, StreamInvHolds, FetchInvHolds, PTL

-----------------------------------------------------------------------------
(* A Soulseek search *)

SearchTyped ==
  /\ replies \in Seq(Replies)
  /\ seenResponses \in 0 .. Len(replies) /\ usableResponses \in Nat /\ usableResponses <= seenResponses
  /\ stop \in {"no", "quiet", "enough", "timeout"}
SearchInv == SearchTyped /\ ResultsCovered

\* Results is a union over the replies of a batch.
LEMMA ResultsUnion ==
  ASSUME NEW b, NEW c, NEW d, Range(d) = Range(b) \cup Range(c)
  PROVE  Results(d) = Results(b) \cup Results(c)
BY DEF Results

LEMMA SeenAndNew ==
  ASSUME NEW S, NEW s \in Seq(S), NEW k \in 0 .. Len(s)
  PROVE  /\ Range(SubSeq(s, 1, Len(s))) = Range(SubSeq(s, 1, k)) \cup Range(SubSeq(s, k + 1, Len(s)))
         /\ Len(SubSeq(s, k + 1, Len(s))) = Len(s) - k /\ SubSeq(s, k + 1, Len(s)) \in Seq(S)
<1> DEFINE all == SubSeq(s, 1, Len(s))  old == SubSeq(s, 1, k)  new == SubSeq(s, k + 1, Len(s))
<1>1. /\ DOMAIN all = 1 .. Len(s) /\ \A i \in 1 .. Len(s) : all[i] = s[i]
      /\ DOMAIN old = 1 .. k /\ \A i \in 1 .. k : old[i] = s[i]
  OBVIOUS
<1>2. /\ new \in Seq(S) /\ Len(new) = Len(s) - k /\ DOMAIN new = 1 .. Len(s) - k
      /\ \A i \in 1 .. Len(s) - k : new[i] = s[k + i]
  OBVIOUS
<1> HIDE DEF all, old, new
<1>3. \A x : x \in Range(all) <=> x \in Range(old) \/ x \in Range(new)
  <2> SUFFICES ASSUME NEW x PROVE x \in Range(all) <=> x \in Range(old) \/ x \in Range(new)
    OBVIOUS
  <2>1. ASSUME x \in Range(all) PROVE x \in Range(old) \/ x \in Range(new)
    <3>1. PICK i \in 1 .. Len(s) : x = s[i]
      BY <1>1, <2>1 DEF Range
    <3>2. CASE i <= k
      BY <1>1, <3>1, <3>2 DEF Range
    <3>3. CASE ~ (i <= k)
      <4>1. i - k \in 1 .. Len(s) - k /\ k + (i - k) = i
        BY <3>3
      <4>2. x = new[i - k]
        BY <1>2, <3>1, <4>1
      <4> QED
        BY <1>2, <4>1, <4>2 DEF Range
    <3> QED
      BY <3>2, <3>3
  <2>2. ASSUME x \in Range(old) PROVE x \in Range(all)
    BY <1>1, <2>2 DEF Range
  <2>3. ASSUME x \in Range(new) PROVE x \in Range(all)
    <3>1. PICK i \in 1 .. Len(s) - k : x = s[k + i]
      BY <1>2, <2>3 DEF Range
    <3>2. k + i \in 1 .. Len(s)
      OBVIOUS
    <3> QED
      BY <1>1, <3>1, <3>2 DEF Range
  <2> QED
    BY <2>1, <2>2, <2>3
<1> QED
  BY <1>2, <1>3 DEF all, old, new

\* A batch loses no file name: a single track that is left out has the name
\* of a track of an album.
LEMMA BatchCovered ==
  ASSUME NEW results
  PROVE  /\ Singles(results) \cup UNION AlbumsOf(results) \subseteq results
         /\ \A t \in results : \E u \in Singles(results) \cup UNION AlbumsOf(results) : Filename(u) = Filename(t)
<1>1. Singles(results) \subseteq results
  BY DEF Singles
<1>2. UNION AlbumsOf(results) \subseteq results
  BY DEF AlbumsOf, Grouped
<1>3. ASSUME NEW t \in results
      PROVE  \E u \in Singles(results) \cup UNION AlbumsOf(results) : Filename(u) = Filename(t)
  BY <1>3 DEF Singles
<1> QED
  BY <1>1, <1>2, <1>3

LEMMA SearchInvInit == SlskdSearchInit => SearchInv
<1> SUFFICES ASSUME SlskdSearchInit PROVE SearchInv
  OBVIOUS
<1>1. SearchTyped
  BY EmptyJoined DEF SlskdSearchInit, SearchTyped
<1>2. Range(SubSeq(replies, 1, seenResponses)) = {}
  BY DEF SlskdSearchInit, Range
<1>3. ResultsCovered
  BY <1>2 DEF SlskdSearchInit, ResultsCovered, Results
<1> QED
  BY <1>1, <1>3 DEF SearchInv

LEMMA SearchInvStep ==
  ASSUME SearchInv, [SlskdSearchNext]_slskdSearchVars
  PROVE  SearchInv'
<1> USE SearchAssumption
<1> DEFINE offered == Results(SubSeq(replies, 1, seenResponses))
           found == allTracks \cup UNION allAlbums
<1>0. /\ SearchTyped /\ Len(replies) \in Nat /\ seenResponses \in Nat
      /\ found \subseteq offered
      /\ \A t \in offered : \E u \in found : Filename(u) = Filename(t)
      /\ stop \in {"quiet", "enough"} => usableResponses > 0
  BY DEF SearchInv, SearchTyped, ResultsCovered
<1>1. CASE UNCHANGED slskdSearchVars
  BY <1>1 DEF SearchInv, SearchTyped, ResultsCovered, slskdSearchVars
\* The steps that hear nothing new.
<1>2. ASSUME UNCHANGED <<seenResponses, usableResponses, allTracks, allAlbums>>,
             SubSeq(replies', 1, seenResponses) = SubSeq(replies, 1, seenResponses),
             stop' \in {"quiet", "enough"} => usableResponses > 0
      PROVE  ResultsCovered'
  BY <1>0, <1>2 DEF ResultsCovered
<1>3. ASSUME NEW r \in Replies, ReplyArrives(r)
      PROVE  SearchInv'
  <2>1. replies' = Append(replies, r) /\ UNCHANGED <<seenResponses, usableResponses, allTracks, allAlbums, stop>>
    BY <1>3 DEF ReplyArrives
  <2>2. replies' \in Seq(Replies) /\ Len(replies') = Len(replies) + 1
    BY <1>0, <2>1 DEF SearchTyped
  <2>3. SubSeq(replies', 1, seenResponses) = SubSeq(replies, 1, seenResponses)
    <3>1. replies \in Seq(Replies) /\ seenResponses \in 0 .. Len(replies)
      BY <1>0 DEF SearchTyped
    <3>2. \A i \in 1 .. seenResponses : replies'[i] = replies[i]
      BY <2>1, <3>1
    <3> QED
      BY <2>2, <3>1, <3>2
  <2>4. ResultsCovered'
    BY <1>0, <1>2, <2>1, <2>3
  <2>5. SearchTyped'
    BY <1>0, <2>1, <2>2 DEF SearchTyped
  <2> QED
    BY <2>4, <2>5 DEF SearchInv
<1>4. CASE TickNothingNew \/ SearchContextDone
  <2>1. ResultsCovered'
    BY <1>0, <1>2, <1>4 DEF TickNothingNew, SearchContextDone, SearchTyped
  <2>2. SearchTyped'
    BY <1>0, <1>4 DEF TickNothingNew, SearchContextDone, SearchTyped
  <2> QED
    BY <2>1, <2>2 DEF SearchInv
<1>5. CASE TickNew
  <2> DEFINE batch == SubSeq(replies, seenResponses + 1, Len(replies))
             results == Results(batch)
             heard == {i \in DOMAIN batch : usableResponse(batch[i])}
  <2>1. /\ seenResponses' = Len(replies) /\ usableResponses' = usableResponses + Cardinality(heard)
        /\ allTracks' = allTracks \cup Singles(results) /\ allAlbums' = allAlbums \cup AlbumsOf(results)
        /\ stop' = IF usableResponses' >= EnoughPeers THEN "enough" ELSE "no"
        /\ UNCHANGED replies
    BY <1>5 DEF TickNew
  <2>2. /\ replies \in Seq(Replies) /\ seenResponses \in 0 .. Len(replies)
        /\ Range(SubSeq(replies, 1, Len(replies))) = Range(SubSeq(replies, 1, seenResponses)) \cup Range(batch)
        /\ Len(batch) = Len(replies) - seenResponses /\ batch \in Seq(Replies)
    BY <1>0, SeenAndNew DEF SearchTyped
  <2>3. Cardinality(heard) \in Nat /\ Cardinality(heard) <= Len(batch)
    <3>1. DOMAIN batch = 1 .. Len(batch) /\ Len(batch) \in Nat
      BY <2>2
    <3>2. IsFiniteSet(1 .. Len(batch)) /\ Cardinality(1 .. Len(batch)) = Len(batch)
      <4> DEFINE m == Len(batch)
      <4> HIDE DEF m
      <4>1. m \in Nat
        BY <3>1 DEF m
      <4>2. IsFiniteSet(1 .. m) /\ Cardinality(1 .. m) = IF 1 > m THEN 0 ELSE m - 1 + 1
        BY <4>1, FS_Interval
      <4>3. Cardinality(1 .. m) = m
        BY <4>1, <4>2
      <4> QED
        BY <4>2, <4>3 DEF m
    <3>3. heard \subseteq 1 .. Len(batch)
      BY <3>1
    <3> QED
      BY <3>2, <3>3, FS_Subset, FS_CardinalityType
  <2> HIDE DEF heard
  <2>4. SearchTyped'
    BY <1>0, <2>1, <2>2, <2>3 DEF SearchTyped
  <2>5. Results(SubSeq(replies', 1, seenResponses')) = offered \cup results
    BY <2>1, <2>2, ResultsUnion
  <2> HIDE DEF results, offered
  <2>6. found' = found \cup Singles(results) \cup UNION AlbumsOf(results)
    BY <2>1
  <2>7. /\ found' \subseteq offered \cup results
        /\ \A t \in offered \cup results : \E u \in found' : Filename(u) = Filename(t)
    BY <1>0, <2>6, BatchCovered
  <2>8. stop' \in {"quiet", "enough"} => usableResponses' > 0
    BY <1>0, <2>1, <2>3 DEF SearchTyped
  <2>9. ResultsCovered'
    BY <2>5, <2>7, <2>8 DEF ResultsCovered
  <2> QED
    BY <2>4, <2>9 DEF SearchInv
<1> QED
  BY <1>1, <1>3, <1>4, <1>5 DEF SlskdSearchNext

-----------------------------------------------------------------------------
(* Soulseek's transfers *)

RecordStates == {"queued", "downloading", "imported", "failed", "ignored"}

(* slskd numbers what it takes from one on.                                *)
TransferState == [peer : Peers, file : PeerFiles, flags : Underway \cup Ended, listed : BOOLEAN]
TransfersTyped ==
  /\ \E k \in Nat : DOMAIN transfers = 1 .. k
  /\ transfers = [n \in DOMAIN transfers |-> transfers[n]]
  /\ \A n \in DOMAIN transfers : transfers[n] \in TransferState

(* Of the transfers ts: a number stands for the transfer of that number,   *)
(* of the file f; a name for a file.                                       *)
Stands(id, f, ts) ==
  \/ id.number \in DOMAIN ts /\ id = RealId(id.number) /\ ts[id.number].file = f
  \/ id = NameId(f)

(* What is kept of a transfer: of the file its id stands for, and only one *)
(* that succeeded is taken for imported.                                   *)
RecordFits(rec, ts) ==
  /\ Stands(rec.id, rec.name.file, ts) /\ rec.state \in RecordStates
  /\ rec.state = "imported" => rec.id.number \in DOMAIN ts /\ "succeeded" \in ts[rec.id.number].flags

MapsFit ==
  /\ \A i \in DOMAIN slskdDownloads : slskdDownloads[i].id = i /\ RecordFits(slskdDownloads[i], transfers)
  /\ \A i \in DOMAIN askedFor : Stands(i, askedFor[i], transfers)
  /\ DOMAIN downloadUsernames \subseteq DOMAIN slskdDownloads
  /\ \A i \in DOMAIN askedFor : i \in DOMAIN slskdDownloads \/ i \in retired

StartingFits(s, ts) ==
  \/ s = NotStarting
  \/ s.at = "lookup" /\ s.file \in PeerFiles
  \/ s.at = "named" /\ s.file \in PeerFiles /\ Stands(s.id, s.file, ts)

(* What a poller carries was true when it was read and still is.           *)
CallFits(c, ts) ==
  \/ c = NotPolling
  \/ c.at = "list"
  \/ c.at \in {"match", "keep"} /\ \A rec \in c.list : RecordFits(rec, ts)
  \/ c.at = "moved" /\ RecordFits(c.rec, ts)

SlskdInv ==
  /\ TransfersTyped /\ MapsFit /\ StartingFits(starting, transfers)
  /\ poll = [p \in Pollers |-> poll[p]] /\ \A p \in Pollers : CallFits(poll[p], transfers)

(* slskd forgets no transfer, nor what it is of, nor that it succeeded.    *)
Later(ts, us) ==
  \A n \in DOMAIN ts :
    /\ n \in DOMAIN us /\ us[n].file = ts[n].file
    /\ "succeeded" \in ts[n].flags => "succeeded" \in us[n].flags

LEMMA FitsLater ==
  ASSUME NEW ts, NEW us, Later(ts, us)
  PROVE  /\ \A id, f : Stands(id, f, ts) => Stands(id, f, us)
         /\ \A rec : RecordFits(rec, ts) => RecordFits(rec, us)
         /\ \A s : StartingFits(s, ts) => StartingFits(s, us)
         /\ \A c : CallFits(c, ts) => CallFits(c, us)
<1>1. ASSUME NEW id, NEW f, Stands(id, f, ts) PROVE Stands(id, f, us)
  BY <1>1 DEF Later, Stands
<1>2. ASSUME NEW rec, RecordFits(rec, ts) PROVE RecordFits(rec, us)
  <2>1. Stands(rec.id, rec.name.file, us)
    BY <1>1, <1>2 DEF RecordFits
  <2> QED
    BY <1>2, <2>1 DEF RecordFits, Later
<1>3. ASSUME NEW s, StartingFits(s, ts) PROVE StartingFits(s, us)
  BY <1>1, <1>3 DEF StartingFits
<1>4. ASSUME NEW c, CallFits(c, ts) PROVE CallFits(c, us)
  BY <1>2, <1>4 DEF CallFits
<1> QED
  BY <1>1, <1>2, <1>3, <1>4

LEMMA SlskdInvInit == SlskdInit => SlskdInv
<1> SUFFICES ASSUME SlskdInit PROVE SlskdInv
  OBVIOUS
<1> USE DEF SlskdInit, Clear
<1>1. TransfersTyped
  <2>1. DOMAIN << >> = 1 .. 0
    OBVIOUS
  <2> QED
    BY <2>1 DEF TransfersTyped
<1>2. MapsFit
  BY DEF MapsFit
<1>3. StartingFits(starting, transfers) /\ \A p \in Pollers : CallFits(poll[p], transfers)
  BY DEF StartingFits, CallFits
<1> QED
  BY <1>1, <1>2, <1>3 DEF SlskdInv

\* Every step keeps what is known of the transfers.
LEMMA TransfersLater ==
  ASSUME SlskdInv, [SlskdNext]_slskdVars
  PROVE  TransfersTyped' /\ Later(transfers, transfers')
<1>0. TransfersTyped
  BY DEF SlskdInv
<1>1. CASE UNCHANGED transfers
  BY <1>0, <1>1 DEF TransfersTyped, Later
\* A step of one transfer that was under way, or that keeps its flags.
<1>2. ASSUME NEW n \in DOMAIN transfers, NEW t \in TransferState, transfers' = [transfers EXCEPT ![n] = t],
             t.file = transfers[n].file, transfers[n].flags \in Underway \/ t.flags = transfers[n].flags
      PROVE  TransfersTyped' /\ Later(transfers, transfers')
  <2>1. DOMAIN transfers' = DOMAIN transfers
        /\ \A m \in DOMAIN transfers : transfers'[m] = IF m = n THEN t ELSE transfers[m]
    BY <1>0, <1>2 DEF TransfersTyped
  <2>2. transfers' = [m \in DOMAIN transfers' |-> transfers'[m]]
    BY <1>2
  <2>3. "succeeded" \in transfers[n].flags => "succeeded" \in t.flags
    BY <1>2 DEF Underway
  <2> QED
    BY <1>0, <1>2, <2>1, <2>2, <2>3 DEF TransfersTyped, Later
<1>3. ASSUME NEW peer \in Peers, NEW f \in PeerFiles, PostDownload(peer, f)
      PROVE  TransfersTyped' /\ Later(transfers, transfers')
  <2>1. PICK k \in Nat : DOMAIN transfers = 1 .. k
    BY <1>0 DEF TransfersTyped
  <2>2. Cardinality(DOMAIN transfers) = k
    <3>1. Cardinality(1 .. k) = IF 1 > k THEN 0 ELSE k - 1 + 1
      BY FS_Interval
    <3> QED
      BY <2>1, <3>1
  <2> DEFINE t == [peer |-> peer, file |-> f, flags |-> {"queued"}, listed |-> TRUE]
  <2>3. transfers' = [m \in DOMAIN transfers \cup {k + 1} |-> IF m = k + 1 THEN t ELSE transfers[m]]
    BY <1>3, <2>2 DEF PostDownload, Bound
  <2>4. t \in TransferState
    BY DEF TransferState, Underway
  <2> HIDE DEF t
  <2>5. k + 1 \notin DOMAIN transfers /\ k + 1 \in Nat /\ DOMAIN transfers' = 1 .. k + 1
    BY <2>1, <2>3
  <2>6. \A m \in 1 .. k : m \in DOMAIN transfers' /\ transfers'[m] = transfers[m]
    BY <2>1, <2>3
  <2>7. transfers'[k + 1] = t
    BY <2>3
  <2>8. Later(transfers, transfers')
    BY <2>1, <2>6 DEF Later
  <2>9. \A m \in DOMAIN transfers' : transfers'[m] \in TransferState
    <3> SUFFICES ASSUME NEW m \in 1 .. k + 1 PROVE transfers'[m] \in TransferState
      BY <2>5
    <3>1. CASE m = k + 1
      BY <2>4, <2>7, <3>1
    <3>2. CASE m # k + 1
      <4>1. m \in 1 .. k
        BY <3>2
      <4> QED
        BY <1>0, <2>1, <2>6, <4>1 DEF TransfersTyped
    <3> QED
      BY <3>1, <3>2
  <2>10. transfers' = [m \in DOMAIN transfers' |-> transfers'[m]]
    BY <2>3
  <2> QED
    BY <2>5, <2>8, <2>9, <2>10 DEF TransfersTyped
<1>4. ASSUME NEW n \in DOMAIN transfers, TransferMoves(n)
      PROVE  TransfersTyped' /\ Later(transfers, transfers')
  <2>1. PICK flags \in Underway \cup Ended : transfers' = [transfers EXCEPT ![n].flags = flags]
    BY <1>4 DEF TransferMoves
  <2> DEFINE t == [transfers[n] EXCEPT !.flags = flags]
  <2>2. t \in TransferState /\ t.file = transfers[n].file
    BY <1>0 DEF TransfersTyped, TransferState
  <2>3. transfers' = [transfers EXCEPT ![n] = t]
    BY <2>1
  <2> HIDE DEF t
  <2>4. transfers[n].flags \in Underway
    BY <1>4 DEF TransferMoves
  <2> QED
    BY <1>2, <2>2, <2>3, <2>4
<1>5. ASSUME NEW n \in DOMAIN transfers, TransferCleanedUp(n)
      PROVE  TransfersTyped' /\ Later(transfers, transfers')
  <2> DEFINE t == [transfers[n] EXCEPT !.listed = FALSE]
  <2>1. t \in TransferState /\ t.file = transfers[n].file /\ t.flags = transfers[n].flags
    BY <1>0 DEF TransfersTyped, TransferState
  <2>2. transfers' = [transfers EXCEPT ![n] = t]
    BY <1>5 DEF TransferCleanedUp
  <2> HIDE DEF t
  <2> QED
    BY <1>2, <2>1, <2>2
<1>6. ASSUME NEW id \in DOMAIN askedFor, NEW remove \in BOOLEAN, CancelDownload(id, remove)
      PROVE  TransfersTyped' /\ Later(transfers, transfers')
  <2> DEFINE n == id.number
             t == Stopped(transfers[n], remove)
  <2>1. n \in DOMAIN transfers /\ transfers' = [transfers EXCEPT ![n] = t]
    BY <1>6 DEF CancelDownload, Listed
  <2>2. transfers[n] \in TransferState
    BY <1>0, <2>1 DEF TransfersTyped
  <2>3. t \in TransferState /\ t.file = transfers[n].file
    BY <2>2 DEF TransferState, Ended, Stopped
  <2>4. transfers[n].flags \in Underway \/ t.flags = transfers[n].flags
    BY <2>2 DEF TransferState, Stopped
  <2> HIDE DEF t, n
  <2> QED
    BY <1>2, <2>1, <2>2, <2>3, <2>4
<1> QED
  <2>1. CASE UNCHANGED slskdVars
    BY <1>1, <2>1 DEF slskdVars
  <2>2. CASE findDownloadIDByFilename \/ RegisterDownload \/ ClearCompleted
    BY <1>1, <2>2 DEF findDownloadIDByFilename, RegisterDownload, ClearCompleted
  <2>3. CASE \E p \in Pollers : \/ ListDownloads(p) \/ MatchById(p) \/ ReadCachedName(p) \/ updateDownloadID(p)
                                \/ GetDownloads(p) \/ KeepList(p)
                                \/ \E id \in DOMAIN askedFor : trySingleEndpoint(p, id)
    BY <1>1, <2>3 DEF ListDownloads, MatchById, ReadCachedName, updateDownloadID, GetDownloads, KeepList, trySingleEndpoint
  <2> QED
    BY <1>3, <1>4, <1>5, <1>6, <2>1, <2>2, <2>3 DEF SlskdNext

\* What is parsed from a transfer fits it.
LEMMA ParsedFits ==
  ASSUME TransfersTyped, NEW n \in DOMAIN transfers
  PROVE  /\ RecordFits(parseSingleDownload(n), transfers)
         /\ parseSingleDownload(n).id = RealId(n)
<1> DEFINE rec == parseSingleDownload(n)
<1>1. transfers[n] \in TransferState
  BY DEF TransfersTyped
<1>2. rec.id = RealId(n) /\ rec.id.number = n /\ rec.state = parseState(transfers[n].flags)
  BY DEF parseSingleDownload, RealId
<1>3. rec.name.file = transfers[n].file
  <2>1. rec.name = [[file |-> transfers[n].file, back |-> transfers[n].file \in Backslashed] EXCEPT !.back = FALSE]
    BY DEF parseSingleDownload, normalizedFilename, RawName
  <2> QED
    BY <2>1
<1>4. transfers[n].flags \in Underway \cup Ended
  BY <1>1 DEF TransferState
<1>5. parseState(transfers[n].flags) \in RecordStates
  BY <1>4 DEF parseState, RecordStates
<1>6. parseState(transfers[n].flags) = "imported" => "succeeded" \in transfers[n].flags
  <2>1. CASE transfers[n].flags \in Underway
    BY <2>1 DEF parseState, Underway
  <2>2. CASE transfers[n].flags = {"completed", "errored"} \/ transfers[n].flags = {"completed", "cancelled"}
    BY <2>2 DEF parseState
  <2>3. CASE transfers[n].flags = {"completed", "succeeded"}
    BY <2>3
  <2> QED
    BY <1>4, <2>1, <2>2, <2>3 DEF Ended
<1> HIDE DEF rec
<1> QED
  BY <1>2, <1>3, <1>5, <1>6 DEF RecordFits, Stands, rec

\* An id stands for one file.
LEMMA StandsOnce ==
  ASSUME TransfersTyped, NEW id, NEW f, NEW g, Stands(id, f, transfers), Stands(id, g, transfers)
  PROVE  f = g
<1>1. 0 \notin DOMAIN transfers
  BY DEF TransfersTyped
<1> QED
  BY <1>1 DEF Stands, NameId, RealId

LEMMA CachedFits ==
  ASSUME MapsFit, NEW rec, RecordFits(rec, transfers)
  PROVE  /\ DOMAIN slskdDownloads \subseteq DOMAIN Cached(rec)
         /\ rec.id \in DOMAIN Cached(rec)
         /\ \A i \in DOMAIN Cached(rec) : Cached(rec)[i].id = i /\ RecordFits(Cached(rec)[i], transfers)
BY DEF MapsFit, Cached, Bound

\* A record moved to another key and written there leaves every other be.
LEMMA MovedUnder ==
  ASSUME NEW map, NEW old, NEW new, NEW rec, NEW after, after = Bound(Moved(map, old, new), new, rec)
  PROVE  /\ \A i \in DOMAIN map : i # old => i \in DOMAIN after
         /\ \A i \in DOMAIN after :
              /\ i = new \/ i \in DOMAIN map
              /\ after[i] = IF i = new THEN rec ELSE map[i]
         /\ new \in DOMAIN after
<1>1. CASE old \in DOMAIN map
  <2> DEFINE rest == Without(map, {old})
             m == Bound(rest, new, map[old])
  <2>1. DOMAIN rest = DOMAIN map \ {old} /\ \A i \in DOMAIN rest : rest[i] = map[i]
    BY DEF Without
  <2> HIDE DEF rest
  <2>2. DOMAIN m = DOMAIN rest \cup {new} /\ \A i \in DOMAIN m : m[i] = IF i = new THEN map[old] ELSE rest[i]
    BY DEF Bound
  <2>3. after = Bound(m, new, rec)
    BY <1>1 DEF Moved, rest
  <2> HIDE DEF m
  <2> QED
    BY <2>1, <2>2, <2>3 DEF Bound
<1>2. CASE old \notin DOMAIN map
  BY <1>2 DEF Moved, Bound
<1> QED
  BY <1>1, <1>2

LEMMA MapsFitStep ==
  ASSUME SlskdInv, [SlskdNext]_slskdVars
  PROVE  MapsFit'
<1>0. /\ TransfersTyped /\ MapsFit /\ StartingFits(starting, transfers)
      /\ \A p \in Pollers : CallFits(poll[p], transfers)
  BY DEF SlskdInv
<1>1. /\ \A id, f : Stands(id, f, transfers) => Stands(id, f, transfers')
      /\ \A rec : RecordFits(rec, transfers) => RecordFits(rec, transfers')
  BY TransfersLater, FitsLater
\* The maps stand still.
<1>2. CASE UNCHANGED <<slskdDownloads, downloadUsernames, askedFor, retired>>
  BY <1>0, <1>1, <1>2 DEF MapsFit
\* A record is put into the map.
<1>3. ASSUME NEW rec, RecordFits(rec, transfers), cacheRecord(rec), UNCHANGED <<transfers, downloadUsernames, askedFor, retired>>
      PROVE  MapsFit'
  <2>1. /\ slskdDownloads' = Cached(rec)
        /\ DOMAIN slskdDownloads \subseteq DOMAIN slskdDownloads'
        /\ \A i \in DOMAIN slskdDownloads' : slskdDownloads'[i].id = i /\ RecordFits(slskdDownloads'[i], transfers)
    BY <1>0, <1>3, CachedFits DEF cacheRecord
  <2> QED
    BY <1>0, <1>3, <2>1 DEF MapsFit
<1>4. CASE RegisterDownload
  <2> DEFINE rec == [id |-> starting.id, name |-> RawName(starting.file), state |-> "queued"]
  <2>1. Stands(starting.id, starting.file, transfers) /\ starting.at = "named"
    BY <1>0, <1>4 DEF RegisterDownload, StartingFits, NotStarting
  <2>2. RecordFits(rec, transfers) /\ rec.id = starting.id
    <3>1. rec.name.file = starting.file /\ rec.id = starting.id /\ rec.state = "queued"
      BY DEF RawName
    <3> HIDE DEF rec
    <3> QED
      BY <2>1, <3>1 DEF RecordFits, RecordStates
  <2>3. /\ slskdDownloads' = Cached(rec)
        /\ downloadUsernames' = Bound(downloadUsernames, starting.id, starting.peer)
        /\ askedFor' = Bound(askedFor, starting.id, starting.file)
        /\ retired' = retired \ {starting.id} /\ UNCHANGED transfers
    BY <1>4 DEF RegisterDownload
  <2> HIDE DEF rec
  <2>4. /\ DOMAIN slskdDownloads \subseteq DOMAIN slskdDownloads' /\ starting.id \in DOMAIN slskdDownloads'
        /\ \A i \in DOMAIN slskdDownloads' : slskdDownloads'[i].id = i /\ RecordFits(slskdDownloads'[i], transfers)
    BY <1>0, <2>2, <2>3, CachedFits
  <2>5. /\ DOMAIN askedFor' = DOMAIN askedFor \cup {starting.id}
        /\ \A i \in DOMAIN askedFor' : askedFor'[i] = IF i = starting.id THEN starting.file ELSE askedFor[i]
        /\ DOMAIN downloadUsernames' = DOMAIN downloadUsernames \cup {starting.id}
    BY <2>3 DEF Bound
  <2>6. \A i \in DOMAIN askedFor' : Stands(i, askedFor'[i], transfers)
    BY <1>0, <2>1, <2>5 DEF MapsFit
  <2>7. DOMAIN downloadUsernames' \subseteq DOMAIN slskdDownloads'
    BY <1>0, <2>4, <2>5 DEF MapsFit
  <2>8. \A i \in DOMAIN askedFor' : i \in DOMAIN slskdDownloads' \/ i \in retired'
    BY <1>0, <2>3, <2>4, <2>5 DEF MapsFit
  <2> QED
    BY <2>3, <2>4, <2>6, <2>7, <2>8 DEF MapsFit
\* Records are removed from both maps.
<1>5. ASSUME NEW ids, Forget(ids), UNCHANGED askedFor
      PROVE  MapsFit'
  <2>1. /\ DOMAIN slskdDownloads' = DOMAIN slskdDownloads \ ids
        /\ \A i \in DOMAIN slskdDownloads' : slskdDownloads'[i] = slskdDownloads[i]
        /\ DOMAIN downloadUsernames' = DOMAIN downloadUsernames \ ids
        /\ retired' = retired \cup ids
    BY <1>5 DEF Forget, Without
  <2>2. \A i \in DOMAIN slskdDownloads' : slskdDownloads'[i].id = i /\ RecordFits(slskdDownloads'[i], transfers')
    BY <1>0, <1>1, <2>1 DEF MapsFit
  <2>3. \A i \in DOMAIN askedFor' : Stands(i, askedFor'[i], transfers')
    BY <1>0, <1>1, <1>5 DEF MapsFit
  <2>4. DOMAIN downloadUsernames' \subseteq DOMAIN slskdDownloads'
    BY <1>0, <2>1 DEF MapsFit
  <2>5. \A i \in DOMAIN askedFor' : i \in DOMAIN slskdDownloads' \/ i \in retired'
    BY <1>0, <1>5, <2>1 DEF MapsFit
  <2> QED
    BY <2>2, <2>3, <2>4, <2>5 DEF MapsFit
<1>6. ASSUME NEW p \in Pollers, NEW id \in DOMAIN askedFor, trySingleEndpoint(p, id)
      PROVE  MapsFit'
  <2>1. CASE id.number \in Listed /\ cacheRecord(parseSingleDownload(id.number))
    <3>1. RecordFits(parseSingleDownload(id.number), transfers)
      BY <1>0, <2>1, ParsedFits DEF Listed
    <3> QED
      BY <1>3, <1>6, <2>1, <3>1 DEF trySingleEndpoint
  <2>2. CASE UNCHANGED slskdDownloads
    BY <1>2, <1>6, <2>2 DEF trySingleEndpoint
  <2> QED
    BY <1>6, <2>1, <2>2 DEF trySingleEndpoint
<1>7. ASSUME NEW p \in Pollers, MatchById(p)
      PROVE  MapsFit'
  <2>1. PICK rec \in poll[p].list : cacheRecord(rec)
    BY <1>7 DEF MatchById
  <2>2. RecordFits(rec, transfers)
    BY <1>0, <1>7 DEF MatchById, CallFits, NotPolling
  <2> QED
    BY <1>3, <1>7, <2>1, <2>2 DEF MatchById
<1>8. ASSUME NEW p \in Pollers, updateDownloadID(p)
      PROVE  MapsFit'
  <2> DEFINE old == poll[p].id  new == poll[p].rec.id  rec == poll[p].rec
  <2>1. RecordFits(rec, transfers)
    BY <1>0, <1>8 DEF updateDownloadID, CallFits, NotPolling
  <2>2. /\ slskdDownloads' = Bound(Moved(slskdDownloads, old, new), new, rec)
        /\ downloadUsernames' = Moved(downloadUsernames, old, new)
        /\ retired' = retired \cup {old} /\ UNCHANGED <<transfers, askedFor>> /\ rec.id = new
    BY <1>8 DEF updateDownloadID
  <2> HIDE DEF old, new, rec
  <2>3. /\ \A i \in DOMAIN slskdDownloads : i # old => i \in DOMAIN slskdDownloads'
        /\ \A i \in DOMAIN slskdDownloads' :
             /\ i = new \/ i \in DOMAIN slskdDownloads
             /\ slskdDownloads'[i] = IF i = new THEN rec ELSE slskdDownloads[i]
        /\ new \in DOMAIN slskdDownloads'
    BY <2>2, MovedUnder
  <2>4. \A i \in DOMAIN slskdDownloads' : slskdDownloads'[i].id = i /\ RecordFits(slskdDownloads'[i], transfers)
    BY <1>0, <2>1, <2>2, <2>3 DEF MapsFit
  <2>5. DOMAIN downloadUsernames' \subseteq DOMAIN slskdDownloads'
    <3>1. CASE old \in DOMAIN downloadUsernames
      <4>1. DOMAIN downloadUsernames' = (DOMAIN downloadUsernames \ {old}) \cup {new}
        BY <2>2, <3>1 DEF Moved, Bound, Without
      <4> QED
        BY <1>0, <2>3, <4>1 DEF MapsFit
    <3>2. CASE old \notin DOMAIN downloadUsernames
      <4>1. downloadUsernames' = downloadUsernames
        BY <2>2, <3>2 DEF Moved
      <4> QED
        BY <1>0, <2>3, <3>2, <4>1 DEF MapsFit
    <3> QED
      BY <3>1, <3>2
  <2>6. \A i \in DOMAIN askedFor' : i \in DOMAIN slskdDownloads' \/ i \in retired'
    BY <1>0, <2>2, <2>3 DEF MapsFit
  <2> QED
    BY <1>0, <2>2, <2>4, <2>5, <2>6 DEF MapsFit
<1>9. ASSUME NEW p \in Pollers, KeepList(p)
      PROVE  MapsFit'
  <2> DEFINE list == poll[p].list
             heard == {r.id : r \in list}
  <2>1. \A rec \in list : RecordFits(rec, transfers)
    BY <1>0, <1>9 DEF KeepList, CallFits, NotPolling
  <2>2. /\ slskdDownloads' = [i \in DOMAIN slskdDownloads \cup heard |->
             IF i \in heard THEN CHOOSE r \in list : r.id = i ELSE slskdDownloads[i]]
        /\ UNCHANGED <<transfers, downloadUsernames, askedFor, retired>>
    BY <1>9 DEF KeepList
  <2>3. ASSUME NEW i \in heard
        PROVE  (CHOOSE r \in list : r.id = i) \in list /\ (CHOOSE r \in list : r.id = i).id = i
    <3>1. \E r \in list : r.id = i
      OBVIOUS
    <3> HIDE DEF list, heard
    <3> QED
      BY <3>1
  <2> HIDE DEF list, heard
  <2>4. ASSUME NEW i \in DOMAIN slskdDownloads'
        PROVE  slskdDownloads'[i].id = i /\ RecordFits(slskdDownloads'[i], transfers)
    <3>1. CASE i \in heard
      BY <2>1, <2>2, <2>3, <3>1
    <3>2. CASE i \notin heard
      BY <1>0, <2>2, <3>2 DEF MapsFit
    <3> QED
      BY <3>1, <3>2
  <2> QED
    BY <1>0, <2>2, <2>4 DEF MapsFit
<1> QED
  <2>1. CASE UNCHANGED slskdVars
    BY <1>2, <2>1 DEF slskdVars
  <2>2. ASSUME NEW peer \in Peers, NEW f \in PeerFiles, PostDownload(peer, f)
        PROVE  MapsFit'
    BY <1>2, <2>2 DEF PostDownload
  <2>3. CASE findDownloadIDByFilename
    BY <1>2, <2>3 DEF findDownloadIDByFilename
  <2>4. CASE ClearCompleted
    BY <1>5, <2>4 DEF ClearCompleted
  <2>5. ASSUME NEW n \in DOMAIN transfers, TransferMoves(n) \/ TransferCleanedUp(n)
        PROVE  MapsFit'
    BY <1>2, <2>5 DEF TransferMoves, TransferCleanedUp
  <2>6. ASSUME NEW id \in DOMAIN askedFor, NEW remove \in BOOLEAN, CancelDownload(id, remove)
        PROVE  MapsFit'
    BY <1>2, <1>5, <2>6 DEF CancelDownload
  <2>7. ASSUME NEW p \in Pollers, ListDownloads(p) \/ ReadCachedName(p) \/ GetDownloads(p)
        PROVE  MapsFit'
    BY <1>2, <2>7 DEF ListDownloads, ReadCachedName, GetDownloads
  <2> QED
    BY <1>4, <1>6, <1>7, <1>8, <1>9, <2>1, <2>2, <2>3, <2>4, <2>5, <2>6, <2>7 DEF SlskdNext

LEMMA CallsFitStep ==
  ASSUME SlskdInv, [SlskdNext]_slskdVars
  PROVE  /\ StartingFits(starting', transfers')
         /\ poll' = [p \in Pollers |-> poll'[p]] /\ \A p \in Pollers : CallFits(poll'[p], transfers')
<1>0. /\ TransfersTyped /\ MapsFit /\ StartingFits(starting, transfers)
      /\ \A p \in Pollers : CallFits(poll[p], transfers)
      /\ poll = [p \in Pollers |-> poll[p]]
  BY DEF SlskdInv
<1>1. /\ \A s : StartingFits(s, transfers) => StartingFits(s, transfers')
      /\ \A c : CallFits(c, transfers) => CallFits(c, transfers')
  BY TransfersLater, FitsLater
<1> DEFINE PollsFit == poll' = [p \in Pollers |-> poll'[p]] /\ \A p \in Pollers : CallFits(poll'[p], transfers')
<1>2. UNCHANGED starting => StartingFits(starting', transfers')
  BY <1>0, <1>1
<1>3. UNCHANGED poll => PollsFit
  BY <1>0, <1>1
<1>4. ASSUME NEW p \in Pollers, NEW c, Polls(p, c), CallFits(c, transfers)
      PROVE  PollsFit
  <2>1. poll' = [q \in Pollers |-> IF q = p THEN c ELSE poll[q]]
    BY <1>0, <1>4 DEF Polls
  <2> QED
    BY <1>0, <1>1, <1>4, <2>1
<1>5. CallFits(NotPolling, transfers)
  BY DEF CallFits
<1>6. ASSUME NEW list, NEW at \in {"match", "keep"}, NEW id, list = {parseSingleDownload(n) : n \in Listed}
      PROVE  CallFits([at |-> at, id |-> id, list |-> list], transfers) /\ CallFits([at |-> at, list |-> list], transfers)
  <2>1. \A rec \in list : RecordFits(rec, transfers)
    BY <1>0, <1>6, ParsedFits DEF Listed
  <2> QED
    BY <1>6, <2>1 DEF CallFits
<1> HIDE DEF PollsFit
<1>7. ASSUME NEW p \in Pollers, ListDownloads(p)
      PROVE  PollsFit
  <2> DEFINE list == {parseSingleDownload(n) : n \in Listed}
  <2>1. CallFits([at |-> "match", id |-> poll[p].id, list |-> list], transfers)
    BY <1>6
  <2>2. Polls(p, [at |-> "match", id |-> poll[p].id, list |-> list]) \/ Polls(p, NotPolling)
    BY <1>7 DEF ListDownloads
  <2> QED
    BY <1>4, <1>5, <2>1, <2>2
<1>8. ASSUME NEW p \in Pollers, GetDownloads(p)
      PROVE  PollsFit
  <2> DEFINE list == {parseSingleDownload(n) : n \in Listed}
  <2>1. CallFits([at |-> "keep", list |-> list], transfers)
    BY <1>6
  <2>2. Polls(p, [at |-> "keep", list |-> list])
    BY <1>8 DEF GetDownloads
  <2> QED
    BY <1>4, <2>1, <2>2
<1>9. ASSUME NEW p \in Pollers, ReadCachedName(p)
      PROVE  PollsFit
  <2>1. CASE Polls(p, NotPolling)
    BY <1>4, <1>5, <2>1
  <2>2. ASSUME NEW rec \in poll[p].list, Polls(p, [at |-> "moved", id |-> poll[p].id, rec |-> rec])
        PROVE  PollsFit
    <3>1. RecordFits(rec, transfers)
      BY <1>0, <1>9, <2>2 DEF ReadCachedName, CallFits, NotPolling
    <3>2. CallFits([at |-> "moved", id |-> poll[p].id, rec |-> rec], transfers)
      BY <3>1 DEF CallFits
    <3> QED
      BY <1>4, <2>2, <3>2
  <2> QED
    BY <1>9, <2>1, <2>2 DEF ReadCachedName
<1>10. ASSUME NEW p \in Pollers, MatchById(p) \/ updateDownloadID(p) \/ KeepList(p)
       PROVE  PollsFit
  BY <1>4, <1>5, <1>10 DEF MatchById, updateDownloadID, KeepList
<1>11. ASSUME NEW p \in Pollers, NEW id \in DOMAIN askedFor, trySingleEndpoint(p, id)
       PROVE  PollsFit
  <2>1. CallFits([at |-> "list", id |-> id], transfers)
    BY DEF CallFits
  <2> QED
    BY <1>3, <1>4, <1>11, <2>1 DEF trySingleEndpoint
<1>12. ASSUME NEW peer \in Peers, NEW f \in PeerFiles, PostDownload(peer, f)
       PROVE  StartingFits(starting', transfers')
  <2> DEFINE n == Cardinality(DOMAIN transfers) + 1
  <2>1. starting' = [at |-> "named", id |-> RealId(n), peer |-> peer, file |-> f]
        \/ starting' = [at |-> "lookup", peer |-> peer, file |-> f]
    BY <1>12 DEF PostDownload
  <2>2. n \in DOMAIN transfers' /\ transfers'[n].file = f
    BY <1>12 DEF PostDownload, Bound
  <2> HIDE DEF n
  <2>3. Stands(RealId(n), f, transfers')
    BY <2>2 DEF Stands, RealId
  <2> QED
    BY <1>12, <2>1, <2>3 DEF StartingFits
<1>13. ASSUME findDownloadIDByFilename
       PROVE  StartingFits(starting', transfers')
  <2>1. PICK id \in {RealId(n) : n \in {m \in DOMAIN transfers : transfers[m].file = starting.file}} \cup {NameId(starting.file)} :
          starting' = [at |-> "named", id |-> id, peer |-> starting.peer, file |-> starting.file]
    BY <1>13 DEF findDownloadIDByFilename
  <2>2. Stands(id, starting.file, transfers)
    <3>1. CASE id = NameId(starting.file)
      BY <3>1 DEF Stands
    <3>2. CASE \E n \in DOMAIN transfers : transfers[n].file = starting.file /\ id = RealId(n)
      BY <3>2 DEF Stands, RealId
    <3> QED
      BY <2>1, <3>1, <3>2
  <2>3. starting.file \in PeerFiles
    BY <1>0, <1>13 DEF findDownloadIDByFilename, StartingFits, NotStarting
  <2>4. PICK s : s = [at |-> "named", id |-> id, peer |-> starting.peer, file |-> starting.file]
    OBVIOUS
  <2>5. StartingFits(s, transfers)
    BY <2>2, <2>3, <2>4 DEF StartingFits
  <2>6. UNCHANGED transfers /\ starting' = s
    BY <1>13, <2>1, <2>4 DEF findDownloadIDByFilename
  <2> QED
    BY <2>5, <2>6
<1>14. ASSUME RegisterDownload
       PROVE  StartingFits(starting', transfers') /\ PollsFit
  <2>1. StartingFits(starting', transfers')
    BY <1>14 DEF RegisterDownload, StartingFits
  <2>2. PollsFit
    BY <1>3, <1>14 DEF RegisterDownload
  <2> QED
    BY <2>1, <2>2 DEF PollsFit
<1> QED
  <2>1. CASE UNCHANGED slskdVars
    BY <1>2, <1>3, <2>1 DEF slskdVars, PollsFit
  <2>2. ASSUME NEW p \in Pollers,
               \/ ListDownloads(p) \/ MatchById(p) \/ ReadCachedName(p) \/ updateDownloadID(p)
               \/ GetDownloads(p) \/ KeepList(p) \/ \E id \in DOMAIN askedFor : trySingleEndpoint(p, id)
        PROVE  StartingFits(starting', transfers') /\ PollsFit
    <3>1. UNCHANGED starting
      BY <2>2 DEF ListDownloads, MatchById, ReadCachedName, updateDownloadID, GetDownloads, KeepList, trySingleEndpoint
    <3> QED
      BY <1>2, <1>7, <1>8, <1>9, <1>10, <1>11, <2>2, <3>1
  <2>3. ASSUME NEW peer \in Peers, NEW f \in PeerFiles, PostDownload(peer, f)
        PROVE  StartingFits(starting', transfers') /\ PollsFit
    BY <1>3, <1>12, <2>3 DEF PostDownload
  <2>4. CASE findDownloadIDByFilename
    BY <1>3, <1>13, <2>4 DEF findDownloadIDByFilename, PollsFit
  <2>5. CASE ClearCompleted
    BY <1>2, <1>3, <2>5 DEF ClearCompleted, PollsFit
  <2>6. ASSUME NEW n \in DOMAIN transfers, TransferMoves(n) \/ TransferCleanedUp(n)
        PROVE  StartingFits(starting', transfers') /\ PollsFit
    BY <1>2, <1>3, <2>6 DEF TransferMoves, TransferCleanedUp
  <2>7. ASSUME NEW id \in DOMAIN askedFor, NEW remove \in BOOLEAN, CancelDownload(id, remove)
        PROVE  StartingFits(starting', transfers') /\ PollsFit
    BY <1>2, <1>3, <2>7 DEF CancelDownload
  <2> QED
    BY <1>14, <2>1, <2>2, <2>3, <2>4, <2>5, <2>6, <2>7 DEF SlskdNext, PollsFit

LEMMA SlskdInvStep == SlskdInv /\ [SlskdNext]_slskdVars => SlskdInv'
<1> SUFFICES ASSUME SlskdInv, [SlskdNext]_slskdVars PROVE SlskdInv'
  OBVIOUS
<1>1. TransfersTyped'
  BY TransfersLater
<1>2. MapsFit'
  BY MapsFitStep
<1>3. /\ StartingFits(starting', transfers')
      /\ poll' = [p \in Pollers |-> poll'[p]] /\ \A p \in Pollers : CallFits(poll'[p], transfers')
  BY CallsFitStep
<1> QED
  BY <1>1, <1>2, <1>3 DEF SlskdInv

LEMMA SlskdInvHolds == ProvidersSpec => []SlskdInv
<1>1. ProvidersInit => SlskdInv
  BY SlskdInvInit DEF ProvidersInit
<1>2. SlskdInv /\ [ProvidersNext]_<<scene, providers>> => SlskdInv'
  BY SlskdInvStep, TransferScenes
<1> QED
  BY <1>1, <1>2, PTL DEF ProvidersSpec

LEMMA SearchInvHolds == ProvidersSpec => []SearchInv
<1>1. ProvidersInit => SearchInv
  BY SearchInvInit DEF ProvidersInit
<1>2. SearchInv /\ [ProvidersNext]_<<scene, providers>> => SearchInv'
  BY SearchInvStep, TransferScenes
<1> QED
  BY <1>1, <1>2, PTL DEF ProvidersSpec

LEMMA FollowedIfFits == SlskdInv => TransfersFollowed
<1> SUFFICES ASSUME SlskdInv PROVE TransfersFollowed
  OBVIOUS
<1>1. TransfersTyped /\ MapsFit
  BY DEF SlskdInv
<1>2. ASSUME NEW i \in DOMAIN askedFor \cap DOMAIN slskdDownloads
      PROVE  slskdDownloads[i].name.file = askedFor[i]
  <2>1. Stands(i, askedFor[i], transfers) /\ Stands(i, slskdDownloads[i].name.file, transfers)
    BY <1>1 DEF MapsFit, RecordFits
  <2> QED
    BY <1>1, <2>1, StandsOnce
<1>3. ASSUME NEW i \in DOMAIN slskdDownloads, slskdDownloads[i].state = "imported"
      PROVE  i.number > 0 /\ "succeeded" \in transfers[i.number].flags
  <2>1. i.number \in DOMAIN transfers /\ "succeeded" \in transfers[i.number].flags
    BY <1>1, <1>3 DEF MapsFit, RecordFits
  <2>2. PICK k \in Nat : DOMAIN transfers = 1 .. k
    BY <1>1 DEF TransfersTyped
  <2> QED
    BY <2>1, <2>2
<1> QED
  BY <1>1, <1>2, <1>3 DEF MapsFit, TransfersFollowed

(* Whatever slskd, the polls, the listings, cancels and replaced ids do:   *)
(* what the Soulseek client answers of a download is of the file it was    *)
(* asked for, a download is imported only when slskd's transfer succeeded, *)
(* and a search offers each audio file name of a usable peer, and nothing  *)
(* that no peer offered.                                                   *)
THEOREM SoulseekAlwaysSound == ProvidersSpec => []SoulseekSound
<1>1. SlskdInv /\ SearchInv => SoulseekSound
  BY FollowedIfFits DEF SoulseekSound, SearchInv
<1> QED
  BY <1>1, SlskdInvHolds, SearchInvHolds, PTL

-----------------------------------------------------------------------------
(* An album's import: the matches of a folder's files                      *)

\* A set of numbers has a least one.
LEMMA LeastNumber == ASSUME NEW S \in SUBSET Nat, S # {} PROVE Min(S) \in S /\ \A y \in S : Min(S) <= y
<1> DEFINE R == {ss \in Nat \X Nat : ss[1] < ss[2]}
<1>1. IsWellFoundedOn(R, Nat)
  BY NatLessThanWellFounded DEF OpToRel
<1> HIDE DEF R
<1>2. PICK x \in S : \A y \in S : ~(<<y, x>> \in R)
  BY <1>1, WFMin
<1>3. ASSUME NEW y \in S PROVE x <= y
  <2>1. x \in Nat /\ y \in Nat /\ ~(<<y, x>> \in R)
    BY <1>2
  <2>2. y < x => <<y, x>> \in R
    BY <2>1 DEF R
  <2> QED
    BY <2>1, <2>2
<1>4. \E z \in S : \A y \in S : z <= y
  BY <1>3
<1> QED
  BY <1>4 DEF Min

\* What holds of 0 and is handed on from number to number holds up to n.
StepOver(files, folder, expected, acc, i) ==
  IF files[i].file \in folder THEN MatchFile(expected, acc, files[i]) ELSE acc
NothingMatched == [tracked |-> {}, out |-> <<>>]

(* The matching of a list is the matching of its beginnings.               *)
LEMMA MatchedSteps ==
  ASSUME NEW files, NEW folder, NEW expected, Len(files) \in Nat
  PROVE  LET M == Matched(files, folder, expected) IN
         /\ M[0] = NothingMatched
         /\ \A i \in 1 .. Len(files) : M[i] = StepOver(files, folder, expected, M[i - 1], i)
<1> DEFINE Over(acc, i) == StepOver(files, folder, expected, acc, i)
           Q(n, g) == g = [i \in 0 .. n |-> IF i = 0 THEN NothingMatched ELSE Over(g[i - 1], i)]
           M == Matched(files, folder, expected)
<1>1. M = CHOOSE g : Q(Len(files), g)
  BY DEF Matched, StepOver, NothingMatched
<1> HIDE DEF Over
<1>2. ASSUME NEW n \in Nat PROVE \E g : Q(n, g)
  <2> DEFINE S == {k \in Nat : ~ \E g : Q(k, g)}
  <2> SUFFICES ASSUME S # {} PROVE FALSE
    OBVIOUS
  <2>1. PICK k \in S : \A y \in S : k <= y
    BY LeastNumber
  <2>2. CASE k = 0
    <3> DEFINE g == [i \in 0 .. 0 |-> NothingMatched]
    <3>1. Q(0, g)
      OBVIOUS
    <3> QED
      BY <2>1, <2>2, <3>1
  <2>3. CASE k > 0
    <3>1. k \in Nat /\ k - 1 \in Nat /\ ~ (k <= k - 1) /\ \A y \in S : k <= y
      BY <2>1, <2>3
    <3>2. PICK h : Q(k - 1, h)
      <4> HIDE DEF Q
      <4>1. k - 1 \notin S
        <5> HIDE DEF S
        <5> QED
          BY <3>1
      <4> QED
        BY <3>1, <4>1
    <3> DEFINE g == [i \in 0 .. k |-> IF i = k THEN Over(h[k - 1], k) ELSE h[i]]
    <3>3. ASSUME NEW i \in 0 .. k
          PROVE  g[i] = IF i = 0 THEN NothingMatched ELSE Over(g[i - 1], i)
      <4>1. i < k => g[i] = h[i] /\ h[i] = (IF i = 0 THEN NothingMatched ELSE Over(h[i - 1], i))
        BY <3>2, <2>1
      <4>2. i > 0 => g[i - 1] = h[i - 1]
        BY <2>1, <2>3
      <4>3. i = k => g[i] = Over(h[k - 1], k)
        OBVIOUS
      <4> QED
        BY <4>1, <4>2, <4>3, <2>1, <2>3
    <3>4. Q(k, g)
      BY <3>3
    <3> QED
      BY <2>1, <3>4
  <2> QED
    BY <2>1, <2>2, <2>3
<1>3. Q(Len(files), M)
  <2> HIDE DEF Q
  <2> QED
    BY <1>1, <1>2
<1>4. M[0] = NothingMatched
  BY <1>3
<1>5. \A i \in 1 .. Len(files) : M[i] = Over(M[i - 1], i)
  BY <1>3
<1> QED
  BY <1>4, <1>5 DEF Over

(* Track n of regular tracks is the one that bears the number n.           *)
LEMMA NumberedRegular ==
  ASSUME NEW expected, Len(expected) \in Nat, DOMAIN expected = 1 .. Len(expected),
         Regular(expected), NEW n \in Nat
  PROVE  IF n \in DOMAIN expected THEN Numbered(expected, n) # {} /\ Max(Numbered(expected, n)) = n
         ELSE Numbered(expected, n) = {}
<1>1. CASE n \in DOMAIN expected
  <2>1. Numbered(expected, n) = {n}
    BY <1>1 DEF Numbered, Regular
  <2>2. Max({n}) = n
    BY DEF Max
  <2> QED
    BY <1>1, <2>1, <2>2
<1>2. CASE n \notin DOMAIN expected
  BY <1>2 DEF Numbered, Regular
<1> QED
  BY <1>1, <1>2

(* A match of the file f: with a track that is given away, or under the    *)
(* file's own name, which no track has that could still be given.          *)
TrackOf(m, f, expected, tracked) ==
  /\ m.num \in DOMAIN expected /\ m.title = expected[m.num].title /\ m.num \in tracked
  /\ f.num = m.num \/ (f.num = 0 /\ f.clean = m.title)
OwnOf(m, f, expected, tracked) ==
  m.num = f.num /\ m.title = f.clean /\ (m.num \notin DOMAIN expected \/ m.num \in tracked)
GivenTo(m, f, expected, tracked) ==
  m.file = f.file /\ (TrackOf(m, f, expected, tracked) \/ OwnOf(m, f, expected, tracked))

\* The matches of a list's first i files.
MatchesApart(out) ==
  \A k, l \in 1 .. Len(out) : k # l => out[k].file # out[l].file /\ TargetPath(out[k]) # TargetPath(out[l])
MatchesFit(files, folder, expected, acc, i) ==
  /\ Len(acc.out) \in Nat /\ acc.out = [k \in 1 .. Len(acc.out) |-> acc.out[k]]
  /\ \A k \in 1 .. Len(acc.out) : \E j \in 1 .. i :
       files[j].file \in folder /\ GivenTo(acc.out[k], files[j], expected, acc.tracked)
  /\ MatchesApart(acc.out)

\* What NamesApart says of files and tracks.
FilesApart(files, expected) ==
  \A i, j \in DOMAIN files : i < j =>
    /\ files[i].file # files[j].file
    /\ files[i].num = files[j].num => files[i].clean # files[j].clean
    /\ files[j].num \in DOMAIN expected /\ files[j].clean = expected[files[j].num].title =>
         files[i].num # files[j].num /\ ~ (files[i].num = 0 /\ files[i].clean = files[j].clean)

(* One more match of a file that comes after the others'.                  *)
LEMMA OneMoreMatch ==
  ASSUME NEW files, NEW folder, NEW expected, NEW acc, NEW tracked, NEW m, NEW i \in Nat,
         DOMAIN files = 1 .. Len(files), Len(files) \in Nat, i + 1 \in DOMAIN files,
         FilesApart(files, expected), 0 \notin DOMAIN expected,
         MatchesFit(files, folder, expected, acc, i), acc.tracked \subseteq tracked,
         files[i + 1].file \in folder, GivenTo(m, files[i + 1], expected, tracked),
         \/ TrackOf(m, files[i + 1], expected, tracked) /\ m.num \notin acc.tracked
         \/ OwnOf(m, files[i + 1], expected, tracked)
  PROVE  MatchesFit(files, folder, expected, [tracked |-> tracked, out |-> Append(acc.out, m)], i + 1)
<1> DEFINE out == Append(acc.out, m)
           n == Len(acc.out)
<1>1. n \in Nat /\ acc.out = [k \in 1 .. n |-> acc.out[k]]
  BY DEF MatchesFit
<1>2. /\ Len(out) = n + 1 /\ out = [k \in 1 .. n + 1 |-> out[k]] /\ out[n + 1] = m
      /\ \A k \in 1 .. n : out[k] = acc.out[k]
  BY <1>1
<1>3. ASSUME NEW k \in 1 .. n
      PROVE  /\ \E j \in 1 .. i : files[j].file \in folder /\ GivenTo(acc.out[k], files[j], expected, tracked)
             /\ acc.out[k].file # m.file /\ TargetPath(acc.out[k]) # TargetPath(m)
  <2>1. PICK j \in 1 .. i : files[j].file \in folder /\ GivenTo(acc.out[k], files[j], expected, acc.tracked)
    BY <1>3 DEF MatchesFit
  <2>2. PICK c : c = acc.out[k]
    OBVIOUS
  <2>3. PICK f : f = files[j]
    OBVIOUS
  <2>4. PICK g : g = files[i + 1]
    OBVIOUS
  <2>5. GivenTo(c, f, expected, tracked)
    BY <2>1, <2>2, <2>3 DEF GivenTo, TrackOf, OwnOf
  <2>6. /\ f.file # g.file
        /\ f.num = g.num => f.clean # g.clean
        /\ g.num \in DOMAIN expected /\ g.clean = expected[g.num].title =>
             f.num # g.num /\ ~ (f.num = 0 /\ f.clean = g.clean)
    BY <2>3, <2>4 DEF FilesApart
  <2>7. c.file # m.file
    BY <2>5, <2>6, <2>4 DEF GivenTo
  <2>8. ~ (c.num = m.num /\ c.title = m.title)
    <3> SUFFICES ASSUME c.num = m.num, c.title = m.title PROVE FALSE
      OBVIOUS
    <3>1. TrackOf(c, f, expected, acc.tracked) \/ OwnOf(c, f, expected, acc.tracked)
      BY <2>1, <2>2, <2>3 DEF GivenTo
    <3>2. (TrackOf(m, g, expected, tracked) /\ m.num \notin acc.tracked) \/ OwnOf(m, g, expected, tracked)
      BY <2>4
    <3> QED
      BY <3>1, <3>2, <2>6 DEF TrackOf, OwnOf
  <2> QED
    BY <2>1, <2>2, <2>3, <2>5, <2>7, <2>8 DEF TargetPath
<1>4. \A k \in 1 .. n + 1 : \E j \in 1 .. i + 1 :
        files[j].file \in folder /\ GivenTo(out[k], files[j], expected, tracked)
  <2>1. ASSUME NEW k \in 1 .. n + 1
        PROVE  \E j \in 1 .. i + 1 : files[j].file \in folder /\ GivenTo(out[k], files[j], expected, tracked)
    <3>1. CASE k \in 1 .. n
      <4>1. PICK j \in 1 .. i : files[j].file \in folder /\ GivenTo(acc.out[k], files[j], expected, tracked)
        BY <1>3, <3>1
      <4>2. j \in 1 .. i + 1 /\ out[k] = acc.out[k]
        BY <1>2, <3>1
      <4> QED
        BY <4>1, <4>2
    <3>2. CASE k = n + 1
      BY <1>2, <3>2
    <3> QED
      BY <1>1, <3>1, <3>2
  <2> QED
    BY <2>1
<1>5. MatchesApart(out)
  <2>1. \A k, l \in 1 .. n : k # l =>
          acc.out[k].file # acc.out[l].file /\ TargetPath(acc.out[k]) # TargetPath(acc.out[l])
    BY DEF MatchesFit, MatchesApart
  <2>2. ASSUME NEW k \in 1 .. n + 1, NEW l \in 1 .. n + 1, k # l
        PROVE  out[k].file # out[l].file /\ TargetPath(out[k]) # TargetPath(out[l])
    <3>1. CASE k \in 1 .. n /\ l \in 1 .. n
      BY <1>2, <2>1, <2>2, <3>1
    <3>2. CASE k = n + 1 /\ l \in 1 .. n
      BY <1>2, <1>3, <3>2
    <3>3. CASE k \in 1 .. n /\ l = n + 1
      BY <1>2, <1>3, <3>3
    <3> QED
      BY <1>1, <2>2, <3>1, <3>2, <3>3, SMTT(30)
  <2> QED
    BY <1>2, <2>2 DEF MatchesApart
<1>6. PICK a : a = [tracked |-> tracked, out |-> out]
  OBVIOUS
<1>7. a.tracked = tracked /\ a.out = out
  BY <1>6
<1> HIDE DEF out
<1>8. MatchesFit(files, folder, expected, a, i + 1)
  BY <1>1, <1>2, <1>4, <1>5, <1>7 DEF MatchesFit
<1> QED
  BY <1>6, <1>8 DEF out

(* MatchFile gives a file one match at most, that goes with the others.    *)
LEMMA MatchFileFits ==
  ASSUME NEW files, NEW folder, NEW expected, NEW acc, NEW i \in Nat,
         DOMAIN files = 1 .. Len(files), Len(files) \in Nat, i + 1 \in DOMAIN files,
         \A j \in DOMAIN files : files[j].num \in Nat,
         Len(expected) \in Nat, DOMAIN expected = 1 .. Len(expected), Regular(expected),
         FilesApart(files, expected), MatchesFit(files, folder, expected, acc, i)
  PROVE  MatchesFit(files, folder, expected, StepOver(files, folder, expected, acc, i + 1), i + 1)
<1> DEFINE f == files[i + 1]
           More(tracked, m) == [tracked |-> tracked, out |-> Append(acc.out, m)]
           Fit(a) == MatchesFit(files, folder, expected, a, i + 1)
<1>1. Fit(acc)
  <2>1. \A j \in 1 .. i : j \in 1 .. i + 1
    OBVIOUS
  <2> QED
    BY <2>1 DEF MatchesFit
<1>2. ASSUME f.file \in folder PROVE Fit(MatchFile(expected, acc, f))
  <2>1. PICK n \in Nat : n = f.num
    OBVIOUS
  <2>2. 0 \notin DOMAIN expected
    OBVIOUS
  <2>3. ASSUME n \in DOMAIN expected, n \notin acc.tracked
        PROVE  Fit(GivenNumber(acc, f, expected[n], f.num))
    <3>1. PICK m : m = Match(f.file, expected[n])
      OBVIOUS
    <3>2. m.file = f.file /\ m.num = n /\ m.title = expected[n].title
      BY <2>3, <3>1 DEF Match, Regular
    <3>3. TrackOf(m, f, expected, acc.tracked \cup {n}) /\ GivenTo(m, f, expected, acc.tracked \cup {n})
      <4>1. m.num \in DOMAIN expected /\ m.num \in acc.tracked \cup {n} /\ f.num = m.num
        BY <2>1, <2>3, <3>2
      <4>2. m.title = expected[m.num].title
        BY <3>2
      <4>3. TrackOf(m, f, expected, acc.tracked \cup {n})
        BY <4>1, <4>2 DEF TrackOf
      <4> QED
        BY <3>2, <4>3 DEF GivenTo
    <3>4. Fit(More(acc.tracked \cup {n}, m))
      BY <1>2, <2>2, <2>3, <3>2, <3>3, OneMoreMatch
    <3> QED
      BY <2>1, <3>1, <3>4 DEF GivenNumber
  <2>4. ASSUME NEW k \in Untold(expected, acc.tracked, f), n = 0
        PROVE  Fit(GivenNumber(acc, f, expected[k], expected[k].num))
    <3>1. PICK m : m = Match(f.file, expected[k])
      OBVIOUS
    <3>2. k \in DOMAIN expected /\ expected[k].num = k /\ k \notin acc.tracked /\ expected[k].title = f.clean
      BY <2>4 DEF Untold, Regular
    <3>3. m.file = f.file /\ m.num = k /\ m.title = expected[k].title
      BY <3>1, <3>2 DEF Match
    <3>4. TrackOf(m, f, expected, acc.tracked \cup {k}) /\ GivenTo(m, f, expected, acc.tracked \cup {k})
      BY <2>1, <2>4, <3>2, <3>3 DEF TrackOf, GivenTo
    <3>5. Fit(More(acc.tracked \cup {k}, m))
      BY <1>2, <2>2, <3>2, <3>3, <3>4, OneMoreMatch
    <3> QED
      BY <3>1, <3>2, <3>5 DEF GivenNumber
  <2>5. ASSUME n \notin DOMAIN expected \/ n \in acc.tracked
        PROVE  Fit(More(acc.tracked, Match(f.file, OwnName(f))))
    <3>1. PICK m : m = Match(f.file, OwnName(f))
      OBVIOUS
    <3>2. m.file = f.file /\ m.num = n /\ m.title = f.clean
      BY <2>1, <3>1 DEF Match, OwnName
    <3>3. OwnOf(m, f, expected, acc.tracked) /\ GivenTo(m, f, expected, acc.tracked)
      BY <2>1, <2>5, <3>2 DEF OwnOf, GivenTo
    <3>4. Fit(More(acc.tracked, m))
      BY <1>2, <2>2, <3>3, OneMoreMatch
    <3> QED
      BY <3>1, <3>4
  <2>6. IF n \in DOMAIN expected THEN Numbered(expected, n) # {} /\ Max(Numbered(expected, n)) = n
        ELSE Numbered(expected, n) = {}
    BY NumberedRegular
  <2>7. Untold(expected, acc.tracked, f) # {} =>
          Min(Untold(expected, acc.tracked, f)) \in Untold(expected, acc.tracked, f)
    <3>0. DOMAIN expected \subseteq Nat
      OBVIOUS
    <3>1. Untold(expected, acc.tracked, f) \in SUBSET Nat
      <4> HIDE DEF f
      <4> QED
        BY <3>0 DEF Untold
    <3> QED
      BY <3>1, LeastNumber
  <2> HIDE DEF Fit, More, f
  <2>8. CASE n \in DOMAIN expected /\ n \notin acc.tracked
    <3>1. MatchFile(expected, acc, f) = GivenNumber(acc, f, expected[n], f.num)
      BY <2>1, <2>6, <2>8 DEF MatchFile
    <3> QED
      BY <2>3, <2>8, <3>1
  <2>9. CASE n \notin DOMAIN expected \/ n \in acc.tracked
    <3>1. CASE n = 0 /\ Untold(expected, acc.tracked, f) # {}
      <4>1. PICK k \in Untold(expected, acc.tracked, f) : k = Min(Untold(expected, acc.tracked, f))
        BY <2>7, <3>1
      <4>2. MatchFile(expected, acc, f) = GivenNumber(acc, f, expected[k], expected[k].num)
        BY <2>1, <2>2, <2>6, <2>9, <3>1, <4>1 DEF MatchFile
      <4> QED
        BY <2>4, <3>1, <4>2
    <3>2. CASE ~ (n = 0 /\ Untold(expected, acc.tracked, f) # {})
      <4>1. MatchFile(expected, acc, f) = acc
              \/ MatchFile(expected, acc, f) = More(acc.tracked, Match(f.file, OwnName(f)))
        BY <2>1, <2>6, <2>9, <3>2 DEF MatchFile, More
      <4> QED
        BY <1>1, <2>5, <2>9, <4>1
    <3> QED
      BY <3>1, <3>2
  <2> QED
    BY <2>8, <2>9
<1> QED
  BY <1>1, <1>2 DEF StepOver

(* Where names are apart, matchFiles gives files of the folder different   *)
(* paths, and no file two.                                                 *)
LEMMA MatchFilesApart ==
  ASSUME NEW files, NEW folder, NEW expected,
         DOMAIN files = 1 .. Len(files), Len(files) \in Nat,
         \A j \in DOMAIN files : files[j].num \in Nat,
         Len(expected) \in Nat, DOMAIN expected = 1 .. Len(expected), Regular(expected),
         FilesApart(files, expected)
  PROVE  LET out == matchFiles(files, folder, expected) IN
         /\ Len(out) \in Nat /\ out = [k \in 1 .. Len(out) |-> out[k]] /\ MatchesApart(out)
         /\ \A k \in 1 .. Len(out) : out[k].file \in folder
<1> DEFINE M == Matched(files, folder, expected)
           S == {i \in 0 .. Len(files) : ~ MatchesFit(files, folder, expected, M[i], i)}
<1>1. M[0] = NothingMatched
      /\ \A i \in 1 .. Len(files) : M[i] = StepOver(files, folder, expected, M[i - 1], i)
  BY MatchedSteps
<1>2. S = {}
  <2> SUFFICES ASSUME S # {} PROVE FALSE
    OBVIOUS
  <2>1. S \in SUBSET Nat
    OBVIOUS
  <2>2. PICK i \in S : \A y \in S : i <= y
    BY <2>1, LeastNumber
  <2>3. CASE i = 0
    <3>1. PICK a : a = NothingMatched
      OBVIOUS
    <3>2. a.out = <<>> /\ Len(a.out) = 0
      BY <3>1 DEF NothingMatched
    <3>3. MatchesFit(files, folder, expected, a, 0)
      BY <3>2 DEF MatchesFit, MatchesApart
    <3> QED
      BY <1>1, <2>2, <2>3, <3>1, <3>3
  <2>4. CASE i > 0
    <3>1. i \in 1 .. Len(files) /\ i - 1 \in 0 .. Len(files) /\ ~ (i <= i - 1) /\ i - 1 \in Nat /\ i - 1 + 1 = i
      BY <2>2, <2>4
    <3>2. i - 1 \notin S
      <4> HIDE DEF S
      <4> QED
        BY <2>2, <3>1
    <3>3. MatchesFit(files, folder, expected, M[i - 1], i - 1)
      BY <3>1, <3>2
    <3>4. PICK j \in Nat : j = i - 1
      BY <3>1
    <3>5. j + 1 = i /\ j + 1 \in DOMAIN files
      BY <3>1, <3>4
    <3>6. PICK a : a = M[j]
      OBVIOUS
    <3>7. MatchesFit(files, folder, expected, a, j)
      BY <3>3, <3>4, <3>6
    <3>8. MatchesFit(files, folder, expected, StepOver(files, folder, expected, a, j + 1), j + 1)
      BY <3>5, <3>7, MatchFileFits
    <3>9. M[i] = StepOver(files, folder, expected, a, i)
      BY <1>1, <3>1, <3>4, <3>6
    <3> QED
      BY <2>2, <3>5, <3>8, <3>9
  <2> QED
    BY <2>1, <2>2, <2>3, <2>4
<1>3. MatchesFit(files, folder, expected, M[Len(files)], Len(files))
  BY <1>2
<1>4. PICK out : out = matchFiles(files, folder, expected)
  OBVIOUS
<1>5. out = M[Len(files)].out
  BY <1>4 DEF matchFiles
<1>6. /\ Len(out) \in Nat /\ out = [k \in 1 .. Len(out) |-> out[k]] /\ MatchesApart(out)
      /\ \A k \in 1 .. Len(out) : out[k].file \in folder
  BY <1>3, <1>5 DEF MatchesFit, GivenTo
<1> QED
  BY <1>4, <1>6

-----------------------------------------------------------------------------
(* An album's import: who has which file and which record                  *)

AlbumStates == {"downloading", "import_pending", "importing", "failed", "imported"}
SynthSteps == {"rename", "row", "drop"}
AlbumSteps == {"next", "link", "done"} \cup SynthSteps
ImportFields == {"at", "todo", "number", "ids", "skipped", "failed", "scanned"}

AlbumTyped ==
  /\ albumRow \in [state : AlbumStates, imported : SUBSET trackRows]
  /\ release \in AlbumFolders \cup {NoRelease}
  /\ imports \in 0 .. MaxImports /\ linked \in Nat /\ IsFiniteSet(synths)

\* While the handler is at it the record says so.
ImporterFits ==
  /\ \/ importer = Waiting
     \/ DOMAIN importer = {"at", "tries"} /\ importer.at = "scan"
     \/ DOMAIN importer = ImportFields /\ importer.at \in AlbumSteps
  /\ importer # Waiting => albumRow.state = "importing"
  /\ importer.at \in AlbumSteps => importer.ids \subseteq trackRows

(* An import leaves one record behind at most, and links once: while it    *)
(* has not, it has them to its credit.                                     *)
CountsFit ==
  /\ importer.at \in SynthSteps => importer.number \in synths
  /\ Cardinality(synths) <= imports /\ linked <= imports
  /\ albumRow.state = "import_pending" \/ importer.at \in {"scan", "next", "link", "done"} =>
       Cardinality(synths) < imports
  /\ albumRow.state = "import_pending" \/ importer.at \in {"scan", "next", "link"} \cup SynthSteps =>
       linked < imports
  /\ ~interrupted =>
       /\ synths = IF importer.at \in SynthSteps THEN {importer.number} ELSE {}
       /\ importer.at \in AlbumSteps => importer.skipped = {}

(* A scanned file is in the folder or in the library, at a path that no    *)
(* match still to come goes to; one that did not fail has its row, or is   *)
(* about to get it.                                                        *)
AlbumSettled(f) ==
  \E p \in DOMAIN placed :
    /\ placed[p] = f
    /\ \A k \in 1 .. Len(importer.todo) : TargetPath(importer.todo[k]) = p => k = 1 /\ importer.at \in {"row", "drop"}
    /\ \/ f \in importer.failed \/ p \in trackRows
       \/ importer.at = "row" /\ importer.todo[1].file = f /\ TargetPath(importer.todo[1]) = p
TodoFits ==
  /\ Len(importer.todo) \in Nat /\ importer.todo = [k \in 1 .. Len(importer.todo) |-> importer.todo[k]]
  /\ MatchesApart(importer.todo) /\ (importer.at \in SynthSteps => Len(importer.todo) > 0)
Neat == Regular(release.expected) /\ NamesApart(release)
AlbumFits ==
  Neat /\ importer.at \in AlbumSteps =>
    TodoFits /\ \A f \in importer.scanned : f \in albumFolder \/ AlbumSettled(f)

AlbumInv == AlbumTyped /\ ImporterFits /\ CountsFit /\ AlbumFits

LEMMA AlbumInvInit == AlbumImportInit => AlbumInv
<1> SUFFICES ASSUME AlbumImportInit PROVE AlbumInv
  OBVIOUS
<1>1. importer = Waiting /\ importer.at = "waiting" /\ synths = {} /\ imports = 0 /\ linked = 0
  BY DEF AlbumImportInit, Waiting
<1>2. albumRow.state = "downloading" /\ albumRow \in [state : AlbumStates, imported : SUBSET trackRows]
  BY DEF AlbumImportInit, AlbumStates
<1>3. IsFiniteSet(synths) /\ Cardinality(synths) = 0
  BY <1>1, FS_EmptySet
<1>4. AlbumTyped
  BY <1>1, <1>2, <1>3, AlbumAssumption DEF AlbumTyped, AlbumImportInit
<1>5. importer.at \notin AlbumSteps \cup {"scan"}
  BY <1>1 DEF AlbumSteps, SynthSteps
<1>6. ImporterFits
  BY <1>1, <1>5 DEF ImporterFits
<1>7. CountsFit
  BY <1>1, <1>2, <1>3, <1>5 DEF CountsFit, AlbumSteps, SynthSteps
<1> QED
  BY <1>4, <1>5, <1>6, <1>7 DEF AlbumInv, AlbumFits

(* The matches of a scan go to different paths.                            *)
LEMMA ScanFits ==
  ASSUME AlbumTyped, Neat, NEW expected \in {release.expected, <<>>},
         NEW todo, todo = matchFiles(release.files, albumFolder, expected)
  PROVE  Len(todo) \in Nat /\ todo = [k \in 1 .. Len(todo) |-> todo[k]] /\ MatchesApart(todo)
<1> DEFINE files == release.files
<1>1. release \in AlbumFolders \/ release = NoRelease
  BY DEF AlbumTyped
<1>2. /\ Len(files) \in Nat /\ DOMAIN files = 1 .. Len(files)
      /\ \A j \in DOMAIN files : files[j].num \in Nat
      /\ Len(release.expected) \in Nat /\ DOMAIN release.expected = 1 .. Len(release.expected)
      /\ \A i, j \in DOMAIN files : i # j => files[i].file # files[j].file
  BY <1>1, AlbumAssumption DEF NoRelease
<1>3. Len(expected) \in Nat /\ DOMAIN expected = 1 .. Len(expected) /\ Regular(expected)
  <2>1. CASE expected = release.expected
    BY <1>2, <2>1 DEF Neat
  <2>2. CASE expected = <<>>
    BY <2>2 DEF Regular
  <2> QED
    BY <2>1, <2>2
<1>4. FilesApart(files, expected)
  <2>1. \A i, j \in DOMAIN files : i < j =>
          /\ files[i].num = files[j].num => files[i].clean # files[j].clean
          /\ files[j].num \in DOMAIN release.expected /\ files[j].clean = release.expected[files[j].num].title =>
               files[i].num # files[j].num /\ ~ (files[i].num = 0 /\ files[i].clean = files[j].clean)
    BY DEF Neat, NamesApart
  <2>2. \A i, j \in DOMAIN files : i < j => i # j
    BY <1>2
  <2>3. CASE expected = release.expected
    BY <1>2, <2>1, <2>2, <2>3 DEF FilesApart
  <2>4. CASE expected = <<>>
    BY <1>2, <2>1, <2>2, <2>4 DEF FilesApart
  <2> QED
    BY <2>3, <2>4
<1> HIDE DEF files
<1> QED
  BY <1>2, <1>3, <1>4, MatchFilesApart DEF files

\* What the counts are of is finite.
LEMMA CountsTyped ==
  ASSUME AlbumTyped
  PROVE  /\ imports \in Nat /\ imports <= MaxImports /\ linked \in Nat /\ Cardinality(synths) \in Nat
         /\ "state" \in DOMAIN albumRow /\ albumRow.state \in AlbumStates /\ albumRow.imported \subseteq trackRows
         /\ albumRow = [state |-> albumRow.state, imported |-> albumRow.imported]
  BY FS_CardinalityType, AlbumAssumption DEF AlbumTyped

\* The handler gives up, or the process ends.
LEMMA ImportFails ==
  ASSUME AlbumInv, importer # Waiting, Fails, linked' = linked, imports' = imports, synths' = synths,
         trackRows' = trackRows, release' = release, interrupted' \/ (importer.at \notin SynthSteps /\ interrupted' = interrupted)
  PROVE  AlbumInv'
<1>1. importer' = Waiting /\ importer'.at = "waiting"
  BY DEF Fails, Waiting
<1>2. albumRow' \in [state : AlbumStates, imported : SUBSET trackRows] /\ albumRow'.state = "failed"
  BY DEF Fails, AlbumInv, AlbumTyped, AlbumStates
<1>3. AlbumTyped'
  BY <1>2 DEF AlbumInv, AlbumTyped
<1>4. importer'.at \notin AlbumSteps \cup {"scan"} /\ importer'.at \notin SynthSteps
  BY <1>1 DEF AlbumSteps, SynthSteps
<1>5. ImporterFits' /\ AlbumFits'
  BY <1>1, <1>4 DEF ImporterFits, AlbumFits
<1>6. CountsFit'
  BY <1>1, <1>2, <1>4 DEF AlbumInv, CountsFit
<1> QED
  BY <1>3, <1>5, <1>6 DEF AlbumInv

LEMMA DownloadedKeeps == ASSUME AlbumInv, NEW r \in AlbumFolders, AlbumDownloaded(r) PROVE AlbumInv'
<1>1. /\ importer' = importer /\ synths' = synths /\ linked' = linked /\ interrupted' = interrupted
      /\ trackRows' = trackRows /\ imports' = imports + 1 /\ imports < MaxImports /\ release' = r
      /\ albumRow.state = "downloading" /\ albumRow' = [albumRow EXCEPT !.state = "import_pending"]
  BY DEF AlbumDownloaded
<1>2. importer = Waiting /\ importer.at = "waiting"
  BY <1>1 DEF AlbumInv, ImporterFits, Waiting
<1>3. albumRow' \in [state : AlbumStates, imported : SUBSET trackRows'] /\ albumRow'.state = "import_pending"
  BY <1>1 DEF AlbumInv, AlbumTyped, AlbumStates
<1>4. AlbumTyped'
  <2>1. imports' \in 0 .. MaxImports
    BY <1>1, CountsTyped, AlbumAssumption DEF AlbumInv
  <2> QED
    BY <1>1, <1>3, <2>1 DEF AlbumInv, AlbumTyped
<1>5. importer.at \notin AlbumSteps \cup {"scan"} /\ importer.at \notin SynthSteps
  BY <1>2 DEF AlbumSteps, SynthSteps
<1>6. ImporterFits' /\ AlbumFits'
  BY <1>1, <1>2, <1>5 DEF ImporterFits, AlbumFits
<1>7. Cardinality(synths) <= imports /\ linked <= imports
  BY DEF AlbumInv, CountsFit
<1>8. Cardinality(synths) < imports' /\ linked < imports'
  BY <1>1, <1>7, CountsTyped DEF AlbumInv
<1>9. CountsFit'
  BY <1>1, <1>2, <1>5, <1>7, <1>8, CountsTyped DEF AlbumInv, CountsFit
<1> QED
  BY <1>4, <1>6, <1>9 DEF AlbumInv

LEMMA RetryAlbumKeeps == ASSUME AlbumInv, RetryAlbum PROVE AlbumInv'
<1>1. /\ importer' = importer /\ synths' = synths /\ linked' = linked /\ interrupted' = interrupted
      /\ trackRows' = trackRows /\ imports' = imports /\ release' = release
      /\ albumRow.state = "failed" /\ albumRow' = [albumRow EXCEPT !.state = "downloading"]
  BY DEF RetryAlbum
<1>2. importer = Waiting /\ importer.at = "waiting"
  BY <1>1 DEF AlbumInv, ImporterFits, Waiting
<1>3. albumRow' \in [state : AlbumStates, imported : SUBSET trackRows'] /\ albumRow'.state = "downloading"
  BY <1>1 DEF AlbumInv, AlbumTyped, AlbumStates
<1>4. AlbumTyped'
  BY <1>1, <1>3 DEF AlbumInv, AlbumTyped
<1>5. importer.at \notin AlbumSteps \cup {"scan"} /\ importer.at \notin SynthSteps
  BY <1>2 DEF AlbumSteps, SynthSteps
<1>6. ImporterFits' /\ AlbumFits'
  BY <1>1, <1>2, <1>5 DEF ImporterFits, AlbumFits
<1>7. CountsFit'
  BY <1>1, <1>3, <1>5 DEF AlbumInv, CountsFit
<1> QED
  BY <1>4, <1>6, <1>7 DEF AlbumInv

LEMMA ClaimKeeps == ASSUME AlbumInv, ClaimAlbum PROVE AlbumInv'
<1>1. /\ importer = Waiting /\ importer' = [at |-> "scan", tries |-> 0]
      /\ synths' = synths /\ linked' = linked /\ interrupted' = interrupted
      /\ trackRows' = trackRows /\ imports' = imports /\ release' = release
      /\ albumRow.state = "import_pending" /\ albumRow' = [albumRow EXCEPT !.state = "importing"]
  BY DEF ClaimAlbum
<1>2. importer'.at = "scan" /\ DOMAIN importer' = {"at", "tries"} /\ importer.at = "waiting"
  BY <1>1 DEF Waiting
<1>3. albumRow' \in [state : AlbumStates, imported : SUBSET trackRows'] /\ albumRow'.state = "importing"
  BY <1>1 DEF AlbumInv, AlbumTyped, AlbumStates
<1>4. AlbumTyped'
  BY <1>1, <1>3 DEF AlbumInv, AlbumTyped
<1>5. importer'.at \notin AlbumSteps /\ importer'.at \notin SynthSteps /\ importer.at \notin SynthSteps
  BY <1>2 DEF AlbumSteps, SynthSteps
<1>6. ImporterFits' /\ AlbumFits'
  BY <1>2, <1>3, <1>5 DEF ImporterFits, AlbumFits
<1>7. CountsFit'
  BY <1>1, <1>2, <1>3, <1>5 DEF AlbumInv, CountsFit
<1> QED
  BY <1>4, <1>6, <1>7 DEF AlbumInv

LEMMA AppearsKeeps == ASSUME AlbumInv, FolderAppears PROVE AlbumInv'
<1>1. importer.at = "scan" /\ UNCHANGED <<importer, synths, linked, interrupted, trackRows, imports, release, albumRow>>
  BY DEF FolderAppears
<1>2. importer.at \notin AlbumSteps
  BY <1>1 DEF AlbumSteps, SynthSteps
<1> QED
  BY <1>1, <1>2 DEF AlbumInv, AlbumTyped, ImporterFits, CountsFit, AlbumFits

LEMMA ScanKeeps == ASSUME AlbumInv, ScanFolder PROVE AlbumInv'
<1>1. /\ importer.at = "scan"
      /\ UNCHANGED <<synths, linked, interrupted, trackRows, imports, release, albumFolder>>
  BY DEF ScanFolder
<1>2. DOMAIN importer = {"at", "tries"} /\ importer # Waiting /\ albumRow.state = "importing"
  BY <1>1 DEF AlbumInv, ImporterFits, Waiting, AlbumSteps, SynthSteps
<1>3. importer.at \notin SynthSteps /\ importer.at \notin AlbumSteps
  BY <1>1 DEF AlbumSteps, SynthSteps
<1>4. CASE Fails
  BY <1>1, <1>2, <1>3, <1>4, ImportFails
<1>5. CASE importer' = [importer EXCEPT !.tries = @ + 1] /\ UNCHANGED albumRow
  <2>1. importer'.at = "scan" /\ DOMAIN importer' = {"at", "tries"} /\ importer' # Waiting
    BY <1>1, <1>2, <1>5 DEF Waiting
  <2>2. importer'.at \notin SynthSteps /\ importer'.at \notin AlbumSteps
    BY <2>1 DEF AlbumSteps, SynthSteps
  <2> QED
    BY <1>1, <1>2, <1>3, <1>5, <2>1, <2>2 DEF AlbumInv, AlbumTyped, ImporterFits, CountsFit, AlbumFits
<1>6. ASSUME NEW expected \in {release.expected, <<>>}, UNCHANGED albumRow,
             importer' = [at |-> "next", todo |-> matchFiles(release.files, albumFolder, expected), number |-> 1,
                          ids |-> {}, skipped |-> {}, failed |-> {}, scanned |-> albumFolder]
      PROVE  AlbumInv'
  <2>1. PICK todo : todo = matchFiles(release.files, albumFolder, expected)
    OBVIOUS
  <2>2. /\ DOMAIN importer' = ImportFields /\ importer'.at = "next" /\ importer'.todo = todo
        /\ importer'.ids = {} /\ importer'.skipped = {} /\ importer'.scanned = albumFolder /\ importer' # Waiting
    BY <1>6, <2>1 DEF ImportFields, Waiting
  <2>3. importer'.at \notin SynthSteps /\ importer'.at \in AlbumSteps
    BY <2>2 DEF AlbumSteps, SynthSteps
  <2>4. AlbumTyped' /\ ImporterFits'
    BY <1>1, <1>2, <1>6, <2>2, <2>3 DEF AlbumInv, AlbumTyped, ImporterFits
  <2>5. CountsFit'
    BY <1>1, <1>2, <1>3, <1>6, <2>2, <2>3 DEF AlbumInv, CountsFit
  <2>6. AlbumFits'
    <3> SUFFICES ASSUME Neat PROVE TodoFits' /\ \A f \in importer'.scanned : f \in albumFolder'
      BY <1>1 DEF AlbumFits, Neat
    <3>1. Len(todo) \in Nat /\ todo = [k \in 1 .. Len(todo) |-> todo[k]] /\ MatchesApart(todo)
      BY <2>1, ScanFits DEF AlbumInv
    <3> QED
      BY <1>1, <2>2, <2>3, <3>1 DEF TodoFits
  <2> QED
    BY <2>4, <2>5, <2>6 DEF AlbumInv
<1> QED
  BY <1>4, <1>5, <1>6 DEF ScanFolder

\* The handler is past the scan.
LEMMA AtImport ==
  ASSUME AlbumInv, importer.at \in AlbumSteps
  PROVE  /\ DOMAIN importer = ImportFields /\ importer # Waiting /\ albumRow.state = "importing"
         /\ importer.ids \subseteq trackRows /\ importer.at \notin {"waiting", "scan"}
  BY DEF AlbumInv, ImporterFits, Waiting, AlbumSteps, SynthSteps

LEMMA RestOfTodo ==
  ASSUME TodoFits, Len(importer.todo) > 0
  PROVE  LET rest == Tail(importer.todo) IN
         /\ Len(rest) = Len(importer.todo) - 1 /\ Len(rest) \in Nat /\ rest = [k \in 1 .. Len(rest) |-> rest[k]]
         /\ \A k \in 1 .. Len(rest) : k + 1 \in 1 .. Len(importer.todo) /\ rest[k] = importer.todo[k + 1]
         /\ MatchesApart(rest)
<1>1. PICK s : s = importer.todo
  OBVIOUS
<1>2. Len(s) \in Nat /\ s = [k \in 1 .. Len(s) |-> s[k]] /\ Len(s) > 0 /\ MatchesApart(s)
  BY <1>1 DEF TodoFits
<1>3. PICK rest : rest = Tail(s)
  OBVIOUS
<1>4. /\ Len(rest) = Len(s) - 1 /\ Len(rest) \in Nat /\ rest = [k \in 1 .. Len(rest) |-> rest[k]]
      /\ \A k \in 1 .. Len(rest) : k + 1 \in 1 .. Len(s) /\ rest[k] = s[k + 1]
  <2>1. PICK n \in Nat : n = Len(s) /\ n > 0
    BY <1>2
  <2>2. PICK S : S = {s[k] : k \in 1 .. n}
    OBVIOUS
  <2>3. s \in [1 .. n -> S]
    BY <1>2, <2>1, <2>2
  <2>4. s \in Seq(S)
    BY <2>3
  <2>5. rest \in Seq(S) /\ Len(rest) = n - 1 /\ \A k \in 1 .. n - 1 : rest[k] = s[k + 1]
    BY <1>3, <2>1, <2>4
  <2>6. rest = [k \in 1 .. Len(rest) |-> rest[k]]
    BY <2>5
  <2> QED
    BY <2>1, <2>5, <2>6
<1>5. \A k, l \in 1 .. Len(rest) : k # l => k + 1 # l + 1
  BY <1>4
<1>6. MatchesApart(rest)
  BY <1>2, <1>4, <1>5 DEF MatchesApart
<1> QED
  BY <1>1, <1>3, <1>4, <1>6

(* What is settled stays so when the handler turns to the next match.      *)
LEMMA NextFits ==
  ASSUME AlbumInv, Neat, importer.at \in {"next", "drop"}, Len(importer.todo) > 0, NEW skipped, ToNextMatch(skipped),
         UNCHANGED <<placed, trackRows, albumFolder>>
  PROVE  TodoFits' /\ \A f \in importer'.scanned : f \in albumFolder' \/ AlbumSettled(f)'
<1>1. importer.at \in AlbumSteps
  BY DEF AlbumSteps, SynthSteps
<1>2. DOMAIN importer = ImportFields
  BY <1>1, AtImport
<1>3. /\ importer'.at = "next" /\ importer'.todo = Tail(importer.todo) /\ importer'.failed = importer.failed
      /\ importer'.scanned = importer.scanned
  BY <1>2 DEF ToNextMatch, ImportFields
<1>4. TodoFits /\ \A f \in importer.scanned : f \in albumFolder \/ AlbumSettled(f)
  BY <1>1 DEF AlbumInv, AlbumFits
<1>5. TodoFits'
  BY <1>3, <1>4, RestOfTodo DEF TodoFits, SynthSteps
<1>6. ASSUME NEW f, AlbumSettled(f) PROVE AlbumSettled(f)'
  <2>1. PICK p \in DOMAIN placed :
          /\ placed[p] = f
          /\ \A k \in 1 .. Len(importer.todo) : TargetPath(importer.todo[k]) = p => k = 1
          /\ f \in importer.failed \/ p \in trackRows
    BY <1>6 DEF AlbumSettled
  <2>2. ASSUME NEW k \in 1 .. Len(importer'.todo) PROVE TargetPath(importer'.todo[k]) # p
    <3>1. /\ k + 1 \in 1 .. Len(importer.todo) /\ k \in Nat /\ k >= 1
          /\ importer'.todo[k] = importer.todo[k + 1]
      BY <1>3, <1>4, RestOfTodo
    <3>2. k + 1 # 1
      BY <3>1
    <3> QED
      BY <2>1, <3>1, <3>2
  <2> QED
    BY <1>3, <2>1, <2>2 DEF AlbumSettled
<1> QED
  BY <1>3, <1>4, <1>5, <1>6

LEMMA InsertKeeps == ASSUME AlbumInv, InsertSynth PROVE AlbumInv'
<1>1. /\ importer.at = "next" /\ importer.todo # <<>>
      /\ UNCHANGED <<release, albumFolder, placed, trackRows, albumRow, imports, interrupted, linked>>
  BY DEF InsertSynth
<1>2. importer.at \in AlbumSteps /\ importer.at \notin SynthSteps
  BY <1>1 DEF AlbumSteps, SynthSteps
<1>3. /\ DOMAIN importer = ImportFields /\ importer # Waiting /\ albumRow.state = "importing"
      /\ importer.ids \subseteq trackRows
  BY <1>2, AtImport
<1>4. /\ IsFiniteSet(synths) /\ Cardinality(synths) \in Nat /\ imports \in Nat /\ linked \in Nat
      /\ Cardinality(synths) < imports /\ linked < imports /\ linked <= imports
  BY <1>1, CountsTyped DEF AlbumInv, AlbumTyped, CountsFit
<1>5. CASE importer.number \in synths /\ ToNextMatch({Head(importer.todo).file}) /\ UNCHANGED synths
  <2>1. /\ DOMAIN importer' = ImportFields /\ importer'.at = "next" /\ importer'.ids = importer.ids
        /\ importer'.number = importer.number + 1 /\ importer' # Waiting
    BY <1>3, <1>5 DEF ToNextMatch, ImportFields, Waiting
  <2>2. importer'.at \in AlbumSteps /\ importer'.at \notin SynthSteps
    BY <2>1 DEF AlbumSteps, SynthSteps
  <2>3. AlbumTyped' /\ ImporterFits'
    BY <1>1, <1>3, <1>5, <2>1, <2>2 DEF AlbumInv, AlbumTyped, ImporterFits
  <2>4. interrupted
    BY <1>2, <1>5 DEF AlbumInv, CountsFit
  <2>5. CountsFit'
    BY <1>1, <1>4, <1>5, <2>1, <2>2, <2>4 DEF AlbumInv, CountsFit
  <2>6. AlbumFits'
    <3> SUFFICES ASSUME Neat
                 PROVE  TodoFits' /\ \A f \in importer'.scanned : f \in albumFolder' \/ AlbumSettled(f)'
      BY <1>1 DEF AlbumFits, Neat
    <3>1. Len(importer.todo) > 0
      BY <1>1, <1>2 DEF AlbumInv, AlbumFits, TodoFits
    <3> QED
      BY <1>1, <1>5, <3>1, NextFits
  <2> QED
    BY <2>3, <2>5, <2>6 DEF AlbumInv
<1>6. CASE /\ importer.number \notin synths /\ importer' = [importer EXCEPT !.at = "rename"]
           /\ synths' = synths \cup {importer.number}
  <2>1. /\ DOMAIN importer' = ImportFields /\ importer'.at = "rename" /\ importer'.ids = importer.ids
        /\ importer'.number = importer.number /\ importer'.skipped = importer.skipped /\ importer'.todo = importer.todo
        /\ importer'.failed = importer.failed /\ importer'.scanned = importer.scanned /\ importer' # Waiting
    BY <1>3, <1>6 DEF ImportFields, Waiting
  <2>2. importer'.at \in AlbumSteps /\ importer'.at \in SynthSteps
    BY <2>1 DEF AlbumSteps, SynthSteps
  <2>3. IsFiniteSet(synths') /\ Cardinality(synths') = Cardinality(synths) + 1
    BY <1>4, <1>6, FS_AddElement
  <2>4. AlbumTyped' /\ ImporterFits'
    BY <1>1, <1>3, <2>1, <2>2, <2>3 DEF AlbumInv, AlbumTyped, ImporterFits
  <2>5. /\ Cardinality(synths') <= imports /\ importer.number \in synths'
        /\ ~ interrupted => synths' = {importer.number} /\ importer.skipped = {}
    BY <1>2, <1>4, <1>6, <2>3 DEF AlbumInv, CountsFit
  <2>6. CountsFit'
    BY <1>1, <1>3, <1>4, <2>1, <2>2, <2>5 DEF CountsFit, SynthSteps
  <2>7. AlbumFits'
    <3> SUFFICES ASSUME Neat
                 PROVE  TodoFits' /\ \A f \in importer'.scanned : f \in albumFolder' \/ AlbumSettled(f)'
      BY <1>1 DEF AlbumFits, Neat
    <3>1. TodoFits /\ \A f \in importer.scanned : f \in albumFolder \/ AlbumSettled(f)
      BY <1>2 DEF AlbumInv, AlbumFits
    <3>2. TodoFits'
      BY <1>1, <2>1, <3>1 DEF TodoFits
    <3>3. \A f : AlbumSettled(f) => AlbumSettled(f)'
      BY <1>1, <2>1 DEF AlbumSettled
    <3> QED
      BY <1>1, <2>1, <3>1, <3>2, <3>3
  <2> QED
    BY <2>4, <2>6, <2>7 DEF AlbumInv
<1> QED
  BY <1>5, <1>6 DEF InsertSynth

(* The handler's match fails, or goes on to its row or away.               *)
LEMMA MatchGoes ==
  ASSUME AlbumInv, importer.at \in SynthSteps, UNCHANGED <<release, albumRow, synths, imports, interrupted, linked>>,
         trackRows \subseteq trackRows', NEW at \in SynthSteps,
         DOMAIN importer' = ImportFields, importer'.at = at, importer'.number = importer.number,
         importer'.skipped = importer.skipped, importer'.ids \subseteq trackRows'
  PROVE  AlbumTyped' /\ ImporterFits' /\ CountsFit'
<1>1. importer.at \in AlbumSteps /\ at \in AlbumSteps
  BY DEF AlbumSteps
<1>2. albumRow.state = "importing"
  BY <1>1, AtImport
<1>3. importer' # Waiting
  BY DEF Waiting, SynthSteps
<1>4. albumRow \in [state : AlbumStates, imported : SUBSET trackRows']
  BY DEF AlbumInv, AlbumTyped
<1>5. AlbumTyped'
  BY <1>4 DEF AlbumInv, AlbumTyped
<1>6. ImporterFits'
  BY <1>1, <1>2, <1>3 DEF ImporterFits
<1>7. at \notin {"scan", "next", "link", "done"}
  BY DEF SynthSteps
<1>8. linked < imports
  BY DEF AlbumInv, CountsFit
<1>9. CountsFit'
  BY <1>1, <1>2, <1>7, <1>8 DEF AlbumInv, CountsFit
<1> QED
  BY <1>5, <1>6, <1>9

LEMMA RenameKeeps == ASSUME AlbumInv, RenameFile PROVE AlbumInv'
<1>1. /\ importer.at = "rename"
      /\ UNCHANGED <<release, visible, trackRows, albumRow, synths, imports, interrupted, linked>>
  BY DEF RenameFile
<1>2. importer.at \in SynthSteps /\ importer.at \in AlbumSteps
  BY <1>1 DEF AlbumSteps, SynthSteps
<1>3. DOMAIN importer = ImportFields /\ importer.ids \subseteq trackRows
  BY <1>2, AtImport
<1>4. PICK m : m = Head(importer.todo)
  OBVIOUS
<1>5. CASE /\ albumFolder' = albumFolder \ {m.file} /\ importer' = [importer EXCEPT !.at = "row"]
           /\ placed' = [p \in DOMAIN placed \cup {TargetPath(m)} |-> IF p = TargetPath(m) THEN m.file ELSE placed[p]]
  <2>1. /\ DOMAIN importer' = ImportFields /\ importer'.at = "row" /\ importer'.ids = importer.ids
        /\ importer'.number = importer.number /\ importer'.skipped = importer.skipped /\ importer'.todo = importer.todo
        /\ importer'.failed = importer.failed /\ importer'.scanned = importer.scanned
    BY <1>3, <1>5 DEF ImportFields
  <2>2. AlbumTyped' /\ ImporterFits' /\ CountsFit'
    <3>1. "row" \in SynthSteps
      BY DEF SynthSteps
    <3> QED
      BY <1>1, <1>2, <1>3, <2>1, <3>1, MatchGoes
  <2>3. AlbumFits'
    <3> SUFFICES ASSUME Neat
                 PROVE  TodoFits' /\ \A f \in importer'.scanned : f \in albumFolder' \/ AlbumSettled(f)'
      BY <1>1 DEF AlbumFits, Neat
    <3>1. TodoFits /\ \A f \in importer.scanned : f \in albumFolder \/ AlbumSettled(f)
      BY <1>2 DEF AlbumInv, AlbumFits
    <3>2. TodoFits'
      BY <1>2, <2>1, <3>1 DEF TodoFits
    <3>3. Len(importer.todo) > 0 /\ Len(importer.todo) \in Nat /\ m = importer.todo[1]
      BY <1>2, <1>4, <3>1 DEF TodoFits
    <3>4. PICK path : path = TargetPath(m)
      OBVIOUS
    <3>5. /\ DOMAIN placed' = DOMAIN placed \cup {path} /\ placed'[path] = m.file
          /\ \A p \in DOMAIN placed : p # path => placed'[p] = placed[p]
      BY <1>5, <3>4
    <3>6. AlbumSettled(m.file)'
      <4>1. \A k \in 1 .. Len(importer.todo) : TargetPath(importer.todo[k]) = path => k = 1
        BY <3>1, <3>3, <3>4 DEF TodoFits, MatchesApart
      <4> QED
        BY <2>1, <3>3, <3>4, <3>5, <4>1 DEF AlbumSettled
    <3>7. ASSUME NEW f, AlbumSettled(f) PROVE AlbumSettled(f)'
      <4>1. PICK p \in DOMAIN placed :
              /\ placed[p] = f
              /\ \A k \in 1 .. Len(importer.todo) : TargetPath(importer.todo[k]) # p
              /\ f \in importer.failed \/ p \in trackRows
        BY <1>1, <3>7 DEF AlbumSettled
      <4>2. p # path
        BY <3>3, <3>4, <4>1
      <4> QED
        BY <1>1, <2>1, <3>5, <4>1, <4>2 DEF AlbumSettled
    <3> QED
      BY <1>5, <2>1, <3>1, <3>2, <3>6, <3>7
  <2> QED
    BY <2>2, <2>3 DEF AlbumInv
<1>6. CASE ChainFails /\ UNCHANGED <<albumFolder, placed>>
  <2>1. /\ DOMAIN importer' = ImportFields /\ importer'.at = "drop" /\ importer'.ids = importer.ids
        /\ importer'.number = importer.number /\ importer'.skipped = importer.skipped /\ importer'.todo = importer.todo
        /\ importer.failed \subseteq importer'.failed /\ importer'.scanned = importer.scanned
    BY <1>3, <1>6 DEF ImportFields, ChainFails
  <2>2. AlbumTyped' /\ ImporterFits' /\ CountsFit'
    <3>1. "drop" \in SynthSteps
      BY DEF SynthSteps
    <3> QED
      BY <1>1, <1>2, <1>3, <2>1, <3>1, MatchGoes
  <2>3. AlbumFits'
    <3> SUFFICES ASSUME Neat
                 PROVE  TodoFits' /\ \A f \in importer'.scanned : f \in albumFolder' \/ AlbumSettled(f)'
      BY <1>1 DEF AlbumFits, Neat
    <3>1. TodoFits /\ \A f \in importer.scanned : f \in albumFolder \/ AlbumSettled(f)
      BY <1>2 DEF AlbumInv, AlbumFits
    <3>2. TodoFits'
      BY <1>2, <2>1, <3>1 DEF TodoFits
    <3>3. \A f : AlbumSettled(f) => AlbumSettled(f)'
      BY <1>1, <1>6, <2>1 DEF AlbumSettled
    <3> QED
      BY <1>6, <2>1, <3>1, <3>2, <3>3
  <2> QED
    BY <2>2, <2>3 DEF AlbumInv
<1> QED
  BY <1>4, <1>5, <1>6 DEF RenameFile

LEMMA RowKeeps == ASSUME AlbumInv, ImportRow PROVE AlbumInv'
<1>1. /\ importer.at = "row"
      /\ UNCHANGED <<release, albumFolder, visible, placed, albumRow, synths, imports, interrupted, linked>>
  BY DEF ImportRow
<1>2. importer.at \in SynthSteps /\ importer.at \in AlbumSteps /\ "drop" \in SynthSteps
  BY <1>1 DEF AlbumSteps, SynthSteps
<1>3. DOMAIN importer = ImportFields /\ importer.ids \subseteq trackRows
  BY <1>2, AtImport
<1>4. PICK m : m = Head(importer.todo)
  OBVIOUS
<1>5. /\ DOMAIN importer' = ImportFields /\ importer'.at = "drop"
      /\ importer'.number = importer.number /\ importer'.skipped = importer.skipped /\ importer'.todo = importer.todo
      /\ importer.failed \subseteq importer'.failed /\ importer'.scanned = importer.scanned
      /\ trackRows \subseteq trackRows' /\ importer'.ids \subseteq trackRows'
      /\ m.file \in importer'.failed \/ TargetPath(m) \in trackRows'
  <2>1. CASE /\ trackRows' = trackRows \cup {TargetPath(m)}
             /\ importer' = [importer EXCEPT !.at = "drop", !.ids = @ \cup {TargetPath(m)}]
    BY <1>3, <2>1 DEF ImportFields
  <2>2. CASE ChainFails /\ UNCHANGED trackRows
    BY <1>3, <1>4, <2>2 DEF ImportFields, ChainFails
  <2> QED
    BY <1>4, <2>1, <2>2 DEF ImportRow
<1>6. AlbumTyped' /\ ImporterFits' /\ CountsFit'
  BY <1>1, <1>2, <1>5, MatchGoes
<1>7. AlbumFits'
  <2> SUFFICES ASSUME Neat
               PROVE  TodoFits' /\ \A f \in importer'.scanned : f \in albumFolder' \/ AlbumSettled(f)'
    BY <1>1 DEF AlbumFits, Neat
  <2>1. TodoFits /\ \A f \in importer.scanned : f \in albumFolder \/ AlbumSettled(f)
    BY <1>2 DEF AlbumInv, AlbumFits
  <2>2. TodoFits'
    BY <1>2, <1>5, <2>1 DEF TodoFits
  <2>3. m = importer.todo[1]
    BY <1>2, <1>4, <2>1 DEF TodoFits
  <2>4. ASSUME NEW f, AlbumSettled(f) PROVE AlbumSettled(f)'
    BY <1>1, <1>5, <2>3, <2>4 DEF AlbumSettled
  <2> QED
    BY <1>1, <1>5, <2>1, <2>2, <2>4
<1> QED
  BY <1>6, <1>7 DEF AlbumInv

LEMMA DropKeeps == ASSUME AlbumInv, DeleteSynth PROVE AlbumInv'
<1>1. /\ importer.at = "drop" /\ synths' = synths \ {importer.number} /\ ToNextMatch({})
      /\ UNCHANGED <<release, albumFolder, placed, trackRows, albumRow, imports, interrupted, linked>>
  BY DEF DeleteSynth
<1>2. importer.at \in SynthSteps /\ importer.at \in AlbumSteps
  BY <1>1 DEF AlbumSteps, SynthSteps
<1>3. DOMAIN importer = ImportFields /\ importer.ids \subseteq trackRows /\ albumRow.state = "importing"
  BY <1>2, AtImport
<1>4. /\ DOMAIN importer' = ImportFields /\ importer'.at = "next" /\ importer'.ids = importer.ids
      /\ importer'.skipped = importer.skipped /\ importer' # Waiting
  BY <1>1, <1>3 DEF ToNextMatch, ImportFields, Waiting
<1>5. importer'.at \in AlbumSteps /\ importer'.at \notin SynthSteps
  BY <1>4 DEF AlbumSteps, SynthSteps
<1>6. /\ IsFiniteSet(synths) /\ importer.number \in synths /\ Cardinality(synths) \in Nat /\ imports \in Nat
      /\ Cardinality(synths) <= imports /\ linked < imports /\ linked <= imports
  BY <1>2, CountsTyped DEF AlbumInv, AlbumTyped, CountsFit
<1>7. IsFiniteSet(synths') /\ Cardinality(synths') = Cardinality(synths) - 1
  BY <1>1, <1>6, FS_RemoveElement
<1>8. Cardinality(synths') < imports /\ Cardinality(synths') <= imports
  BY <1>6, <1>7
<1>9. ~ interrupted => synths' = {} /\ importer.skipped = {}
  BY <1>1, <1>2 DEF AlbumInv, CountsFit
<1>10. AlbumTyped' /\ ImporterFits'
  BY <1>1, <1>3, <1>4, <1>5, <1>7 DEF AlbumInv, AlbumTyped, ImporterFits
<1>11. CountsFit'
  BY <1>1, <1>4, <1>5, <1>6, <1>8, <1>9 DEF CountsFit
<1>12. AlbumFits'
  <2> SUFFICES ASSUME Neat
               PROVE  TodoFits' /\ \A f \in importer'.scanned : f \in albumFolder' \/ AlbumSettled(f)'
    BY <1>1 DEF AlbumFits, Neat
  <2>1. Len(importer.todo) > 0
    BY <1>2 DEF AlbumInv, AlbumFits, TodoFits
  <2> QED
    BY <1>1, <2>1, NextFits
<1> QED
  BY <1>10, <1>11, <1>12 DEF AlbumInv

(* After the last match the handler goes from step to step.                *)
LEMMA EndGoes ==
  ASSUME AlbumInv, importer.at \in {"next", "link"}, NEW at \in {"link", "done"},
         importer' = [importer EXCEPT !.at = at], UNCHANGED <<release, trackRows, synths, imports, interrupted>>,
         albumFolder' = albumFolder, placed' = placed,
         albumRow' \in [state : {"importing"}, imported : SUBSET trackRows],
         linked' \in Nat /\ linked' <= imports /\ (at = "link" => linked' < imports)
  PROVE  AlbumInv'
<1>1. importer.at \in AlbumSteps /\ importer.at \notin SynthSteps /\ at \in AlbumSteps /\ at \notin SynthSteps
  BY DEF AlbumSteps, SynthSteps
<1>2. DOMAIN importer = ImportFields /\ importer.ids \subseteq trackRows
  BY <1>1, AtImport
<1>3. /\ DOMAIN importer' = ImportFields /\ importer'.at = at /\ importer'.ids = importer.ids
      /\ importer'.skipped = importer.skipped /\ importer'.todo = importer.todo /\ importer'.failed = importer.failed
      /\ importer'.scanned = importer.scanned /\ importer' # Waiting
  BY <1>2 DEF ImportFields, Waiting
<1>4. albumRow'.state = "importing" /\ albumRow' \in [state : AlbumStates, imported : SUBSET trackRows]
  BY DEF AlbumStates
<1>5. AlbumTyped' /\ ImporterFits'
  BY <1>1, <1>2, <1>3, <1>4 DEF AlbumInv, AlbumTyped, ImporterFits
<1>6. Cardinality(synths) <= imports /\ Cardinality(synths) < imports
  BY DEF AlbumInv, CountsFit
<1>7. CountsFit'
  BY <1>1, <1>3, <1>4, <1>6 DEF AlbumInv, CountsFit
<1>8. AlbumFits'
  <2> SUFFICES ASSUME Neat
               PROVE  TodoFits' /\ \A f \in importer'.scanned : f \in albumFolder' \/ AlbumSettled(f)'
    BY DEF AlbumFits, Neat
  <2>1. TodoFits /\ \A f \in importer.scanned : f \in albumFolder \/ AlbumSettled(f)
    BY <1>1 DEF AlbumInv, AlbumFits
  <2>2. TodoFits'
    BY <1>1, <1>3, <2>1 DEF TodoFits
  <2>3. \A f : AlbumSettled(f) => AlbumSettled(f)'
    BY <1>3 DEF AlbumSettled
  <2> QED
    BY <1>3, <2>1, <2>2, <2>3
<1> QED
  BY <1>5, <1>7, <1>8 DEF AlbumInv

LEMMA FinishKeeps == ASSUME AlbumInv, FinishTracks PROVE AlbumInv'
<1>1. /\ importer.at = "next" /\ importer' = [importer EXCEPT !.at = "link"]
      /\ albumRow' = [albumRow EXCEPT !.imported = IF importer.ids = {} THEN @ ELSE importer.ids]
      /\ UNCHANGED <<release, albumFolder, visible, placed, trackRows, synths, imports, interrupted, linked>>
  BY DEF FinishTracks
<1>2. importer.at \in AlbumSteps
  BY <1>1 DEF AlbumSteps, SynthSteps
<1>3. importer.ids \subseteq trackRows /\ albumRow.state = "importing"
  BY <1>2, AtImport
<1>4. albumRow' \in [state : {"importing"}, imported : SUBSET trackRows]
  BY <1>1, <1>3 DEF AlbumInv, AlbumTyped
<1>5. linked \in Nat /\ linked < imports /\ linked <= imports
  BY <1>1 DEF AlbumInv, AlbumTyped, CountsFit
<1> QED
  BY <1>1, <1>4, <1>5, EndGoes

LEMMA LinkKeeps == ASSUME AlbumInv, LinkAlbum PROVE AlbumInv'
<1>1. /\ importer.at = "link" /\ importer' = [importer EXCEPT !.at = "done"] /\ linked' = linked + 1
      /\ UNCHANGED <<release, albumFolder, visible, placed, trackRows, albumRow, synths, imports, interrupted>>
  BY DEF LinkAlbum
<1>2. importer.at \in AlbumSteps
  BY <1>1 DEF AlbumSteps, SynthSteps
<1>3. albumRow.state = "importing"
  BY <1>2, AtImport
<1>4. albumRow' \in [state : {"importing"}, imported : SUBSET trackRows]
  BY <1>1, <1>3 DEF AlbumInv, AlbumTyped
<1>5. linked \in Nat /\ imports \in Nat /\ linked < imports
  BY <1>1, CountsTyped DEF AlbumInv, CountsFit
<1>6. linked' \in Nat /\ linked' <= imports
  BY <1>1, <1>5
<1> QED
  BY <1>1, <1>4, <1>6, EndGoes

LEMMA ImportedKeeps == ASSUME AlbumInv, SetImported PROVE AlbumInv'
<1>1. /\ importer.at = "done" /\ importer' = Waiting /\ albumRow' = [albumRow EXCEPT !.state = "imported"]
      /\ UNCHANGED <<release, albumFolder, visible, placed, trackRows, synths, imports, interrupted, linked>>
  BY DEF SetImported
<1>2. importer'.at = "waiting" /\ importer'.at \notin AlbumSteps \cup {"scan"} /\ importer'.at \notin SynthSteps
  BY <1>1 DEF Waiting, AlbumSteps, SynthSteps
<1>3. albumRow' \in [state : AlbumStates, imported : SUBSET trackRows] /\ albumRow'.state = "imported"
  BY <1>1 DEF AlbumInv, AlbumTyped, AlbumStates
<1>4. importer.at \notin SynthSteps
  BY <1>1 DEF SynthSteps
<1>5. AlbumTyped' /\ ImporterFits' /\ AlbumFits'
  BY <1>1, <1>2, <1>3 DEF AlbumInv, AlbumTyped, ImporterFits, AlbumFits
<1>6. CountsFit'
  BY <1>1, <1>2, <1>3, <1>4 DEF AlbumInv, CountsFit
<1> QED
  BY <1>5, <1>6 DEF AlbumInv

LEMMA AlbumInvStep == ASSUME AlbumInv, [AlbumImportNext]_albumImportVars PROVE AlbumInv'
<1>1. CASE UNCHANGED albumImportVars
  BY <1>1 DEF albumImportVars, AlbumInv, AlbumTyped, ImporterFits, CountsFit, AlbumFits, Neat, TodoFits, AlbumSettled
<1>2. CASE RestartImport
  <2>1. /\ importer # Waiting /\ Fails /\ interrupted'
        /\ UNCHANGED <<release, albumFolder, visible, placed, trackRows, synths, imports, linked>>
    BY <1>2 DEF RestartImport
  <2> QED
    BY <2>1, ImportFails
<1> QED
  BY <1>1, <1>2, DownloadedKeeps, RetryAlbumKeeps, ClaimKeeps, AppearsKeeps, ScanKeeps, InsertKeeps, RenameKeeps, RowKeeps,
    DropKeeps, FinishKeeps, LinkKeeps, ImportedKeeps DEF AlbumImportNext

LEMMA AccountedIfFits == AlbumInv => AlbumAccounted
<1> SUFFICES ASSUME AlbumInv, Complete PROVE AlbumAccounted
  BY DEF AlbumAccounted
<1>1. importer.at \in {"link", "done"} /\ importer.at \in AlbumSteps /\ importer.at \notin SynthSteps
  BY DEF Complete, AlbumSteps, SynthSteps
<1>2. importer.ids \subseteq trackRows /\ linked <= imports
  BY <1>1, AtImport DEF AlbumInv, CountsFit
<1>3. ~ interrupted => synths = {} /\ importer.skipped = {}
  BY <1>1 DEF AlbumInv, CountsFit
<1>4. ASSUME Neat, NEW f \in importer.scanned
      PROVE  f \in albumFolder \/ \E p \in DOMAIN placed : placed[p] = f /\ (f \in importer.failed \/ p \in trackRows)
  BY <1>1, <1>4 DEF AlbumInv, AlbumFits, AlbumSettled
<1>5. ASSUME Neat
      PROVE  /\ importer.scanned \subseteq albumFolder \cup Range(placed)
             /\ \A f \in importer.scanned \ (importer.failed \cup albumFolder) :
                  \E path \in trackRows : path \in DOMAIN placed /\ placed[path] = f
  BY <1>4, <1>5 DEF Range
<1> QED
  BY <1>2, <1>3, <1>5 DEF AlbumAccounted, Neat

LEMMA AlbumTypeIfFits == AlbumInv => AlbumImportTypeOK
<1> SUFFICES ASSUME AlbumInv PROVE AlbumImportTypeOK
  OBVIOUS
<1>1. Cardinality(synths) <= imports /\ Cardinality(synths) \in Nat /\ imports \in Nat /\ imports <= MaxImports
  BY CountsTyped DEF AlbumInv, CountsFit
<1>2. Cardinality(synths) <= MaxImports
  BY <1>1, AlbumAssumption
<1> QED
  BY <1>2, CountsTyped DEF AlbumInv, AlbumImportTypeOK, AlbumStates

LEMMA AlbumInvHolds == ProvidersSpec => []AlbumInv
<1>1. ProvidersInit => AlbumInv
  BY AlbumInvInit DEF ProvidersInit
<1>2. [ProvidersNext]_<<scene, providers>> => [AlbumImportNext]_albumImportVars
  <2>1. CASE UNCHANGED <<scene, providers>>
    BY <2>1 DEF providers
  <2>2. CASE ProvidersNext
    BY <2>2 DEF ProvidersNext, CooldownScene, RateScene, TokenScene, StreamScene, SlskdScene, SlskdsearchScene,
      AlbumimportScene, DeezerloginScene, DeezerScene, EnrichmentScene, LibraryScene
  <2> QED
    BY <2>1, <2>2
<1>3. AlbumInv /\ [ProvidersNext]_<<scene, providers>> => AlbumInv'
  BY <1>2, AlbumInvStep
<1> QED
  BY <1>1, <1>3, PTL DEF ProvidersSpec

\* However many folders, failures, retries and claims there are, an album's
\* import leaves every matched file of its folder with a row of its own and
\* its counts of tracks as the rows say (handler_album_import.go).
THEOREM AlbumAlwaysAccounted == ProvidersSpec => []AlbumAccounted
BY AccountedIfFits, AlbumInvHolds, PTL

-----------------------------------------------------------------------------
(* The providers' types together *)

LEMMA SlskdTypeIfFits == SlskdInv => SlskdTypeOK
<1> SUFFICES ASSUME SlskdInv PROVE SlskdTypeOK
  OBVIOUS
<1>1. \A n \in DOMAIN transfers : transfers[n].flags \in Underway \cup Ended
  BY DEF SlskdInv, TransfersTyped, TransferState
<1>2. \A i \in DOMAIN slskdDownloads : slskdDownloads[i].state \in RecordStates
  BY DEF SlskdInv, MapsFit, RecordFits
<1> QED
  BY <1>1, <1>2 DEF SlskdTypeOK, RecordStates

LEMMA FetchTypeIfFits == FetchInv => DeezerStreamTypeOK
<1> SUFFICES ASSUME FetchInv PROVE DeezerStreamTypeOK
  OBVIOUS
<1>1. fetch.at \in FetchSteps /\ fetch.pos \in Nat /\ fetch.buf \in Nat /\ Len(written) \in Nat
  BY DEF FetchInv, FetchTyped, FetchState
<1>2. written # NoOutput => Len(written) + fetch.buf = fetch.pos
  BY <1>1 DEF FetchInv, BodyFits, FetchSteps
<1>3. written # NoOutput => Len(written) + fetch.buf <= fetch.pos
  BY <1>1, <1>2
<1> QED
  BY <1>3 DEF FetchInv, DeezerStreamTypeOK, FetchTyped, BodyFits

LEMMA StreamTypeIfFits == StreamInv => StreamTypeOK
BY StreamAssumption DEF StreamInv, StreamTypeOK, StreamTyped, PlacesFit

LEMMA SearchTypeIfFits == SearchInv => SlskdSearchTypeOK
BY DEF SearchInv, SlskdSearchTypeOK, SearchTyped

LEMMA SessionTypeIfHeld == SessionInv /\ HolderTyped => DeezerSessionTypeOK
BY DEF SessionInv, HolderTyped, DeezerSessionTypeOK

\* What the providers' clients keep stays what their code takes it for: only
\* tokens that were granted are asked with and stored, positions stay within
\* the stream, a transfer's state is one of slskd's, a worker's numbers are
\* providers' and its tracks an album's, and the library's keys lead to rows.
THEOREM ProvidersTyped == ProvidersSpec => []ProvidersTypeOK
<1>1. TokenInv /\ TokensReal /\ StreamInv /\ SlskdInv /\ SearchInv /\ AlbumInv /\ SessionInv /\ HolderTyped
        /\ FetchInv /\ EnrichReal /\ LibraryTypeOK
      => ProvidersTypeOK
  BY TokenTypeIfReal, StreamTypeIfFits, SlskdTypeIfFits, SearchTypeIfFits, AlbumTypeIfFits, SessionTypeIfHeld,
     FetchTypeIfFits, EnrichTypeIfReal DEF ProvidersTypeOK
<1> QED
  BY <1>1, TokensRealHolds, StreamInvHolds, SlskdInvHolds, SearchInvHolds, AlbumInvHolds, SessionInvHolds,
     HolderHolds, FetchInvHolds, EnrichRealHolds, LibraryKeysHold, PTL
=============================================================================
