------------------------------- MODULE Soulseek -------------------------------
(***************************************************************************)
(* The transfers of the Soulseek client (providers/soulseek/client.go).    *)
(* slskd, a daemon of its own, downloads from peers and names its            *)
(* transfers; the client keeps two maps, from a transfer's id to what it   *)
(* last heard of it and to its peer.  slskd may not name a transfer when   *)
(* it takes it: the client then looks it up by file name, or uses the      *)
(* file name for an id until a listing shows the real one.                 *)
(***************************************************************************)
EXTENDS Naturals, FiniteSets

CONSTANTS
  Peers,
  PeerFiles,        \* files on the network
  Backslashed,  \* those whose peer writes \ in its names
  Pollers,      \* goroutines that ask for a status or the list
  MaxTransfers  \* bound: transfers slskd takes

VARIABLES
  transfers,         \* slskd, by number: peer, file, and the flags of its state
  slskdDownloads,         \* Client.downloads: id -> record
  downloadUsernames, \* Client.downloadUsernames: id -> peer
  starting,          \* the StartDownload under way
  poll,              \* by poller: where its call is
  askedFor,             \* ghost: id -> the file StartDownload was asked for
  retired            \* ghost: ids removed, cleared or replaced

slskdVars == <<transfers, slskdDownloads, downloadUsernames, starting, poll, askedFor, retired>>

(* A name as the peer writes it, and as the client's records write it.     *)
RawName(f) == [file |-> f, back |-> f \in Backslashed]
normalizedFilename(name) == [name EXCEPT !.back = FALSE]

(* An id is slskd's number or, standing in for it, the file's name.        *)
RealId(n) == [number |-> n, file |-> "none"]
NameId(f) == [number |-> 0, file |-> f]

(* slskd's states are sets of flags: a failed transfer is Completed too.   *)
Underway == {{"queued"}, {"inprogress"}}
Ended == {{"completed", "succeeded"}, {"completed", "errored"}, {"completed", "cancelled"}}
\* The flags in another order: what has completed is taken for imported.
CompletedFirst(flags) ==
  IF "completed" \in flags THEN "imported"
  ELSE IF "queued" \in flags THEN "queued" ELSE "downloading"
parseState(flags) ==
  IF "errored" \in flags THEN "failed"
  ELSE IF "cancelled" \in flags THEN "ignored"
  ELSE IF "completed" \in flags THEN "imported"
  ELSE IF "queued" \in flags THEN "queued" ELSE "downloading"

parseSingleDownload(n) ==
  [id |-> RealId(n), name |-> normalizedFilename(RawName(transfers[n].file)),
   state |-> parseState(transfers[n].flags)]
parseDownloadStatus == {parseSingleDownload(n) : n \in DOMAIN transfers}

Bound(map, key, value) == [k \in DOMAIN map \cup {key} |-> IF k = key THEN value ELSE map[k]]
Without(map, ids) == [i \in DOMAIN map \ ids |-> map[i]]
Cached(rec) == Bound(slskdDownloads, rec.id, rec)
cacheRecord(rec) == slskdDownloads' = Cached(rec)

-----------------------------------------------------------------------------
NotStarting == [at |-> "none"]
NotPolling == [at |-> "away"]
Clear == << >>

SlskdInit ==
  /\ transfers = Clear /\ slskdDownloads = Clear /\ downloadUsernames = Clear
  /\ starting = NotStarting /\ poll = [p \in Pollers |-> NotPolling]
  /\ askedFor = Clear /\ retired = {}

(* slskd takes the request, and answers it with the transfer's number or   *)
(* without.                                                                *)
PostDownload(peer, f) ==
  /\ starting = NotStarting
  /\ LET n == Cardinality(DOMAIN transfers) + 1 IN
     /\ n <= MaxTransfers
     /\ transfers' = Bound(transfers, n, [peer |-> peer, file |-> f, flags |-> {"queued"}, listed |-> TRUE])
     /\ starting' \in {[at |-> "named", id |-> RealId(n), peer |-> peer, file |-> f],
                       [at |-> "lookup", peer |-> peer, file |-> f]}
  /\ UNCHANGED <<slskdDownloads, downloadUsernames, poll, askedFor, retired>>

(* findDownloadIDByFilename takes the first transfer of that name, of any  *)
(* peer and any age; a listing that fails leaves the name as the id.       *)
findDownloadIDByFilename ==
  /\ starting.at = "lookup"
  /\ \E id \in {RealId(n) : n \in {m \in DOMAIN transfers : transfers[m].file = starting.file}}
              \cup {NameId(starting.file)} :
       starting' = [at |-> "named", id |-> id, peer |-> starting.peer, file |-> starting.file]
  /\ UNCHANGED <<transfers, slskdDownloads, downloadUsernames, poll, askedFor, retired>>

RegisterDownload ==
  /\ starting.at = "named"
  /\ slskdDownloads' = Cached([id |-> starting.id, name |-> RawName(starting.file), state |-> "queued"])
  /\ downloadUsernames' = Bound(downloadUsernames, starting.id, starting.peer)
  /\ askedFor' = Bound(askedFor, starting.id, starting.file)
  /\ retired' = retired \ {starting.id}
  /\ starting' = NotStarting
  /\ UNCHANGED <<transfers, poll>>

-----------------------------------------------------------------------------
(* slskd's side: a transfer moves on, and an ended one is cleaned up.      *)
TransferMoves(n) ==
  /\ transfers[n].flags \in Underway
  /\ \E flags \in (Underway \ {{"queued"}}) \cup Ended :
       transfers' = [transfers EXCEPT ![n].flags = flags]
  /\ UNCHANGED <<slskdDownloads, downloadUsernames, starting, poll, askedFor, retired>>

Listed == {n \in DOMAIN transfers : transfers[n].listed}
TransferCleanedUp(n) ==
  /\ transfers[n].flags \in Ended /\ transfers[n].listed
  /\ transfers' = [transfers EXCEPT ![n].listed = FALSE]
  /\ UNCHANGED <<slskdDownloads, downloadUsernames, starting, poll, askedFor, retired>>

(* GetDownloadStatus asks for the transfer with its peer, and without; any *)
(* request may fail, and a stand-in id names no transfer.                  *)
Polls(p, call) == poll' = [poll EXCEPT ![p] = call]
trySingleEndpoint(p, id) ==
  /\ poll[p].at = "away" /\ id \in DOMAIN askedFor
  /\ \/ /\ id.number \in Listed
        /\ cacheRecord(parseSingleDownload(id.number))
        /\ UNCHANGED poll
     \/ Polls(p, [at |-> "list", id |-> id]) /\ UNCHANGED slskdDownloads
  /\ UNCHANGED <<transfers, downloadUsernames, starting, askedFor, retired>>

ListDownloads(p) ==
  /\ poll[p].at = "list"
  /\ \/ Polls(p, [at |-> "match", id |-> poll[p].id, list |-> {parseSingleDownload(n) : n \in Listed}])
     \/ Polls(p, NotPolling)  \* the cached record, or not found
  /\ UNCHANGED <<transfers, slskdDownloads, downloadUsernames, starting, askedFor, retired>>

MatchById(p) ==
  /\ poll[p].at = "match"
  /\ \E rec \in poll[p].list : rec.id = poll[p].id /\ cacheRecord(rec)
  /\ Polls(p, NotPolling)
  /\ UNCHANGED <<transfers, downloadUsernames, starting, askedFor, retired>>

(* The name kept under the id is read in one critical section; the entry   *)
(* is moved to the id of the listing in the next.                          *)
HasId(p) == \E rec \in poll[p].list : rec.id = poll[p].id
ReadCachedName(p) ==
  /\ poll[p].at = "match" /\ ~HasId(p)
  /\ LET same == {rec \in poll[p].list :
                    /\ poll[p].id \in DOMAIN slskdDownloads
                    /\ rec.name = slskdDownloads[poll[p].id].name} IN
     IF same = {} THEN Polls(p, NotPolling)
     ELSE \E rec \in same : Polls(p, [at |-> "moved", id |-> poll[p].id, rec |-> rec])
  /\ UNCHANGED <<transfers, slskdDownloads, downloadUsernames, starting, askedFor, retired>>

Moved(map, old, new) == IF old \in DOMAIN map THEN Bound(Without(map, {old}), new, map[old]) ELSE map

(* updateDownloadID, and cacheRecord over the entry just moved.            *)
updateDownloadID(p) ==
  /\ poll[p].at = "moved"
  /\ LET old == poll[p].id  new == poll[p].rec.id IN
     /\ slskdDownloads' = Bound(Moved(slskdDownloads, old, new), new, poll[p].rec)
     /\ downloadUsernames' = Moved(downloadUsernames, old, new)
     /\ retired' = retired \cup {old}
  /\ Polls(p, NotPolling)
  /\ UNCHANGED <<transfers, starting, askedFor>>

(* GetDownloads: the listing is read, then kept; one that fails is         *)
(* answered from the map.                                                  *)
GetDownloads(p) ==
  /\ poll[p].at = "away"
  /\ Polls(p, [at |-> "keep", list |-> {parseSingleDownload(n) : n \in Listed}])
  /\ UNCHANGED <<transfers, slskdDownloads, downloadUsernames, starting, askedFor, retired>>

KeepList(p) ==
  /\ poll[p].at = "keep"
  /\ LET heard == {r.id : r \in poll[p].list} IN
     slskdDownloads' = [i \in DOMAIN slskdDownloads \cup heard |->
       IF i \in heard THEN CHOOSE r \in poll[p].list : r.id = i ELSE slskdDownloads[i]]
  /\ Polls(p, NotPolling)
  /\ UNCHANGED <<transfers, downloadUsernames, starting, askedFor, retired>>

(* CancelDownload: slskd stops the transfer, with `remove` it and the maps *)
(* forget it.                                                              *)
Forget(ids) ==
  /\ slskdDownloads' = Without(slskdDownloads, ids)
  /\ downloadUsernames' = Without(downloadUsernames, ids)
  /\ retired' = retired \cup ids
Stopped(transfer, remove) ==
  [transfer EXCEPT !.listed = ~remove, !.flags = IF @ \in Ended THEN @ ELSE {"completed", "cancelled"}]
CancelDownload(id, remove) ==
  /\ id \in DOMAIN askedFor /\ id.number \in Listed
  /\ transfers' = [transfers EXCEPT ![id.number] = Stopped(transfers[id.number], remove)]
  /\ IF remove THEN Forget({id}) ELSE UNCHANGED <<slskdDownloads, downloadUsernames, retired>>
  /\ UNCHANGED <<starting, poll, askedFor>>

ClearCompleted ==
  /\ Forget({i \in DOMAIN slskdDownloads :
               slskdDownloads[i].state \in {"imported", "failed", "ignored"}})
  /\ UNCHANGED <<transfers, starting, poll, askedFor>>

SlskdNext ==
  \/ \E peer \in Peers, f \in PeerFiles : PostDownload(peer, f)
  \/ findDownloadIDByFilename \/ RegisterDownload \/ ClearCompleted
  \/ \E n \in DOMAIN transfers : TransferMoves(n) \/ TransferCleanedUp(n)
  \/ \E id \in DOMAIN askedFor : \E remove \in BOOLEAN : CancelDownload(id, remove)
  \/ \E p \in Pollers :
       \/ ListDownloads(p) \/ MatchById(p) \/ ReadCachedName(p) \/ updateDownloadID(p)
       \/ GetDownloads(p) \/ KeepList(p)
       \/ \E id \in DOMAIN askedFor : trySingleEndpoint(p, id)

-----------------------------------------------------------------------------
SlskdTypeOK ==
  /\ \A n \in DOMAIN transfers : transfers[n].flags \in Underway \cup Ended
  /\ \A i \in DOMAIN slskdDownloads :
       slskdDownloads[i].state \in {"queued", "downloading", "imported", "failed", "ignored"}

(* What the client answers of a download is of that download, whatever     *)
(* polls, listings, cancels and replaced ids did to its two maps:  a       *)
(* record stands under its own id; a peer is known for nothing else; a     *)
(* download that was started and neither removed, cleared nor replaced is  *)
(* found; its record is of the file that was asked for; and only a         *)
(* transfer that succeeded is reported imported.                           *)
TransfersFollowed ==
  /\ \A i \in DOMAIN slskdDownloads : slskdDownloads[i].id = i
  /\ DOMAIN downloadUsernames \subseteq DOMAIN slskdDownloads
  /\ \A i \in DOMAIN askedFor : i \in DOMAIN slskdDownloads \/ i \in retired
  /\ \A i \in DOMAIN askedFor \cap DOMAIN slskdDownloads : slskdDownloads[i].name.file = askedFor[i]
  /\ \A i \in DOMAIN slskdDownloads : slskdDownloads[i].state = "imported" =>
       i.number > 0 /\ "succeeded" \in transfers[i.number].flags
=============================================================================
