----------------------------- MODULE SoulseekSearch -----------------------------
(***************************************************************************)
(* A search of the Soulseek client (search and processResponses in         *)
(* providers/soulseek/client.go).  slskd collects replies of peers; once a *)
(* second the client takes those that are new and sorts their files into   *)
(* albums, two or more of one peer in one directory, and single tracks.    *)
(***************************************************************************)
EXTENDS Naturals, Sequences, FiniteSets, FiniteSetsExt, SequencesExt

CONSTANTS
  Replies,     \* the replies the network may give: [username, files]
  MaxReplies,  \* bound: replies to one search
  EnoughPeers  \* usable replies that end a search (30)

ASSUME SearchAssumption == EnoughPeers \in Nat \ {0}

VARIABLES
  replies,          \* slskd's list, in order of arrival
  seenResponses, usableResponses,
  allTracks,        \* set of [username, path, name]
  allAlbums,        \* set of sets of such
  stop              \* why the search ended: "no" while it runs

slskdSearchVars == <<replies, seenResponses, usableResponses, allTracks, allAlbums, stop>>

NoPeerName == ""
usableResponse(r) == r.username # NoPeerName

(* processResponses over a batch.  A file is [path, name, audio], its      *)
(* filename the first two; a path may be empty.                            *)
Results(batch) ==
  UNION {{[username |-> r.username, path |-> f.path, name |-> f.name] : f \in {g \in r.files : g.audio}} :
           r \in {s \in Range(batch) : usableResponse(s)}}
SameDirectory(t, u) == t.username = u.username /\ t.path = u.path
Grouped(results) == {{t \in results : SameDirectory(t, u)} : u \in {v \in results : v.path # ""}}
AlbumsOf(results) == {g \in Grouped(results) : Cardinality(g) >= 2}
Filename(t) == <<t.path, t.name>>
\* Every directory hides its files from the single tracks, small ones too.
SinglesOfAny(results) ==
  {t \in results : \A g \in Grouped(results) : \A u \in g : Filename(u) # Filename(t)}
Singles(results) ==
  {t \in results : \A g \in AlbumsOf(results) : \A u \in g : Filename(u) # Filename(t)}

-----------------------------------------------------------------------------
SlskdSearchInit ==
  /\ replies = <<>> /\ seenResponses = 0 /\ usableResponses = 0
  /\ allTracks = {} /\ allAlbums = {} /\ stop = "no"

ReplyArrives(r) ==
  /\ Len(replies) < MaxReplies /\ stop = "no"
  /\ replies' = Append(replies, r)
  /\ UNCHANGED <<seenResponses, usableResponses, allTracks, allAlbums, stop>>

(* A tick whose request was answered.  Nothing new ends the search once a  *)
(* usable peer has replied; a request that fails waits for the next tick.  *)
TickNothingNew ==
  /\ stop = "no" /\ Len(replies) <= seenResponses /\ usableResponses > 0
  /\ stop' = "quiet"
  /\ UNCHANGED <<replies, seenResponses, usableResponses, allTracks, allAlbums>>

TickNew ==
  /\ stop = "no" /\ Len(replies) > seenResponses
  /\ LET batch == SubSeq(replies, seenResponses + 1, Len(replies))
         results == Results(batch) IN
     /\ seenResponses' = Len(replies)
     /\ usableResponses' = usableResponses + Cardinality({i \in DOMAIN batch : usableResponse(batch[i])})
     /\ allTracks' = allTracks \cup Singles(results)
     /\ allAlbums' = allAlbums \cup AlbumsOf(results)
     /\ stop' = IF usableResponses' >= EnoughPeers THEN "enough" ELSE "no"
  /\ UNCHANGED replies

(* The timeout, or the caller, ends it with what there is.                 *)
SearchContextDone ==
  /\ stop = "no" /\ stop' = "timeout"
  /\ UNCHANGED <<replies, seenResponses, usableResponses, allTracks, allAlbums>>

SlskdSearchNext ==
  \/ \E r \in Replies : ReplyArrives(r)
  \/ TickNothingNew \/ TickNew \/ SearchContextDone

-----------------------------------------------------------------------------
SlskdSearchTypeOK ==
  /\ usableResponses <= seenResponses /\ seenResponses <= Len(replies)
  /\ stop \in {"no", "quiet", "enough", "timeout"}

(* However the replies fall into batches and whatever ended the search:    *)
(* every audio file name a usable peer of the replies seen offers is found *)
(* as a track or in an album, nothing is found that nobody offered, and a  *)
(* search that ended by itself has heard a usable peer.                    *)
ResultsCovered ==
  LET offered == Results(SubSeq(replies, 1, seenResponses))
      found == allTracks \cup UNION allAlbums IN
  /\ found \subseteq offered
  /\ \A t \in offered : \E u \in found : Filename(u) = Filename(t)
  /\ stop \in {"quiet", "enough"} => usableResponses > 0
=============================================================================
