--------------------------- MODULE ProviderCooldown ---------------------------
(***************************************************************************)
(* The app's one bucket of rate-limited providers (metadata.               *)
(* ProviderCooldown), its table, and the metadata resolver as one of its   *)
(* callers.  The bucket is changed under its mutex; MarkAfter writes the   *)
(* table after it has let go of it.                                        *)
(***************************************************************************)
EXTENDS Integers, Sequences

CONSTANTS
  Limited,        \* providers
  Markers,        \* concurrent callers of MarkAfter
  RetryAfters,    \* what servers ask for; 0 is nothing
  CoolDefault, CoolMax, BanThreshold, BanGrace, EscalationWindow,
  EnrichOrder,    \* the providers in the configured order
  CoolHorizon     \* bound: the last instant

ASSUME CooldownAssumption ==
  /\ RetryAfters \subseteq Nat
  /\ {CoolDefault, CoolMax, BanThreshold, BanGrace, EscalationWindow, CoolHorizon} \subseteq Nat
  /\ 0 < CoolDefault /\ CoolDefault <= CoolMax
  /\ EnrichOrder \in Seq(Limited)

\* A fact of arithmetic the provers do not have.
ASSUME DoublingAssumption == \A n \in 0 .. CoolMax : 2 ^ n \in Nat /\ n < 2 ^ n

VARIABLES
  clock,      \* the time
  until,      \* the bucket: until when a provider is parked; 0 for no entry
  hits,       \* how often it was parked in a row without a server's word
  stored,     \* provider_cooldowns; 0 for no row
  marking,    \* by caller: the table write it still owes
  enrich      \* a run of EnrichMetadata

cooldownVars == <<clock, until, hits, stored, marking, enrich>>

NoHits == [count |-> 0, first |-> 0]
NoWrite == [prov |-> "none", until |-> 0]
\* phase "album" or "cover"; todo: the providers not asked yet, in order; try:
\* the full artist or, after it, the primary one.
NoRun == [phase |-> "done", todo |-> <<>>, try |-> "full", album |-> FALSE, cover |-> FALSE]

CooldownInit ==
  /\ clock = 1
  /\ until = [p \in Limited |-> 0]
  /\ hits = [p \in Limited |-> NoHits]
  /\ stored = [p \in Limited |-> 0]
  /\ marking = [m \in Markers |-> NoWrite]
  /\ enrich = NoRun

AtMost(x, cap) == IF x < cap THEN x ELSE cap
AtLeast(x, low) == IF x > low THEN x ELSE low

CoolingDown(p) == clock < until[p]

\* The default, doubled for every further hit, at most the cap.
escalationDuration(count) == AtMost(CoolDefault * 2 ^ (count - 1), CoolMax)

\* How long a mark parks, and the hits it leaves.  A server's word ends the
\* escalation; a ban gets a grace period on top.  (Once the cap is reached more
\* hits change nothing, and are not counted here.)
CountedHits(p) ==
  IF hits[p].count = 0 \/ clock - hits[p].first > EscalationWindow
  THEN [count |-> 1, first |-> clock]
  ELSE [hits[p] EXCEPT !.count = IF escalationDuration(@) < CoolMax THEN @ + 1 ELSE @]

ParkFor(p, retryAfter) ==
  IF retryAfter > 0
  THEN AtMost(AtLeast(retryAfter, CoolDefault) +
                (IF retryAfter >= BanThreshold THEN BanGrace ELSE 0), CoolMax)
  ELSE AtMost(escalationDuration(CountedHits(p).count), CoolMax)

\* Mutant: only what a server asked for is written.
MarkAfterUnwritten(m, p, retryAfter) ==
  /\ marking[m] = NoWrite
  /\ until' = [until EXCEPT ![p] = clock + ParkFor(p, retryAfter)]
  /\ hits' = [hits EXCEPT ![p] = IF retryAfter > 0 THEN NoHits ELSE CountedHits(p)]
  /\ marking' = [marking EXCEPT ![m] =
       IF retryAfter > 0 THEN [prov |-> p, until |-> clock + ParkFor(p, retryAfter)] ELSE NoWrite]
  /\ UNCHANGED <<clock, stored>>

\* MarkAfter under the mutex; the table write is left to the caller m.
MarkAfter(m, p, retryAfter) ==
  /\ marking[m] = NoWrite
  /\ until' = [until EXCEPT ![p] = clock + ParkFor(p, retryAfter)]
  /\ hits' = [hits EXCEPT ![p] = IF retryAfter > 0 THEN NoHits ELSE CountedHits(p)]
  /\ marking' = [marking EXCEPT ![m] = [prov |-> p, until |-> clock + ParkFor(p, retryAfter)]]
  /\ UNCHANGED <<clock, stored>>

SetCooldown(m) ==
  /\ marking[m] # NoWrite
  /\ stored' = [stored EXCEPT ![marking[m].prov] = marking[m].until]
  /\ marking' = [marking EXCEPT ![m] = NoWrite]
  /\ UNCHANGED <<clock, until, hits, enrich>>

\* The admin's clear deletes entry and row under the mutex.
ClearCooldown(p) ==
  /\ until[p] # 0
  /\ until' = [until EXCEPT ![p] = 0]
  /\ hits' = [hits EXCEPT ![p] = NoHits]
  /\ stored' = [stored EXCEPT ![p] = 0]
  /\ UNCHANGED <<clock, marking, enrich>>

\* A restart: only rows that have not run out are loaded.
Restore ==
  /\ until' = [p \in Limited |-> IF stored[p] > clock THEN stored[p] ELSE 0]
  /\ hits' = [p \in Limited |-> NoHits]
  /\ marking' = [m \in Markers |-> NoWrite]
  /\ enrich' = NoRun
  /\ UNCHANGED <<clock, stored>>

TimePasses ==
  /\ clock < CoolHorizon
  /\ clock' = clock + 1
  /\ UNCHANGED <<until, hits, stored, marking, enrich>>

----------------------------------------------------------------------------
(* EnrichMetadata: the album's name first, when it is missing, then a cover *)

StartEnrich(hasAlbum) ==
  /\ enrich = NoRun
  /\ enrich' = [NoRun EXCEPT !.phase = IF hasAlbum THEN "cover" ELSE "album",
                             !.todo = EnrichOrder, !.album = hasAlbum]
  /\ UNCHANGED <<clock, until, hits, stored, marking>>

\* On to the next provider, and from the album to the cover if there is one.
\* The run is over without a provider left, or without an album.
NextProvider(e) ==
  LET f == [e EXCEPT !.todo = Tail(@), !.try = "full"]
  IN IF f.todo # <<>> THEN f ELSE NoRun

SkipCooling ==
  /\ enrich.todo # <<>> /\ enrich.try = "full"
  /\ CoolingDown(Head(enrich.todo))
  /\ enrich' = NextProvider(enrich)
  /\ UNCHANGED <<clock, until, hits, stored, marking>>

MayAsk == enrich.todo # <<>> /\ (enrich.try = "full" => ~CoolingDown(Head(enrich.todo)))

\* The provider has it: an album is followed by the search for its cover.
EnrichFound ==
  /\ MayAsk
  /\ enrich' = IF enrich.phase = "album"
               THEN [NoRun EXCEPT !.phase = "cover", !.todo = EnrichOrder, !.album = TRUE]
               ELSE NoRun
  /\ UNCHANGED <<clock, until, hits, stored, marking>>

\* Nothing found, or an error: the primary artist is tried next, if it is another
\* one, and then the next provider.  The bucket is not looked at in between.
EnrichNothing ==
  /\ MayAsk
  /\ \/ enrich.try = "full" /\ enrich' = [enrich EXCEPT !.try = "primary"]
     \/ enrich' = NextProvider(enrich)
  /\ UNCHANGED <<clock, until, hits, stored, marking>>

\* A rate limit parks the provider and moves on at once.
EnrichLimited(m, retryAfter) ==
  /\ MayAsk
  /\ MarkAfter(m, Head(enrich.todo), retryAfter)
  /\ enrich' = NextProvider(enrich)

CooldownNext ==
  \/ \E m \in Markers : SetCooldown(m)
  \/ \E m \in Markers, p \in Limited, r \in RetryAfters :
       MarkAfter(m, p, r) /\ UNCHANGED enrich
  \/ \E p \in Limited : ClearCooldown(p)
  \/ \E hasAlbum \in BOOLEAN : StartEnrich(hasAlbum)
  \/ SkipCooling \/ EnrichFound \/ EnrichNothing
  \/ \E m \in Markers, r \in RetryAfters : EnrichLimited(m, r)
  \/ Restore \/ TimePasses

----------------------------------------------------------------------------
\* A provider that is parked stays parked over a restart: whoever parked it has
\* left a row, also when clears and other marks came between the bucket and
\* the table (cooldown.go MarkAfter writes outside the mutex).  The row's end
\* may be another mark's.
ParkedIsStored ==
  (\A m \in Markers : marking[m] = NoWrite) =>
    \A p \in Limited : CoolingDown(p) => stored[p] # 0
=============================================================================
