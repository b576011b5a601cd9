--------------------------- MODULE ProvidersProofs ---------------------------
(***************************************************************************)
(* Proofs about the providers' clients, one component after the other, as  *)
(* in ServicesProofs: a component's invariant is shown to hold of its own  *)
(* steps, and the composition takes a step of one component at a time.     *)
(***************************************************************************)
EXTENDS MCProviders, FiniteSetTheorems, TLAPS

----------------------------------------------------------------------------
(* A step of the composition is a step of one component *)

LEMMA ScenesAreSteps ==
  ASSUME [ProvidersNext]_<<scene, providers>>
  PROVE  /\ [CooldownNext]_cooldownVars /\ [RateNext]_rateVars /\ [TokenNext]_tokenVars
         /\ [DeezerSessionNext]_deezerSessionVars /\ [EnrichmentNext]_enrichmentVars
<1>1. CASE UNCHANGED <<scene, providers>>
  BY <1>1 DEF providers
<1>2. CASE CooldownScene
  BY <1>2 DEF CooldownScene
<1>3. CASE RateScene
  BY <1>3 DEF RateScene
<1>4. CASE TokenScene
  BY <1>4 DEF TokenScene
<1>5. CASE StreamScene
  BY <1>5 DEF StreamScene
<1>6. CASE SlskdScene
  BY <1>6 DEF SlskdScene
<1>7. CASE SlskdsearchScene
  BY <1>7 DEF SlskdsearchScene
<1>8. CASE AlbumimportScene
  BY <1>8 DEF AlbumimportScene
<1>9. CASE DeezerloginScene
  BY <1>9 DEF DeezerloginScene
<1>10. CASE DeezerScene
  BY <1>10 DEF DeezerScene
<1>11. CASE EnrichmentScene
  BY <1>11 DEF EnrichmentScene
<1>12. CASE LibraryScene
  BY <1>12 DEF LibraryScene
<1> QED
  BY <1>1, <1>2, <1>3, <1>4, <1>5, <1>6, <1>7, <1>8, <1>9, <1>10, <1>11, <1>12 DEF ProvidersNext
----------------------------------------------------------------------------
(* The rate limiter *)

\* The requests whose slot is no later than t.
Slotted(t) == {r \in Requests : slot[r] # 0 /\ slot[r] <= t}

\* Slots are given out an interval apart, so that there is room for as many as
\* there are intervals; a request has gone out after its slot, if at all.
RateInv ==
  /\ rateNow \in Nat /\ MinInterval <= rateNow /\ lastReq \in Nat
  /\ slot \in [Requests -> Nat]
  /\ \A r \in Requests : slot[r] <= lastReq
  /\ sent \subseteq Slotted(rateNow)
  /\ \A t \in Nat : Cardinality(Slotted(t)) * MinInterval <= t

LEMMA SlottedFinite ==
  \A t \in Nat : IsFiniteSet(Slotted(t)) /\ Cardinality(Slotted(t)) \in Nat
  BY RateAssumption, FS_Subset, FS_CardinalityType DEF Slotted

LEMMA RateInvInit == RateInit => RateInv
<1> SUFFICES ASSUME RateInit PROVE RateInv
  OBVIOUS
<1>1. \A t \in Nat : Slotted(t) = {}
  BY DEF RateInit, Slotted
<1>2. \A t \in Nat : Cardinality(Slotted(t)) * MinInterval <= t
  BY <1>1, FS_EmptySet, RateAssumption
<1> QED
  BY <1>2, RateAssumption DEF RateInit, RateInv

\* A new slot lies an interval behind the last one.
LEMMA ReserveKeeps ==
  ASSUME RateInv, NEW r \in Requests, Reserve(r)
  PROVE  RateInv'
<1> DEFINE next == lastReq + MinInterval
           mine == IF rateNow >= next THEN rateNow ELSE next
<1>1. /\ slot[r] = 0 /\ slot' = [slot EXCEPT ![r] = mine] /\ lastReq' = mine
      /\ UNCHANGED <<rateNow, sent, dropped>>
  BY DEF Reserve
<1>2. /\ rateNow \in Nat /\ lastReq \in Nat /\ slot \in [Requests -> Nat]
      /\ MinInterval \in Nat \ {0}
  BY RateAssumption DEF RateInv
<1>3. mine \in Nat /\ next <= mine /\ mine # 0
  BY <1>2
<1> HIDE DEF mine
<1>4. \A s \in Requests : slot'[s] = IF s = r THEN mine ELSE slot[s]
  BY <1>1, <1>2
<1>5. slot' \in [Requests -> Nat] /\ \A s \in Requests : slot'[s] <= lastReq'
  BY <1>1, <1>2, <1>3, <1>4 DEF RateInv
<1>6. sent' \subseteq Slotted(rateNow)'
  BY <1>1, <1>4 DEF RateInv, Slotted
<1>7. ASSUME NEW t \in Nat PROVE Cardinality(Slotted(t)') * MinInterval <= t
  <2>1. CASE t < mine
    <3>1. Slotted(t)' = Slotted(t)
      BY <1>1, <1>2, <1>3, <1>4, <2>1 DEF Slotted
    <3> QED
      BY <3>1 DEF RateInv
  <2>2. CASE mine <= t
    <3>1. Slotted(t)' = Slotted(lastReq) \cup {r}
      BY <1>1, <1>2, <1>3, <1>4, <2>2 DEF Slotted, RateInv
    <3>2. r \notin Slotted(lastReq)
      BY <1>1 DEF Slotted
    <3>3. Cardinality(Slotted(t)') = Cardinality(Slotted(lastReq)) + 1
      BY <1>2, <3>1, <3>2, SlottedFinite, FS_AddElement
    <3>4. Cardinality(Slotted(lastReq)) * MinInterval <= lastReq
      BY <1>2 DEF RateInv
    <3>5. \A n \in Nat : (n + 1) * MinInterval = n * MinInterval + MinInterval /\ n * MinInterval \in Nat
      BY <1>2
    <3> QED
      BY <1>2, <1>3, <2>2, <3>3, <3>4, <3>5, SlottedFinite
  <2> QED
    BY <1>3, <2>1, <2>2
<1> QED
  BY <1>1, <1>2, <1>3, <1>5, <1>6, <1>7 DEF RateInv

LEMMA RateInvStep == RateInv /\ [RateNext]_rateVars => RateInv'
<1> SUFFICES ASSUME RateInv, [RateNext]_rateVars PROVE RateInv'
  OBVIOUS
<1>1. ASSUME NEW r \in Requests, Reserve(r) PROVE RateInv'
  BY <1>1, ReserveKeeps
<1>2. ASSUME NEW r \in Requests, SendRequest(r) PROVE RateInv'
  BY <1>2 DEF SendRequest, RateInv, Slotted
<1>3. ASSUME NEW r \in Requests, GiveUp(r) PROVE RateInv'
  BY <1>3 DEF GiveUp, RateInv, Slotted
<1>4. CASE RateTick
  BY <1>4, RateAssumption DEF RateTick, RateInv, Slotted
<1>5. CASE UNCHANGED rateVars
  BY <1>5 DEF rateVars, RateInv, Slotted
<1> QED
  BY <1>1, <1>2, <1>3, <1>4, <1>5 DEF RateNext

LEMMA RateInvKeeps == RateInv => RateKept
<1> SUFFICES ASSUME RateInv PROVE RateKept
  OBVIOUS
<1>1. rateNow \in Nat /\ MinInterval \in Nat
  BY RateAssumption DEF RateInv
<1>2. Cardinality(sent) <= Cardinality(Slotted(rateNow)) /\ Cardinality(sent) \in Nat
  BY <1>1, SlottedFinite, FS_Subset, FS_CardinalityType DEF RateInv
<1>3. \A n, m \in Nat : n <= m => n * MinInterval <= m * MinInterval
  BY <1>1
<1> QED
  BY <1>1, <1>2, <1>3, SlottedFinite DEF RateInv, RateKept

LEMMA RateInvHolds == ProvidersSpec => []RateInv
<1>1. ProvidersInit => RateInv
  BY RateInvInit DEF ProvidersInit
<1>2. RateInv /\ [ProvidersNext]_<<scene, providers>> => RateInv'
  BY RateInvStep, ScenesAreSteps
<1> QED
  BY <1>1, <1>2, PTL DEF ProvidersSpec

\* However many requests of one client compete, wait and give up, no more have
\* gone out by any instant than one per interval (the HTTP transport's mutex).
THEOREM PaceKept == ProvidersSpec => []RateKept
  BY RateInvHolds, RateInvKeeps, PTL
----------------------------------------------------------------------------
(* The Deezer client's login *)

CallerSteps == {"idle", "ok", "error", "lock", "login"}
CheckerSteps == CallerSteps \cup {"public", "closing ok", "closing error"}

\* The login, while a check runs, is one made since it began; and only a check
\* that found another one at the client puts back the impatient client.
SessionInv ==
  /\ account \in {"unknown", "none", "good", "expired"}
  /\ session \in [authenticated : BOOLEAN, publicHealthy : BOOLEAN, licensed : BOOLEAN]
  /\ standing \in BOOLEAN /\ overlapped \in BOOLEAN
  /\ client \in {"long", "short"}
  /\ restores \in [DeezerCheckers -> {"long", "short"}]
  /\ dealing \in [DeezerActors -> CheckerSteps]
  /\ \A c \in DeezerCallers : dealing[c] \in CallerSteps
  /\ account = "unknown" => \A a \in DeezerActors : dealing[a] = "idle"
  /\ session.authenticated = standing
  /\ \A k \in DeezerCheckers : dealing[k] \notin Answered /\ session.authenticated => k \in proven
  /\ \A k \in DeezerCheckers : dealing[k] \in {"ok", "closing ok"} /\ account # "none" => k \in proven
  /\ \A k \in DeezerCheckers : restores[k] = "short" => overlapped
  /\ client = "short" => overlapped \/ \E k \in DeezerCheckers : Swapped(k)

LEMMA SessionInvInit == DeezerSessionInit => SessionInv
<1> SUFFICES ASSUME DeezerSessionInit PROVE SessionInv
  OBVIOUS
<1>1. /\ account = "unknown" /\ client = "long" /\ standing = FALSE /\ overlapped = FALSE
      /\ restores = [k \in DeezerCheckers |-> "long"]
  BY DEF DeezerSessionInit
<1>2. session \in [authenticated : BOOLEAN, publicHealthy : BOOLEAN, licensed : BOOLEAN]
      /\ session.authenticated = FALSE
  BY DEF DeezerSessionInit
<1>3. /\ dealing \in [DeezerActors -> CheckerSteps]
      /\ \A a \in DeezerActors : dealing[a] = "idle"
      /\ \A c \in DeezerCallers : dealing[c] \in CallerSteps
      /\ \A k \in DeezerCheckers : dealing[k] \in Answered /\ dealing[k] \notin {"ok", "closing ok"}
  BY DEF DeezerSessionInit, DeezerActors, CheckerSteps, CallerSteps, Answered
<1> QED
  BY <1>1, <1>2, <1>3 DEF SessionInv

\* A caller's or a check's answer from authenticate: who deals next, and that a
\* check at the client stays there.
LEMMA Returned ==
  ASSUME SessionInv, NEW a \in DeezerActors, NEW answer \in {"ok", "error"}, AuthReturns(a, answer)
  PROVE  /\ dealing' = [dealing EXCEPT ![a] = dealing'[a]]
         /\ a \in DeezerCallers => dealing'[a] = answer
         /\ a \in DeezerCheckers /\ answer = "ok" => dealing'[a] = "closing ok"
         /\ a \in DeezerCheckers /\ answer = "error" => dealing'[a] = "closing error"
<1>1. Closing["ok"] = "closing ok" /\ Closing["error"] = "closing error"
  BY DEF Closing
<1>2. DOMAIN dealing = DeezerActors /\ a \in DeezerActors
  BY DEF SessionInv
<1>3. a \in DeezerCheckers => a \notin DeezerCallers
  BY DeezerAssumption
<1> QED
  BY <1>1, <1>2, <1>3 DEF AuthReturns

LEMMA SessionInvStep == SessionInv /\ [DeezerSessionNext]_deezerSessionVars => SessionInv'
<1> SUFFICES ASSUME SessionInv, [DeezerSessionNext]_deezerSessionVars PROVE SessionInv'
  OBVIOUS
<1> USE DEF CallerSteps, CheckerSteps, Answered, Swapped, DeezerActors
<1>1. ASSUME NEW arl \in {"none", "good", "expired"}, NewDownloadClient(arl) PROVE SessionInv'
  BY <1>1 DEF NewDownloadClient, SessionInv
<1>2. CASE ArlExpires
  BY <1>2 DEF ArlExpires, SessionInv
<1>3. ASSUME NEW a \in DeezerCallers, ensureAuth(a) PROVE SessionInv'
  <2>1. \A k \in DeezerCheckers : dealing'[k] = dealing[k]
    BY <1>3, DeezerAssumption DEF ensureAuth, SessionInv
  <2> QED
    BY <1>3, <2>1 DEF ensureAuth, SessionInv
<1>4. ASSUME NEW a \in DeezerActors, authenticate(a) PROVE SessionInv'
  <2>1. /\ dealing[a] = "lock" /\ account # "unknown"
        /\ UNCHANGED <<account, client, restores, proven, standing, overlapped>>
    BY <1>4 DEF authenticate, SessionInv
  <2>2. CASE session.authenticated
    <3>1. AuthReturns(a, "ok") /\ session' = session
      BY <1>4, <2>2 DEF authenticate
    <3>2. /\ dealing' = [dealing EXCEPT ![a] = dealing'[a]]
          /\ a \in DeezerCallers => dealing'[a] = "ok"
          /\ a \in DeezerCheckers => dealing'[a] = "closing ok"
      BY <3>1, Returned
    <3>3. /\ dealing' \in [DeezerActors -> CheckerSteps]
          /\ \A c \in DeezerCallers : dealing'[c] \in CallerSteps
      BY <3>2, DeezerAssumption, ZenonT(40) DEF SessionInv
    <3>4. \A k \in DeezerCheckers :
            /\ dealing'[k] \notin Answered /\ session.authenticated => k \in proven
            /\ dealing'[k] \in {"ok", "closing ok"} /\ account # "none" => k \in proven
            /\ Swapped(k) => Swapped(k)'
      BY <2>1, <2>2, <3>2 DEF SessionInv
    <3> QED
      BY <2>1, <3>1, <3>3, <3>4 DEF SessionInv
  <2>3. CASE ~session.authenticated /\ account = "none"
    <3>1. AuthReturns(a, "error") /\ session' = session
      BY <1>4, <2>3 DEF authenticate
    <3>2. /\ dealing' = [dealing EXCEPT ![a] = dealing'[a]]
          /\ a \in DeezerCallers => dealing'[a] = "error"
          /\ a \in DeezerCheckers => dealing'[a] = "closing error"
      BY <3>1, Returned
    <3>3. /\ dealing' \in [DeezerActors -> CheckerSteps]
          /\ \A c \in DeezerCallers : dealing'[c] \in CallerSteps
      BY <3>2, DeezerAssumption, ZenonT(40) DEF SessionInv
    <3>4. \A k \in DeezerCheckers :
            /\ dealing'[k] \notin Answered /\ session.authenticated => k \in proven
            /\ dealing'[k] \in {"ok", "closing ok"} /\ account # "none" => k \in proven
            /\ Swapped(k) => Swapped(k)'
      BY <2>1, <2>3, <3>2 DEF SessionInv
    <3> QED
      BY <2>1, <3>1, <3>3, <3>4 DEF SessionInv
  <2>4. CASE ~session.authenticated /\ account # "none"
    <3>1. /\ dealing' = [dealing EXCEPT ![a] = "login"]
          /\ session' = [session EXCEPT !.authenticated = FALSE]
      BY <1>4, <2>4 DEF authenticate
    <3> QED
      BY <2>1, <2>4, <3>1 DEF SessionInv
  <2> QED
    BY <2>2, <2>3, <2>4
<1>5. ASSUME NEW a \in DeezerActors, LoggedIn(a) PROVE SessionInv'
  <2>1. PICK licensed \in {TRUE, session.licensed} :
          session' = [session EXCEPT !.authenticated = TRUE, !.licensed = licensed]
    BY <1>5 DEF LoggedIn
  <2>2. /\ dealing[a] = "login" /\ account = "good" /\ AuthReturns(a, "ok") /\ standing' = TRUE
        /\ proven' = {k \in DeezerCheckers : dealing[k] \notin Answered} \cup proven
        /\ UNCHANGED <<account, client, restores, overlapped>>
    BY <1>5 DEF LoggedIn
  <2>3. /\ dealing' = [dealing EXCEPT ![a] = dealing'[a]]
        /\ a \in DeezerCallers => dealing'[a] = "ok"
        /\ a \in DeezerCheckers => dealing'[a] = "closing ok"
    BY <2>2, Returned
  <2>4. session' \in [authenticated : BOOLEAN, publicHealthy : BOOLEAN, licensed : BOOLEAN]
        /\ session'.authenticated = TRUE
    BY <2>1 DEF SessionInv
  <2>5. \A k \in DeezerCheckers :
          /\ dealing'[k] \notin Answered => k \in proven'
          /\ dealing'[k] \in {"ok", "closing ok"} => k \in proven'
    BY <2>2, <2>3 DEF SessionInv
  <2>6. /\ dealing' \in [DeezerActors -> CheckerSteps]
        /\ \A c \in DeezerCallers : dealing'[c] \in CallerSteps
    BY <2>2, <2>3, DeezerAssumption DEF SessionInv
  <2>7. \A k \in DeezerCheckers : Swapped(k) => Swapped(k)'
    BY <2>2, <2>3 DEF SessionInv
  <2> QED
    BY <2>2, <2>4, <2>5, <2>6, <2>7 DEF SessionInv
<1>6. ASSUME NEW a \in DeezerActors, LoginFails(a) PROVE SessionInv'
  <2>1. /\ dealing[a] = "login" /\ AuthReturns(a, "error")
        /\ UNCHANGED <<account, session, client, restores, proven, standing, overlapped>>
    BY <1>6 DEF LoginFails
  <2>2. /\ dealing' = [dealing EXCEPT ![a] = dealing'[a]]
        /\ a \in DeezerCallers => dealing'[a] = "error"
        /\ a \in DeezerCheckers => dealing'[a] = "closing error"
    BY <2>1, Returned
  <2> QED
    BY <2>1, <2>2, ZenonT(40) DEF SessionInv
<1>7. ASSUME NEW k \in DeezerCheckers, CheckConnection(k) PROVE SessionInv'
  BY <1>7, DeezerAssumption DEF CheckConnection, SessionInv
<1>8. ASSUME NEW k \in DeezerCheckers, PublicFails(k) PROVE SessionInv'
  BY <1>8, DeezerAssumption DEF PublicFails, SessionInv
<1>9. ASSUME NEW k \in DeezerCheckers, PublicAnswers(k) PROVE SessionInv'
  <2>1. /\ dealing[k] = "public" /\ session' = [session EXCEPT !.publicHealthy = TRUE]
        /\ UNCHANGED <<account, authHolder, proven, standing>> /\ account # "unknown"
    BY <1>9 DEF PublicAnswers, SessionInv
  <2>2. CASE account = "none"
    BY <1>9, <2>1, <2>2, DeezerAssumption, ZenonT(40) DEF PublicAnswers, SessionInv
  <2>3. CASE account # "none"
    <3>1. /\ restores' = [restores EXCEPT ![k] = client] /\ client' = "short"
          /\ dealing' = [dealing EXCEPT ![k] = "lock"]
          /\ overlapped' = (overlapped \/ \E o \in DeezerCheckers : Swapped(o))
      BY <1>9, <2>3 DEF PublicAnswers
    <3>2. Swapped(k)' /\ overlapped' \in BOOLEAN
      BY <3>1 DEF SessionInv
    <3>3. \A j \in DeezerCheckers : restores'[j] = "short" => overlapped'
      <4>1. CASE overlapped
        BY <3>1, <4>1
      <4>2. CASE ~overlapped /\ client = "short"
        BY <3>1, <4>2 DEF SessionInv
      <4>3. CASE ~overlapped /\ client = "long"
        BY <3>1, <4>3 DEF SessionInv
      <4> QED
        BY <4>1, <4>2, <4>3 DEF SessionInv
    <3>4. /\ session' \in [authenticated : BOOLEAN, publicHealthy : BOOLEAN, licensed : BOOLEAN]
          /\ session'.authenticated = session.authenticated
      BY <2>1 DEF SessionInv
    <3> QED
      BY <2>1, <3>1, <3>2, <3>3, <3>4, DeezerAssumption DEF SessionInv
  <2> QED
    BY <2>2, <2>3
<1>10. ASSUME NEW k \in DeezerCheckers, RestoreClient(k) PROVE SessionInv'
  <2>1. PICK answer \in {"ok", "error"} :
          /\ dealing[k] = Closing[answer] /\ dealing' = [dealing EXCEPT ![k] = answer]
    BY <1>10 DEF RestoreClient, Closing
  <2>2. Closing["ok"] = "closing ok" /\ Closing["error"] = "closing error"
    BY DEF Closing
  <2>3. /\ client' = restores[k] /\ account # "unknown"
        /\ UNCHANGED <<account, session, authHolder, restores, proven, standing, overlapped>>
    BY <1>10, <2>1, <2>2 DEF RestoreClient, SessionInv
  <2>4. \/ dealing[k] = "closing ok" /\ answer = "ok"
        \/ dealing[k] = "closing error" /\ answer = "error"
    BY <2>1, <2>2
  <2> QED
    BY <2>1, <2>3, <2>4, DeezerAssumption DEF SessionInv
<1>11. CASE UNCHANGED deezerSessionVars
  BY <1>11 DEF deezerSessionVars, SessionInv
<1> QED
  BY <1>1, <1>2, <1>3, <1>4, <1>5, <1>6, <1>7, <1>8, <1>9, <1>10, <1>11 DEF DeezerSessionNext

LEMMA SessionInvHolds == ProvidersSpec => []SessionInv
<1>1. ProvidersInit => SessionInv
  BY SessionInvInit DEF ProvidersInit
<1>2. SessionInv /\ [ProvidersNext]_<<scene, providers>> => SessionInv'
  BY SessionInvStep, ScenesAreSteps
<1> QED
  BY <1>1, <1>2, PTL DEF ProvidersSpec

\* Whatever other checks, searches and downloads do in between, a connection
\* check that answers well saw a login after it began (download.go ensureAuth,
\* CheckConnection).
THEOREM ChecksHonest == ProvidersSpec => []LoginHonest
<1>1. SessionInv => LoginHonest
  BY DEF SessionInv, LoginHonest
<1> QED
  BY <1>1, SessionInvHolds, PTL
----------------------------------------------------------------------------
(* The providers' cooldown *)

Hits == [count : 0 .. CoolMax + 1, first : Nat]
Runs == [phase : {"album", "cover", "done"}, todo : Seq(Limited), try : {"full", "primary"},
         album : BOOLEAN, cover : BOOLEAN]
Owes(m, p) == marking[m] # NoWrite /\ marking[m].prov = p

\* A parked provider has a row, or somebody still owes the table one.
CoolInv ==
  /\ clock \in Nat \ {0}
  /\ until \in [Limited -> Nat] /\ stored \in [Limited -> Nat]
  /\ hits \in [Limited -> Hits]
  /\ marking \in [Markers -> {NoWrite} \cup [prov : Limited, until : Nat \ {0}]]
  /\ enrich \in Runs
  /\ \A p \in Limited : until[p] # 0 => stored[p] # 0 \/ \E m \in Markers : Owes(m, p)

LEMMA CoolInvInit == CooldownInit => CoolInv
<1>1. NoRun \in Runs
  BY DEF NoRun, Runs
<1>2. NoHits \in Hits
  BY CooldownAssumption DEF NoHits, Hits
<1> QED
  BY <1>1, <1>2 DEF CooldownInit, CoolInv

\* The escalation never parks for longer than the cap, and its hits are counted
\* no further than until it is reached.
LEMMA EscalationBounded ==
  ASSUME NEW c \in 1 .. CoolMax + 1
  PROVE  /\ escalationDuration(c) \in Nat
         /\ escalationDuration(c) < CoolMax => c <= CoolMax
<1>1. CoolMax \in Nat /\ CoolDefault \in Nat \ {0}
  BY CooldownAssumption
<1> DEFINE n == c - 1  power == 2 ^ n
<1>2. n \in 0 .. CoolMax
  BY <1>1
<1>3. power \in Nat /\ n < power
  BY <1>2, DoublingAssumption
<1> HIDE DEF power
<1>4. CoolDefault * power \in Nat /\ power <= CoolDefault * power
  BY <1>1, <1>3
<1>5. escalationDuration(c) = AtMost(CoolDefault * power, CoolMax)
  BY DEF escalationDuration, power
<1> QED
  BY <1>1, <1>3, <1>4, <1>5 DEF AtMost

LEMMA ParkBounded ==
  ASSUME CoolInv, NEW p \in Limited, NEW r \in RetryAfters
  PROVE  ParkFor(p, r) \in Nat /\ CountedHits(p) \in Hits
<1>1. /\ CoolMax \in Nat /\ CoolDefault \in Nat /\ BanGrace \in Nat /\ BanThreshold \in Nat
      /\ r \in Nat /\ clock \in Nat
  BY CooldownAssumption DEF CoolInv
<1>2. hits[p] \in Hits
  BY DEF CoolInv
<1>3. CountedHits(p) \in Hits /\ CountedHits(p).count \in 1 .. CoolMax + 1
  <2>1. CASE hits[p].count = 0 \/ clock - hits[p].first > EscalationWindow
    BY <1>1, <2>1 DEF CountedHits, Hits
  <2>2. CASE ~(hits[p].count = 0 \/ clock - hits[p].first > EscalationWindow)
    <3>1. hits[p].count \in 1 .. CoolMax + 1
      BY <1>1, <1>2, <2>2 DEF Hits
    <3>2. CASE escalationDuration(hits[p].count) < CoolMax
      <4>1. hits[p].count + 1 \in 1 .. CoolMax + 1
        BY <1>1, <3>1, <3>2, EscalationBounded
      <4>2. CountedHits(p) = [hits[p] EXCEPT !.count = hits[p].count + 1]
        BY <2>2, <3>2 DEF CountedHits
      <4> QED
        BY <1>1, <1>2, <4>1, <4>2 DEF Hits
    <3>3. CASE ~(escalationDuration(hits[p].count) < CoolMax)
      <4>1. CountedHits(p) = [hits[p] EXCEPT !.count = hits[p].count]
        BY <2>2, <3>3 DEF CountedHits
      <4> QED
        BY <1>1, <1>2, <3>1, <4>1 DEF Hits
    <3> QED
      BY <3>2, <3>3
  <2> QED
    BY <2>1, <2>2
<1>4. escalationDuration(CountedHits(p).count) \in Nat
  BY <1>3, EscalationBounded
<1> QED
  BY <1>1, <1>3, <1>4 DEF ParkFor, AtMost, AtLeast

LEMMA MarkAfterKeeps ==
  ASSUME CoolInv, NEW m \in Markers, NEW p \in Limited, NEW r \in RetryAfters, MarkAfter(m, p, r),
         enrich' \in Runs
  PROVE  CoolInv'
<1> DEFINE v == clock + ParkFor(p, r)
<1>1. v \in Nat \ {0} /\ CountedHits(p) \in Hits
  BY ParkBounded DEF CoolInv
<1>2. /\ marking[m] = NoWrite /\ until' = [until EXCEPT ![p] = v]
      /\ hits' = [hits EXCEPT ![p] = IF r > 0 THEN NoHits ELSE CountedHits(p)]
      /\ marking' = [marking EXCEPT ![m] = [prov |-> p, until |-> v]]
      /\ UNCHANGED <<clock, stored>>
  BY DEF MarkAfter
<1> HIDE DEF v
<1>3. NoHits \in Hits
  BY CooldownAssumption DEF NoHits, Hits
<1>4. hits' \in [Limited -> Hits]
  BY <1>1, <1>2, <1>3 DEF CoolInv
<1>5. marking' \in [Markers -> {NoWrite} \cup [prov : Limited, until : Nat \ {0}]]
  BY <1>1, <1>2 DEF CoolInv
<1>6. marking'[m] = [prov |-> p, until |-> v]
  BY <1>2 DEF CoolInv
<1>7. Owes(m, p)'
  BY <1>1, <1>6 DEF Owes, NoWrite
<1>8. \A k \in Markers, q \in Limited : Owes(k, q) => Owes(k, q)'
  BY <1>2 DEF Owes, CoolInv
<1>9. until' \in [Limited -> Nat] /\ \A q \in Limited : q # p => until'[q] = until[q]
  BY <1>1, <1>2 DEF CoolInv
<1>10. ASSUME NEW q \in Limited, until'[q] # 0
       PROVE  stored'[q] # 0 \/ \E k \in Markers : Owes(k, q)'
  BY <1>2, <1>7, <1>8, <1>9, <1>10 DEF CoolInv
<1> QED
  BY <1>2, <1>4, <1>5, <1>9, <1>10 DEF CoolInv

LEMMA RunGoesOn == CoolInv /\ enrich.todo # <<>> => NextProvider(enrich) \in Runs /\ Head(enrich.todo) \in Limited
<1> SUFFICES ASSUME CoolInv, enrich.todo # <<>>
             PROVE  NextProvider(enrich) \in Runs /\ Head(enrich.todo) \in Limited
  OBVIOUS
<1>1. enrich \in Runs /\ enrich.todo \in Seq(Limited)
  BY DEF CoolInv, Runs
<1>2. Tail(enrich.todo) \in Seq(Limited) /\ Head(enrich.todo) \in Limited
  BY <1>1
<1>3. [enrich EXCEPT !.todo = Tail(enrich.todo), !.try = "full"] \in Runs
  BY <1>1, <1>2 DEF Runs
<1>4. NoRun \in Runs
  BY DEF NoRun, Runs
<1> QED
  BY <1>2, <1>3, <1>4 DEF NextProvider

LEMMA CoolInvStep == CoolInv /\ [CooldownNext]_cooldownVars => CoolInv'
<1> SUFFICES ASSUME CoolInv, [CooldownNext]_cooldownVars PROVE CoolInv'
  OBVIOUS
<1>1. ASSUME enrich' \in Runs, UNCHANGED <<clock, until, hits, stored, marking>> PROVE CoolInv'
  BY <1>1 DEF CoolInv, Owes
<1>2. ASSUME NEW m \in Markers, SetCooldown(m) PROVE CoolInv'
  <2>1. /\ marking[m] \in [prov : Limited, until : Nat \ {0}]
        /\ stored' = [stored EXCEPT ![marking[m].prov] = marking[m].until]
        /\ marking' = [marking EXCEPT ![m] = NoWrite]
        /\ UNCHANGED <<clock, until, hits, enrich>>
    BY <1>2 DEF SetCooldown, CoolInv
  <2>2. stored' \in [Limited -> Nat] /\ marking' \in [Markers -> {NoWrite} \cup [prov : Limited, until : Nat \ {0}]]
    BY <2>1 DEF CoolInv
  <2>3. \A p \in Limited : stored[p] # 0 \/ Owes(m, p) => stored'[p] # 0
    BY <2>1 DEF CoolInv, Owes
  <2>4. \A k \in Markers, p \in Limited : k # m /\ Owes(k, p) => Owes(k, p)'
    BY <2>1 DEF CoolInv, Owes
  <2> QED
    BY <2>1, <2>2, <2>3, <2>4 DEF CoolInv
<1>3. ASSUME NEW m \in Markers, NEW p \in Limited, NEW r \in RetryAfters, MarkAfter(m, p, r), UNCHANGED enrich
      PROVE  CoolInv'
  BY <1>3, MarkAfterKeeps DEF CoolInv
<1>4. ASSUME NEW p \in Limited, ClearCooldown(p) PROVE CoolInv'
  <2>1. NoHits \in Hits
    BY CooldownAssumption DEF NoHits, Hits
  <2> QED
    BY <1>4, <2>1 DEF ClearCooldown, CoolInv, Owes
<1>5. ASSUME NEW hasAlbum \in BOOLEAN, StartEnrich(hasAlbum) PROVE CoolInv'
  <2>1. enrich' \in Runs
    BY <1>5, CooldownAssumption DEF StartEnrich, NoRun, Runs
  <2> QED
    BY <1>1, <1>5, <2>1 DEF StartEnrich
<1>6. CASE SkipCooling
  BY <1>1, <1>6, RunGoesOn DEF SkipCooling
<1>7. CASE EnrichFound
  <2>1. enrich' \in Runs
    <3>1. NoRun \in Runs
      BY DEF NoRun, Runs
    <3>2. EnrichOrder \in Seq(Limited)
      BY CooldownAssumption
    <3>3. [NoRun EXCEPT !.phase = "cover", !.todo = EnrichOrder, !.album = TRUE] \in Runs
      BY <3>1, <3>2 DEF Runs
    <3> QED
      BY <1>7, <3>1, <3>3 DEF EnrichFound
  <2> QED
    BY <1>1, <1>7, <2>1 DEF EnrichFound
<1>8. CASE EnrichNothing
  <2>1. enrich \in Runs
    BY DEF CoolInv
  <2>2. [enrich EXCEPT !.try = "primary"] \in Runs
    BY <2>1 DEF Runs
  <2> QED
    BY <1>1, <1>8, <2>2, RunGoesOn DEF EnrichNothing, MayAsk
<1>9. ASSUME NEW m \in Markers, NEW r \in RetryAfters, EnrichLimited(m, r) PROVE CoolInv'
  BY <1>9, RunGoesOn, MarkAfterKeeps DEF EnrichLimited, MayAsk
<1>10. CASE Restore
  <2>1. NoHits \in Hits /\ NoRun \in Runs
    BY CooldownAssumption DEF NoHits, Hits, NoRun, Runs
  <2>2. \A p \in Limited : until'[p] # 0 => stored'[p] # 0
    BY <1>10 DEF Restore, CoolInv
  <2> QED
    BY <1>10, <2>1, <2>2 DEF Restore, CoolInv
<1>11. CASE TimePasses
  BY <1>11 DEF TimePasses, CoolInv, Owes
<1>12. CASE UNCHANGED cooldownVars
  BY <1>12 DEF cooldownVars, CoolInv, Owes
<1> QED
  BY <1>2, <1>3, <1>4, <1>5, <1>6, <1>7, <1>8, <1>9, <1>10, <1>11, <1>12 DEF CooldownNext

LEMMA CoolInvHolds == ProvidersSpec => []CoolInv
<1>1. ProvidersInit => CoolInv
  BY CoolInvInit DEF ProvidersInit
<1>2. CoolInv /\ [ProvidersNext]_<<scene, providers>> => CoolInv'
  BY CoolInvStep, ScenesAreSteps
<1> QED
  BY <1>1, <1>2, PTL DEF ProvidersSpec

\* A pause survives a restart: whoever parked a provider has left a row, also
\* when clears and other marks came between the bucket and the table
\* (cooldown.go MarkAfter).
THEOREM PauseStored == ProvidersSpec => []ParkedIsStored
<1>1. CoolInv => ParkedIsStored
  BY DEF CoolInv, ParkedIsStored, CoolingDown, Owes
<1> QED
  BY <1>1, CoolInvHolds, PTL
----------------------------------------------------------------------------
(* The Tidal client's token *)

InFlight(u) == using[u].at \in {"ask", "store", "persist"}

\* A client whose token the next who gets its lock will ask with.
Waits(g) ==
  /\ tidalClients[g].expired
  /\ g = live \/ \E u \in TokenUsers : using[u].at = "lock" /\ using[u].client = g
Refreshing(g) == Waits(g) \/ \E u \in TokenUsers : InFlight(u) /\ using[u].client = g

\* The tokens that may still be spent before the access tokens expire again.
Askable(x) ==
  \/ \E u \in TokenUsers : using[u].at = "ask" /\ using[u].token = x
  \/ \E g \in Generations : Waits(g) /\ tidalClients[g].refresh = x
Sure(x) == x \notin spentTokens /\ ~Askable(x)

TokenTyped ==
  /\ live \in Generations /\ granted \in Nat /\ persisted \in 0 .. granted
  /\ spentTokens \subseteq 0 .. granted
  /\ tidalClients \in [Generations -> [refresh : 0 .. granted, expired : BOOLEAN, hook : BOOLEAN]]
  /\ \A g \in Generations : g > live => ~tidalClients[g].expired
  /\ refreshMu \in [Generations -> TokenUsers \cup {Nobody}]
  /\ using \in [TokenUsers -> [at : {"away", "lock", "ask", "store", "persist", "unlock"},
                               client : 1 .. live, token : 0 .. granted]]
  /\ device \in [at : {"none", "login", "grant", "persist", "read", "update", "rebuild"},
                 client : 1 .. live, token : 0 .. granted]
  /\ unhooked \in BOOLEAN

\* One client at a time is refreshed, by one goroutine.
OneRefresh ==
  /\ \A u \in TokenUsers : InFlight(u) \/ using[u].at = "unlock" => refreshMu[using[u].client] = u
  /\ \A g, h \in Generations : Refreshing(g) /\ Refreshing(h) => g = h

\* What a refresh got is good; what the device flow got, no refresh can spend.
AnswersGood ==
  /\ \A u \in TokenUsers : using[u].at = "store" => using[u].token \notin spentTokens
  /\ \A u \in TokenUsers :
       using[u].at = "persist" => Sure(using[u].token) /\ tidalClients[using[u].client].hook
  /\ device.at \in {"grant", "persist", "update"} => Sure(device.token)
  /\ device.at \in {"persist", "read"} => Sure(tidalClients[device.client].refresh)
  /\ device.at = "rebuild" => Sure(persisted)

\* A refresh that will not be persisted does not concern the persisted token,
\* once a device flow has put a hooked client in the place of the unhooked one.
PersistedGood ==
  /\ unhooked = ~tidalClients[live].hook
  /\ ~unhooked => \A g \in Generations : Refreshing(g) /\ ~tidalClients[g].hook => Sure(persisted)
  /\ persisted \in spentTokens => unhooked \/ \E u \in TokenUsers : Answering(u)

TokenInv == TokenTyped /\ OneRefresh /\ AnswersGood /\ PersistedGood
LEMMA TokenInvInit == TokenInit => TokenInv
<1> SUFFICES ASSUME TokenInit PROVE TokenInv
  OBVIOUS
<1>1. 1 \in Generations /\ \A g \in Generations : g \in Nat /\ g >= 1
  BY TokenAssumption DEF Generations
<1>2. /\ live = 1 /\ persisted = 1 /\ granted = 1 /\ spentTokens = {} /\ unhooked = FALSE
      /\ \A u \in TokenUsers : using[u] = Away
      /\ device.at = "none"
  BY DEF TokenInit, NoFlow
<1>3. tidalClients \in [Generations -> [refresh : 0 .. 1, expired : BOOLEAN, hook : BOOLEAN]]
  BY DEF TokenInit, NewClient, NoClient, NoToken
<1>4. \A g \in Generations : tidalClients[g].expired = FALSE
  BY DEF TokenInit, NewClient, NoClient
<1>5. using \in [TokenUsers -> [at : {"away", "lock", "ask", "store", "persist", "unlock"},
                                client : 1 .. 1, token : 0 .. 1]]
  BY DEF TokenInit, Away, NoToken
<1>6. device \in [at : {"none", "login", "grant", "persist", "read", "update", "rebuild"},
                  client : 1 .. 1, token : 0 .. 1]
  BY DEF TokenInit, NoFlow, NoToken
<1>7. TokenTyped
  <2>1. live \in Generations /\ granted \in Nat /\ persisted \in 0 .. granted /\ spentTokens \subseteq 0 .. granted
    BY <1>1, <1>2
  <2>2. refreshMu \in [Generations -> TokenUsers \cup {Nobody}] /\ unhooked \in BOOLEAN
    BY <1>2 DEF TokenInit
  <2> QED
    BY <1>2, <1>3, <1>4, <1>5, <1>6, <2>1, <2>2 DEF TokenTyped
<1>8. \A u \in TokenUsers : using[u].at = "away"
  BY <1>2 DEF Away
<1>9. tidalClients[live].hook = TRUE
  BY <1>1 DEF TokenInit, NewClient
<1>10. \A g \in Generations : ~Refreshing(g)
  BY <1>4, <1>8 DEF Refreshing, Waits, InFlight
<1> QED
  BY <1>2, <1>7, <1>8, <1>9, <1>10 DEF TokenInv, OneRefresh, AnswersGood, PersistedGood, InFlight

LEMMA UsingStep ==
  ASSUME TokenTyped, NEW u \in TokenUsers
  PROVE  /\ using[u].client \in Generations /\ using[u].client <= live
         /\ using[u].token \in 0 .. granted
<1>1. using[u].client \in 1 .. live /\ using[u].token \in 0 .. granted
  BY DEF TokenTyped
<1> QED
  BY <1>1, TokenAssumption DEF TokenTyped, Generations

LEMMA TokenTypedStep == TokenTyped /\ [TokenNext]_tokenVars => TokenTyped'
<1> SUFFICES ASSUME TokenTyped, [TokenNext]_tokenVars PROVE TokenTyped'
  OBVIOUS
<1> DEFINE Steps == {"away", "lock", "ask", "store", "persist", "unlock"}
           Flow == {"none", "login", "grant", "persist", "read", "update", "rebuild"}
<1>a. /\ live \in Nat /\ live >= 1 /\ live \in Generations /\ granted \in Nat /\ persisted \in 0 .. granted
      /\ using \in [TokenUsers -> [at : Steps, client : 1 .. live, token : 0 .. granted]]
      /\ device \in [at : Flow, client : 1 .. live, token : 0 .. granted]
  BY TokenAssumption DEF TokenTyped, Generations
<1>d. device.client \in Generations /\ device.token \in 0 .. granted
  <2>1. device.client \in 1 .. live /\ device.token \in 0 .. granted
    BY <1>a
  <2> QED
    BY <1>a, <2>1, TokenAssumption DEF Generations
<1>b. Away \in [at : Steps, client : 1 .. live, token : 0 .. granted]
  BY <1>a DEF Away, NoToken
<1>c. NoFlow \in [at : Flow, client : 1 .. live, token : 0 .. granted]
  BY <1>a DEF NoFlow, NoToken
<1>1. ASSUME NEW u \in TokenUsers, NeedToken(u) PROVE TokenTyped'
  <2>1. using' \in [TokenUsers -> [at : Steps, client : 1 .. live, token : 0 .. granted]]
    BY <1>1, <1>a DEF NeedToken, NoToken
  <2> QED
    BY <1>1, <2>1 DEF NeedToken, TokenTyped
<1>2. ASSUME NEW u \in TokenUsers, LockAndLook(u) PROVE TokenTyped'
  <2>1. using[u].client \in Generations
    BY UsingStep
  <2>2. tidalClients[using[u].client].refresh \in 0 .. granted
    BY <2>1 DEF TokenTyped
  <2>3. using' \in [TokenUsers -> [at : Steps, client : 1 .. live, token : 0 .. granted]]
    BY <1>2, <1>a, <1>b, <2>2 DEF LockAndLook, UsesToken, Returns
  <2>4. refreshMu' \in [Generations -> TokenUsers \cup {Nobody}]
    BY <1>2, <2>1 DEF LockAndLook, TokenTyped
  <2> QED
    BY <1>2, <2>3, <2>4 DEF LockAndLook, TokenTyped
<1>3. ASSUME NEW u \in TokenUsers, refreshAccessToken(u) PROVE TokenTyped'
  <2>1. UNCHANGED <<tidalClients, live, persisted, device, unhooked>>
    BY <1>3 DEF refreshAccessToken
  <2>2. using[u].token \in 0 .. granted
    BY UsingStep
  <2>3. CASE /\ granted' = granted + 1 /\ spentTokens' = spentTokens \cup {using[u].token}
             /\ UsesToken(u, "store", granted + 1) /\ UNCHANGED refreshMu
    <3>1. using' \in [TokenUsers -> [at : Steps, client : 1 .. live, token : 0 .. granted']]
      BY <1>a, <2>3 DEF UsesToken
    <3>2. device' \in [at : Flow, client : 1 .. live, token : 0 .. granted']
      BY <1>a, <2>1, <2>3
    <3>3. 0 .. granted \subseteq 0 .. granted' /\ granted' \in Nat
      BY <1>a, <2>3
    <3>4. spentTokens' \subseteq 0 .. granted'
      <4>1. spentTokens \subseteq 0 .. granted
        BY DEF TokenTyped
      <4> QED
        BY <2>2, <2>3, <3>3, <4>1
    <3>5. tidalClients' \in [Generations -> [refresh : 0 .. granted', expired : BOOLEAN, hook : BOOLEAN]]
      BY <2>1, <3>3 DEF TokenTyped
    <3> QED
      BY <2>1, <2>3, <3>1, <3>2, <3>3, <3>4, <3>5 DEF TokenTyped
  <2>4. CASE Uses(u, "store") /\ UNCHANGED <<granted, spentTokens, refreshMu>>
    <3>1. using' \in [TokenUsers -> [at : Steps, client : 1 .. live, token : 0 .. granted]]
      BY <1>a, <2>4 DEF Uses
    <3> QED
      BY <2>1, <2>4, <3>1 DEF TokenTyped
  <2>5. CASE Returns(u) /\ ReleaseRefresh(u) /\ UNCHANGED <<granted, spentTokens>>
    <3>1. using' \in [TokenUsers -> [at : Steps, client : 1 .. live, token : 0 .. granted]]
      BY <1>a, <1>b, <2>5 DEF Returns
    <3> QED
      BY <2>1, <2>5, <3>1 DEF TokenTyped, ReleaseRefresh
  <2> QED
    BY <1>3, <2>3, <2>4, <2>5 DEF refreshAccessToken
<1>4. ASSUME NEW g \in Generations, NEW t \in 0 .. granted, TokenStored(g, t)
      PROVE  /\ tidalClients' \in [Generations -> [refresh : 0 .. granted, expired : BOOLEAN, hook : BOOLEAN]]
             /\ \A h \in Generations : h > live => ~tidalClients'[h].expired
  <2>1. /\ tidalClients \in [Generations -> [refresh : 0 .. granted, expired : BOOLEAN, hook : BOOLEAN]]
        /\ \A h \in Generations : h > live => ~tidalClients[h].expired
    BY DEF TokenTyped
  <2>2. tidalClients' = [tidalClients EXCEPT ![g].refresh = t, ![g].expired = FALSE]
    BY <1>4 DEF TokenStored
  <2>3. tidalClients' \in [Generations -> [refresh : 0 .. granted, expired : BOOLEAN, hook : BOOLEAN]]
    BY <2>1, <2>2
  <2>4. \A h \in Generations : tidalClients'[h].expired => tidalClients[h].expired
    BY <2>1, <2>2
  <2> QED
    BY <2>1, <2>3, <2>4
<1>5. ASSUME NEW u \in TokenUsers, storeToken(u) PROVE TokenTyped'
  <2>1. using[u].client \in Generations /\ using[u].token \in 0 .. granted
    BY UsingStep
  <2>2. using' \in [TokenUsers -> [at : Steps, client : 1 .. live, token : 0 .. granted]]
    BY <1>5, <1>a DEF storeToken, Uses
  <2> QED
    BY <1>4, <1>5, <2>1, <2>2 DEF storeToken, TokenTyped
<1>6. ASSUME NEW u \in TokenUsers, PersistRefreshed(u) PROVE TokenTyped'
  <2>1. using[u].token \in 0 .. granted
    BY UsingStep
  <2>2. using' \in [TokenUsers -> [at : Steps, client : 1 .. live, token : 0 .. granted]]
    BY <1>6, <1>a DEF PersistRefreshed, Uses
  <2> QED
    BY <1>6, <2>1, <2>2 DEF PersistRefreshed, persistTidalToken, TokenTyped
<1>7. ASSUME NEW u \in TokenUsers, Unlock(u) PROVE TokenTyped'
  <2>1. using' \in [TokenUsers -> [at : Steps, client : 1 .. live, token : 0 .. granted]]
    BY <1>7, <1>a, <1>b DEF Unlock, Returns
  <2> QED
    BY <1>7, <2>1 DEF Unlock, ReleaseRefresh, TokenTyped
<1>8. CASE IsTokenExpired
  <2>1. /\ tidalClients' = [g \in Generations |-> [tidalClients[g] EXCEPT !.expired = (g <= live)]]
        /\ UNCHANGED <<live, persisted, granted, spentTokens, refreshMu, using, device, unhooked>>
    BY <1>8 DEF IsTokenExpired
  <2>2. tidalClients' \in [Generations -> [refresh : 0 .. granted, expired : BOOLEAN, hook : BOOLEAN]]
    <3>1. \A g \in Generations : (g <= live) \in BOOLEAN
      OBVIOUS
    <3>2. tidalClients \in [Generations -> [refresh : 0 .. granted, expired : BOOLEAN, hook : BOOLEAN]]
      BY DEF TokenTyped
    <3>3. \A c \in [refresh : 0 .. granted, expired : BOOLEAN, hook : BOOLEAN], b \in BOOLEAN :
            [c EXCEPT !.expired = b] \in [refresh : 0 .. granted, expired : BOOLEAN, hook : BOOLEAN]
      OBVIOUS
    <3> QED
      BY <2>1, <3>1, <3>2, <3>3
  <2>3. \A g \in Generations : g > live => ~tidalClients'[g].expired
    BY <1>a, <2>1 DEF TokenTyped, Generations
  <2> QED
    BY <2>1, <2>2, <2>3 DEF TokenTyped
<1>9. ASSUME device' \in [at : Flow, client : 1 .. live, token : 0 .. granted],
             UNCHANGED <<tidalClients, live, granted, spentTokens, refreshMu, using, unhooked>>,
             persisted' \in 0 .. granted
      PROVE  TokenTyped'
  BY <1>9 DEF TokenTyped
<1>10. CASE StartDeviceAuth
  <2>1. device' = [device EXCEPT !.at = "login", !.client = live] /\ live \in 1 .. live
    BY <1>10, <1>a DEF StartDeviceAuth
  <2>2. device' \in [at : Flow, client : 1 .. live, token : 0 .. granted]
    BY <1>a, <2>1
  <2> QED
    BY <1>9, <1>10, <1>a, <2>2 DEF StartDeviceAuth
<1>11. CASE CompleteDeviceAuth
  <2>1. CASE device' = NoFlow /\ granted' = granted
    BY <1>9, <1>11, <1>a, <1>c, <2>1 DEF CompleteDeviceAuth
  <2>2. CASE granted' = granted + 1 /\ FlowsToken("grant", granted + 1)
    <3>1. 0 .. granted \subseteq 0 .. granted' /\ granted' \in Nat /\ granted' \in 0 .. granted'
      BY <1>a, <2>2
    <3>2. device' = [device EXCEPT !.at = "grant", !.token = granted'] /\ using' = using
      BY <1>11, <2>2 DEF CompleteDeviceAuth, FlowsToken
    <3>3. using' \in [TokenUsers -> [at : Steps, client : 1 .. live, token : 0 .. granted']]
      BY <1>a, <3>1, <3>2
    <3>4. device' \in [at : Flow, client : 1 .. live, token : 0 .. granted']
      BY <1>a, <3>1, <3>2
    <3>5. tidalClients' \in [Generations -> [refresh : 0 .. granted', expired : BOOLEAN, hook : BOOLEAN]]
      BY <1>11, <3>1 DEF TokenTyped, CompleteDeviceAuth
    <3> QED
      BY <1>11, <3>4, <3>1, <3>5, <3>3 DEF CompleteDeviceAuth, TokenTyped
  <2> QED
    BY <1>11, <2>1, <2>2 DEF CompleteDeviceAuth
<1>12. CASE StoreGranted
  <2>1. device.client \in Generations /\ device.token \in 0 .. granted
    BY <1>d
  <2>2. device' \in [at : Flow, client : 1 .. live, token : 0 .. granted]
    BY <1>12, <1>a DEF StoreGranted, Flows
  <2> QED
    BY <1>4, <1>12, <2>1, <2>2 DEF StoreGranted, TokenTyped
<1>13. CASE PersistGranted
  BY <1>9, <1>13, <1>a DEF PersistGranted, Flows, persistTidalToken
<1>14. CASE GetTokenJSON
  <2>1. device.client \in Generations
    BY <1>d
  <2>2. tidalClients[device.client].refresh \in 0 .. granted
    BY <2>1 DEF TokenTyped
  <2> QED
    BY <1>9, <1>14, <1>a, <2>2 DEF GetTokenJSON, FlowsToken
<1>15. CASE UpdateConfig
  BY <1>9, <1>15, <1>a DEF UpdateConfig, Flows, persistTidalToken
<1>16. ASSUME NEW hook \in BOOLEAN, Built(persisted, hook), device' \in {device, NoFlow}, unhooked' \in BOOLEAN,
              UNCHANGED <<persisted, granted, spentTokens, refreshMu, using>>
       PROVE  TokenTyped'
  <2>1. live' = live + 1 /\ live' \in Generations /\ 1 .. live \subseteq 1 .. live'
    BY <1>16, <1>a, TokenAssumption DEF Built, Generations
  <2>2. /\ using' \in [TokenUsers -> [at : Steps, client : 1 .. live', token : 0 .. granted]]
        /\ device' \in [at : Flow, client : 1 .. live', token : 0 .. granted]
    BY <1>16, <1>a, <1>c, <2>1
  <2>3. /\ tidalClients' \in [Generations -> [refresh : 0 .. granted, expired : BOOLEAN, hook : BOOLEAN]]
        /\ \A g \in Generations : g > live' => ~tidalClients'[g].expired
    BY <1>16, <1>a, <2>1 DEF Built, NewClient, TokenTyped, Generations
  <2> QED
    BY <1>16, <2>1, <2>2, <2>3 DEF TokenTyped
<1>17. CASE RebuildHooked
  BY <1>16, <1>17 DEF RebuildHooked
<1>18. CASE reconcileAfterConfigUpdate
  BY <1>16, <1>18 DEF reconcileAfterConfigUpdate
<1>19. CASE UNCHANGED tokenVars
  BY <1>19 DEF tokenVars, TokenTyped
<1> QED
  BY <1>1, <1>2, <1>3, <1>5, <1>6, <1>7, <1>8, <1>10, <1>11, <1>12, <1>13, <1>14, <1>15, <1>17, <1>18, <1>19
  DEF TokenNext

\* Where a goroutine's step takes it.
UserAt(u, at, c, t) ==
  /\ using'[u].at = at /\ using'[u].client = c /\ using'[u].token = t
  /\ \A v \in TokenUsers : v # u => using'[v] = using[v]

LEMMA UserMoves ==
  ASSUME TokenTyped, NEW u \in TokenUsers
  PROVE  /\ NeedToken(u) => UserAt(u, "lock", live, NoToken)
         /\ \A at, t : UsesToken(u, at, t) => UserAt(u, at, using[u].client, t)
         /\ \A at : Uses(u, at) => UserAt(u, at, using[u].client, using[u].token)
         /\ Returns(u) => UserAt(u, "away", 1, NoToken)
<1> DEFINE Use == [at : {"away", "lock", "ask", "store", "persist", "unlock"}, client : 1 .. live, token : 0 .. granted]
<1>1. using \in [TokenUsers -> Use]
  BY DEF TokenTyped
<1>2. NeedToken(u) => UserAt(u, "lock", live, NoToken)
  BY <1>1 DEF NeedToken, UserAt
<1>3. ASSUME NEW at, NEW t, UsesToken(u, at, t) PROVE UserAt(u, at, using[u].client, t)
  BY <1>1, <1>3 DEF UsesToken, UserAt
<1>4. ASSUME NEW at, Uses(u, at) PROVE UserAt(u, at, using[u].client, using[u].token)
  BY <1>1, <1>4 DEF Uses, UserAt
<1>5. Returns(u) => UserAt(u, "away", 1, NoToken)
  BY <1>1 DEF Returns, UserAt, Away
<1> QED
  BY <1>2, <1>3, <1>4, <1>5

\* What is stored into a client and what a new client changes of the others.
LEMMA ClientsStored ==
  ASSUME TokenTyped, NEW g \in Generations, NEW t, TokenStored(g, t)
  PROVE  /\ tidalClients'[g].refresh = t /\ tidalClients'[g].expired = FALSE
         /\ tidalClients'[g].hook = tidalClients[g].hook
         /\ \A h \in Generations : h # g => tidalClients'[h] = tidalClients[h]
<1>1. tidalClients \in [Generations -> [refresh : 0 .. granted, expired : BOOLEAN, hook : BOOLEAN]]
  BY DEF TokenTyped
<1> QED
  BY <1>1 DEF TokenStored

LEMMA ClientBuilt ==
  ASSUME TokenTyped, NEW t, NEW hook, Built(t, hook)
  PROVE  /\ live' = live + 1 /\ live' \in Generations /\ live \in Nat
         /\ tidalClients'[live'].refresh = t /\ tidalClients'[live'].expired = FALSE
         /\ tidalClients'[live'].hook = hook
         /\ \A h \in Generations : h # live' => tidalClients'[h] = tidalClients[h]
<1>1. live \in Generations /\ live \in Nat /\ live >= 1
  BY TokenAssumption DEF TokenTyped, Generations
<1>2. live' = live + 1 /\ live < MaxClients /\ tidalClients' = [tidalClients EXCEPT ![live + 1] = NewClient(t, hook)]
  BY DEF Built
<1>3. live' \in Generations
  BY <1>1, <1>2, TokenAssumption DEF Generations
<1>4. DOMAIN tidalClients = Generations
  BY DEF TokenTyped
<1> QED
  BY <1>1, <1>2, <1>3, <1>4 DEF NewClient

\* Only the end of the access tokens brings a client to be refreshed, or a token
\* to be spent.
Calm ==
  /\ \A g \in Generations : Refreshing(g)' => Refreshing(g)
  /\ \A x : Askable(x)' => Askable(x)

\* A goroutine's step that leaves the clients alone, and takes it to a client
\* that waits or on with its own.
LEMMA CalmMoves ==
  ASSUME TokenTyped, NEW u \in TokenUsers, NEW at, NEW c \in Generations, NEW t, UserAt(u, at, c, t),
         UNCHANGED <<tidalClients, live>>,
         at = "lock" => c = live,
         at = "ask" => tidalClients[c].refresh = t /\ Waits(c),
         at \in {"store", "persist"} => InFlight(u) /\ c = using[u].client
  PROVE  Calm
<1>1. \A g \in Generations : Waits(g)' => Waits(g)
  BY DEF UserAt, Waits
<1>2. \A g \in Generations : Refreshing(g)' => Refreshing(g)
  BY <1>1 DEF UserAt, Refreshing, InFlight
<1>3. \A x : Askable(x)' => Askable(x)
  BY <1>1 DEF UserAt, Askable
<1> QED
  BY <1>2, <1>3 DEF Calm

LEMMA CalmStored ==
  ASSUME TokenTyped, NEW g \in Generations, NEW t, TokenStored(g, t), live' = live,
         \/ using' = using
         \/ \E u \in TokenUsers, at \in {"persist", "unlock"} :
              /\ using[u].at = "store" /\ using[u].client = g
              /\ UserAt(u, at, g, using[u].token)
  PROVE  Calm
<1>1. \A h \in Generations : Waits(h)' => Waits(h) /\ h # g
  BY ClientsStored DEF UserAt, Waits
<1>2. \A h \in Generations : Refreshing(h)' => Refreshing(h)
  BY <1>1 DEF UserAt, Refreshing, InFlight
<1>3. \A x : Askable(x)' => Askable(x)
  BY <1>1, ClientsStored DEF UserAt, Askable
<1> QED
  BY <1>2, <1>3 DEF Calm

LEMMA CalmBuilt ==
  ASSUME TokenTyped, NEW t, NEW hook, Built(t, hook), using' = using
  PROVE  Calm
<1>1. \A h \in Generations : Waits(h)' => Waits(h) /\ h # live'
  <2> SUFFICES ASSUME NEW h \in Generations, Waits(h)' PROVE Waits(h) /\ h # live'
    OBVIOUS
  <2>1. h # live' /\ tidalClients'[h] = tidalClients[h]
    BY ClientBuilt DEF Waits
  <2> QED
    BY <2>1 DEF Waits
<1>2. \A h \in Generations : Refreshing(h)' => Refreshing(h)
  BY <1>1 DEF Refreshing, InFlight
<1>3. \A x : Askable(x)' => Askable(x)
  BY <1>1, ClientBuilt DEF Askable
<1> QED
  BY <1>2, <1>3 DEF Calm

LEMMA CalmStep ==
  ASSUME TokenTyped, [TokenNext]_tokenVars, ~IsTokenExpired
  PROVE  Calm
<1>a. 1 \in Generations /\ live \in Generations /\ \A u \in TokenUsers : using[u].client \in Generations
  BY TokenAssumption, UsingStep DEF TokenTyped, Generations
<1>0. ASSUME UNCHANGED <<tidalClients, live, using>> PROVE Calm
  BY <1>0 DEF Calm, Refreshing, Askable, Waits, InFlight
<1>1. ASSUME NEW u \in TokenUsers, NeedToken(u) PROVE Calm
  <2>1. UserAt(u, "lock", live, NoToken) /\ UNCHANGED <<tidalClients, live>>
    BY <1>1, UserMoves DEF NeedToken
  <2> QED
    BY <1>a, <2>1, CalmMoves
<1>2. ASSUME NEW u \in TokenUsers, LockAndLook(u) PROVE Calm
  <2>1. using[u].at = "lock" /\ UNCHANGED <<tidalClients, live>>
    BY <1>2 DEF LockAndLook
  <2>2. CASE tidalClients[using[u].client].expired /\ UsesToken(u, "ask", tidalClients[using[u].client].refresh)
    <3>1. Waits(using[u].client)
      BY <2>1, <2>2 DEF Waits
    <3>2. UserAt(u, "ask", using[u].client, tidalClients[using[u].client].refresh)
      BY <2>2, UserMoves
    <3> QED
      BY <1>a, <2>1, <3>1, <3>2, CalmMoves
  <2>3. CASE Returns(u)
    <3>1. UserAt(u, "away", 1, NoToken)
      BY <2>3, UserMoves
    <3> QED
      BY <1>a, <2>1, <3>1, CalmMoves
  <2> QED
    BY <1>2, <2>2, <2>3 DEF LockAndLook
<1>3. ASSUME NEW u \in TokenUsers, refreshAccessToken(u) PROVE Calm
  <2>1. InFlight(u) /\ UNCHANGED <<tidalClients, live>>
    BY <1>3 DEF refreshAccessToken, InFlight
  <2>2. \/ \E t : UserAt(u, "store", using[u].client, t)
        \/ UserAt(u, "away", 1, NoToken)
    BY <1>3, UserMoves DEF refreshAccessToken
  <2> QED
    BY <1>a, <2>1, <2>2, CalmMoves
<1>4. ASSUME NEW u \in TokenUsers, storeToken(u) PROVE Calm
  <2>1. \E at \in {"persist", "unlock"} : UserAt(u, at, using[u].client, using[u].token)
    BY <1>4, UserMoves DEF storeToken
  <2> QED
    BY <1>4, <1>a, <2>1, CalmStored DEF storeToken
<1>5. ASSUME NEW u \in TokenUsers, PersistRefreshed(u) PROVE Calm
  <2>1. UserAt(u, "unlock", using[u].client, using[u].token) /\ UNCHANGED <<tidalClients, live>>
    BY <1>5, UserMoves DEF PersistRefreshed
  <2> QED
    BY <1>a, <2>1, CalmMoves
<1>6. ASSUME NEW u \in TokenUsers, Unlock(u) PROVE Calm
  <2>1. UserAt(u, "away", 1, NoToken) /\ UNCHANGED <<tidalClients, live>>
    BY <1>6, UserMoves DEF Unlock
  <2> QED
    BY <1>a, <2>1, CalmMoves
<1>7. CASE StartDeviceAuth \/ CompleteDeviceAuth \/ PersistGranted \/ GetTokenJSON \/ UpdateConfig \/ UNCHANGED tokenVars
  BY <1>0, <1>7 DEF StartDeviceAuth, CompleteDeviceAuth, PersistGranted, GetTokenJSON, UpdateConfig, tokenVars
<1>8. CASE StoreGranted
  <2>1. device.client \in Generations
    BY TokenAssumption DEF TokenTyped, Generations
  <2> QED
    BY <1>8, <2>1, CalmStored DEF StoreGranted
<1>9. CASE RebuildHooked \/ reconcileAfterConfigUpdate
  BY <1>9, CalmBuilt DEF RebuildHooked, reconcileAfterConfigUpdate
<1> QED
  BY <1>1, <1>2, <1>3, <1>4, <1>5, <1>6, <1>7, <1>8, <1>9 DEF TokenNext
LEMMA ExpirySteps ==
  ASSUME TokenTyped, IsTokenExpired
  PROVE  /\ \A u \in TokenUsers : using'[u].at = "away"
         /\ \A g \in Generations : Refreshing(g)' => g = live'
         /\ \A g \in Generations : tidalClients'[g].hook = tidalClients[g].hook
         /\ device.at \in {"none", "login"}
         /\ UNCHANGED <<live, persisted, granted, spentTokens, refreshMu, using, device, unhooked>>
<1>1. /\ \A u \in TokenUsers : using[u].at = "away"
      /\ device.at \in {"none", "login"}
      /\ UNCHANGED <<live, persisted, granted, spentTokens, refreshMu, using, device, unhooked>>
  BY DEF IsTokenExpired
<1>2. \A g \in Generations : Refreshing(g)' => g = live'
  BY <1>1 DEF Refreshing, Waits, InFlight
<1>3. \A g \in Generations : tidalClients'[g].hook = tidalClients[g].hook
  BY DEF IsTokenExpired, TokenTyped
<1> QED
  BY <1>1, <1>2, <1>3

LEMMA OneRefreshStep == TokenTyped /\ OneRefresh /\ [TokenNext]_tokenVars => OneRefresh'
<1> SUFFICES ASSUME TokenTyped, OneRefresh, [TokenNext]_tokenVars PROVE OneRefresh'
  OBVIOUS
<1> DEFINE Holds(u) == using[u].at \in {"ask", "store", "persist", "unlock"}
<1>a. \A u \in TokenUsers : Holds(u) => refreshMu[using[u].client] = u
  BY DEF OneRefresh, InFlight
<1>b. \A u \in TokenUsers : using[u].client \in Generations
  BY UsingStep
<1>c. Nobody \notin TokenUsers /\ DOMAIN refreshMu = Generations
  BY TokenAssumption DEF Nobody, TokenTyped
<1> DEFINE Locked == \A u \in TokenUsers : Holds(u)' => refreshMu'[using'[u].client] = u
\* A goroutine that leaves the lock alone, and one that lets go of it.
<1>d. ASSUME NEW u \in TokenUsers, NEW at, NEW g, NEW t, UserAt(u, at, g, t), refreshMu' = refreshMu,
             at \in {"away", "lock"} \/ (Holds(u) /\ g = using[u].client)
      PROVE  Locked
  BY <1>a, <1>d DEF UserAt
<1>e. ASSUME NEW u \in TokenUsers, UserAt(u, "away", 1, NoToken), ReleaseRefresh(u), Holds(u)
      PROVE  Locked
  BY <1>a, <1>b, <1>c, <1>e DEF UserAt, ReleaseRefresh
<1>1. ASSUME NEW u \in TokenUsers, NeedToken(u) PROVE Locked
  <2>1. UserAt(u, "lock", live, NoToken) /\ refreshMu' = refreshMu
    BY <1>1, UserMoves DEF NeedToken
  <2> QED
    BY <1>d, <2>1
<1>2. ASSUME NEW u \in TokenUsers, LockAndLook(u) PROVE Locked
  <2>1. refreshMu[using[u].client] = Nobody
    BY <1>2 DEF LockAndLook
  <2>2. CASE Returns(u) /\ UNCHANGED refreshMu
    <3>1. UserAt(u, "away", 1, NoToken)
      BY <2>2, UserMoves
    <3> QED
      BY <1>d, <2>2, <3>1
  <2>3. ASSUME NEW t, UsesToken(u, "ask", t), refreshMu' = [refreshMu EXCEPT ![using[u].client] = u]
        PROVE  Locked
    <3>1. UserAt(u, "ask", using[u].client, t)
      BY <2>3, UserMoves
    <3> QED
      BY <1>a, <1>b, <1>c, <2>1, <2>3, <3>1 DEF UserAt
  <2> QED
    BY <1>2, <2>2, <2>3 DEF LockAndLook
<1>3. ASSUME NEW u \in TokenUsers, refreshAccessToken(u) PROVE Locked
  <2>1. Holds(u)
    BY <1>3 DEF refreshAccessToken
  <2>2. CASE UNCHANGED refreshMu /\ \E t : UserAt(u, "store", using[u].client, t)
    BY <1>d, <2>1, <2>2
  <2>3. CASE UserAt(u, "away", 1, NoToken) /\ ReleaseRefresh(u)
    BY <1>e, <2>1, <2>3
  <2> QED
    BY <1>3, <2>2, <2>3, UserMoves DEF refreshAccessToken
<1>4. ASSUME NEW u \in TokenUsers, storeToken(u) \/ PersistRefreshed(u) PROVE Locked
  <2>1. Holds(u) /\ refreshMu' = refreshMu
    BY <1>4 DEF storeToken, PersistRefreshed
  <2>2. \E at : UserAt(u, at, using[u].client, using[u].token)
    BY <1>4, UserMoves DEF storeToken, PersistRefreshed
  <2> QED
    BY <1>d, <2>1, <2>2
<1>5. ASSUME NEW u \in TokenUsers, Unlock(u) PROVE Locked
  <2>1. Holds(u) /\ ReleaseRefresh(u) /\ UserAt(u, "away", 1, NoToken)
    BY <1>5, UserMoves DEF Unlock
  <2> QED
    BY <1>e, <2>1
<1>6. ASSUME using' = using, refreshMu' = refreshMu PROVE Locked
  <2>1. \A u \in TokenUsers : using'[u] = using[u] /\ Holds(u)' = Holds(u)
    BY <1>6
  <2> QED
    BY <1>a, <1>6, <2>1
<1> HIDE DEF Locked
<1>7. Locked
  <2>1. CASE \E u \in TokenUsers :
               \/ NeedToken(u) \/ LockAndLook(u) \/ refreshAccessToken(u) \/ storeToken(u)
               \/ PersistRefreshed(u) \/ Unlock(u)
    BY <1>1, <1>2, <1>3, <1>4, <1>5, <2>1
  <2>2. ASSUME ~\E u \in TokenUsers :
                  \/ NeedToken(u) \/ LockAndLook(u) \/ refreshAccessToken(u) \/ storeToken(u)
                  \/ PersistRefreshed(u) \/ Unlock(u)
        PROVE  using' = using /\ refreshMu' = refreshMu
    BY <2>2
      DEF TokenNext, IsTokenExpired, StartDeviceAuth, CompleteDeviceAuth, StoreGranted, PersistGranted,
          GetTokenJSON, UpdateConfig, RebuildHooked, reconcileAfterConfigUpdate, tokenVars
  <2> QED
    BY <1>6, <2>1, <2>2
<1>8. \A g, h \in Generations : Refreshing(g)' /\ Refreshing(h)' => g = h
  <2>1. CASE IsTokenExpired
    BY <2>1, ExpirySteps
  <2>2. CASE ~IsTokenExpired
    <3>1. Calm
      BY <2>2, CalmStep
    <3> QED
      BY <3>1 DEF Calm, OneRefresh
  <2> QED
    BY <2>1, <2>2
<1> QED
  BY <1>7, <1>8 DEF OneRefresh, InFlight, Locked

\* A token no refresh can ask with stays good.
LEMMA SureStays ==
  ASSUME TokenTyped, [TokenNext]_tokenVars, ~IsTokenExpired, NEW x, Sure(x)
  PROVE  Sure(x)'
<1>1. Calm
  BY CalmStep
<1>2. x \notin spentTokens'
  <2>1. CASE spentTokens' = spentTokens
    BY <2>1 DEF Sure
  <2>2. ASSUME NEW u \in TokenUsers, refreshAccessToken(u) PROVE x \notin spentTokens'
    <3>1. Askable(using[u].token)
      BY <2>2 DEF refreshAccessToken, Askable
    <3> QED
      BY <2>2, <3>1 DEF refreshAccessToken, Sure
  <2> QED
    BY <2>1, <2>2
    DEF TokenNext, NeedToken, LockAndLook, storeToken, PersistRefreshed, Unlock, IsTokenExpired,
        StartDeviceAuth, CompleteDeviceAuth, StoreGranted, PersistGranted, GetTokenJSON, UpdateConfig,
        RebuildHooked, reconcileAfterConfigUpdate, tokenVars
<1> QED
  BY <1>1, <1>2 DEF Calm, Sure

\* Once the answer of the one refresh is in its client, nothing asks any more.
LEMMA StoredIsLast ==
  ASSUME TokenTyped, OneRefresh, NEW u \in TokenUsers, storeToken(u)
  PROVE  /\ \A x : ~Askable(x)'
         /\ spentTokens' = spentTokens
<1> DEFINE g == using[u].client
<1>1. g \in Generations /\ using[u].at = "store" /\ refreshMu[g] = u /\ Refreshing(g)
  BY UsingStep DEF storeToken, OneRefresh, InFlight, Refreshing
<1>2. PICK at \in {"persist", "unlock"} : UserAt(u, at, g, using[u].token)
  BY UserMoves DEF storeToken
<1>3. TokenStored(g, using[u].token) /\ live' = live /\ spentTokens' = spentTokens
  BY DEF storeToken
<1>4. ASSUME NEW h \in Generations, Waits(h)' PROVE FALSE
  <2>1. tidalClients'[g].expired = FALSE /\ \A k \in Generations : k # g => tidalClients'[k] = tidalClients[k]
    BY <1>1, <1>3, ClientsStored
  <2>2. h # g
    BY <1>4, <2>1 DEF Waits
  <2>3. Waits(h)
    BY <1>2, <1>3, <1>4, <2>1, <2>2 DEF Waits, UserAt
  <2> QED
    BY <1>1, <2>2, <2>3 DEF OneRefresh, Refreshing
<1>5. ASSUME NEW v \in TokenUsers, using'[v].at = "ask" PROVE FALSE
  <2>1. v # u /\ using[v].at = "ask"
    BY <1>2, <1>5 DEF UserAt
  <2>2. Refreshing(using[v].client) /\ using[v].client \in Generations /\ refreshMu[using[v].client] = v
    BY <2>1, UsingStep DEF Refreshing, InFlight, OneRefresh
  <2> QED
    BY <1>1, <2>1, <2>2 DEF OneRefresh
<1> QED
  BY <1>3, <1>4, <1>5 DEF Askable
LEMMA AnswersGoodStep ==
  TokenTyped /\ OneRefresh /\ AnswersGood /\ [TokenNext]_tokenVars => AnswersGood'
<1> SUFFICES ASSUME TokenTyped, OneRefresh, AnswersGood, [TokenNext]_tokenVars PROVE AnswersGood'
  OBVIOUS
<1> DEFINE Stores == \A u \in TokenUsers : using[u].at = "store" => using[u].token \notin spentTokens
           Persists == \A u \in TokenUsers : using[u].at = "persist" =>
                         Sure(using[u].token) /\ tidalClients[using[u].client].hook
           Flowing == /\ device.at \in {"grant", "persist", "update"} => Sure(device.token)
                      /\ device.at \in {"persist", "read"} => Sure(tidalClients[device.client].refresh)
                      /\ device.at = "rebuild" => Sure(persisted)
<1>a. Stores /\ Persists /\ Flowing
  BY DEF AnswersGood
<1>b. \A u \in TokenUsers : using[u].client \in Generations
  BY UsingStep
<1>c. device.client \in Generations /\ live \in Generations
  BY TokenAssumption DEF TokenTyped, Generations
<1>d. /\ granted \in Nat /\ spentTokens \subseteq 0 .. granted
      /\ \A u \in TokenUsers : using[u].token \in 0 .. granted
      /\ \A g \in Generations : tidalClients[g].refresh \in 0 .. granted
  BY UsingStep DEF TokenTyped
<1>0. CASE IsTokenExpired
  BY <1>0, ExpirySteps DEF AnswersGood
<1> SUFFICES ASSUME ~IsTokenExpired PROVE AnswersGood'
  BY <1>0
<1>e. \A x : Sure(x) => Sure(x)'
  BY SureStays
<1>f. Calm
  BY CalmStep
\* A step of a goroutine that neither stores nor persists.
<1>g. ASSUME NEW u \in TokenUsers, NEW at \in {"away", "lock", "ask", "unlock"}, NEW g, NEW t,
             UserAt(u, at, g, t), UNCHANGED <<tidalClients, spentTokens>>
      PROVE  Stores' /\ Persists'
  BY <1>a, <1>e, <1>g DEF UserAt
<1>h. ASSUME UNCHANGED <<tidalClients, device, persisted>> PROVE Flowing'
  BY <1>a, <1>e, <1>h
<1>1. ASSUME NEW u \in TokenUsers, NeedToken(u) PROVE AnswersGood'
  <2>1. Stores' /\ Persists'
    BY <1>1, <1>g, UserMoves DEF NeedToken
  <2>2. Flowing'
    BY <1>1, <1>h DEF NeedToken
  <2> QED
    BY <2>1, <2>2 DEF AnswersGood
<1>2. ASSUME NEW u \in TokenUsers, LockAndLook(u) PROVE AnswersGood'
  <2>1. \E at \in {"away", "ask"} : \E g, t : UserAt(u, at, g, t)
    BY <1>2, UserMoves DEF LockAndLook
  <2>2. Stores' /\ Persists'
    BY <1>2, <1>g, <2>1 DEF LockAndLook
  <2>3. Flowing'
    BY <1>2, <1>h DEF LockAndLook
  <2> QED
    BY <2>2, <2>3 DEF AnswersGood
<1>3. ASSUME NEW u \in TokenUsers, refreshAccessToken(u) PROVE AnswersGood'
  <2>1. Flowing'
    BY <1>3, <1>h DEF refreshAccessToken
  <2>2. InFlight(u) /\ refreshMu[using[u].client] = u /\ Refreshing(using[u].client)
    BY <1>3 DEF refreshAccessToken, InFlight, OneRefresh, Refreshing
  <2>3. \A v \in TokenUsers : v # u => using[v].at # "store"
    <3> SUFFICES ASSUME NEW v \in TokenUsers, v # u, using[v].at = "store" PROVE FALSE
      OBVIOUS
    <3>1. refreshMu[using[v].client] = v /\ Refreshing(using[v].client)
      BY DEF InFlight, OneRefresh, Refreshing
    <3> QED
      BY <1>b, <2>2, <3>1 DEF OneRefresh
  <2>4. CASE UsesToken(u, "store", granted + 1) /\ spentTokens' = spentTokens \cup {using[u].token}
    <3>1. UserAt(u, "store", using[u].client, granted + 1)
      BY <2>4, UserMoves
    <3>2. granted + 1 \notin spentTokens'
      BY <1>d, <2>4
    <3>3. Stores'
      BY <2>3, <3>1, <3>2 DEF UserAt
    <3>4. Persists'
      BY <1>3, <1>a, <1>e, <3>1 DEF UserAt, refreshAccessToken
    <3> QED
      BY <2>1, <3>3, <3>4 DEF AnswersGood
  <2>5. CASE using[u].token \notin spentTokens /\ Uses(u, "store") /\ spentTokens' = spentTokens
    <3>1. UserAt(u, "store", using[u].client, using[u].token)
      BY <2>5, UserMoves
    <3>2. Stores'
      BY <2>3, <2>5, <3>1 DEF UserAt
    <3>3. Persists'
      BY <1>3, <1>a, <1>e, <3>1 DEF UserAt, refreshAccessToken
    <3> QED
      BY <2>1, <3>2, <3>3 DEF AnswersGood
  <2>6. CASE Returns(u) /\ spentTokens' = spentTokens
    <3>1. UserAt(u, "away", 1, NoToken)
      BY <2>6, UserMoves
    <3>2. Stores' /\ Persists'
      BY <1>3, <1>g, <2>6, <3>1 DEF refreshAccessToken
    <3> QED
      BY <2>1, <3>2 DEF AnswersGood
  <2> QED
    BY <1>3, <2>4, <2>5, <2>6 DEF refreshAccessToken
<1>4. ASSUME NEW u \in TokenUsers, storeToken(u) PROVE AnswersGood'
  <2> DEFINE g == using[u].client
             at == IF tidalClients[g].hook THEN "persist" ELSE "unlock"
  <2>1. /\ using[u].at = "store" /\ TokenStored(g, using[u].token) /\ UserAt(u, at, g, using[u].token)
        /\ UNCHANGED <<live, persisted, granted, spentTokens, device>> /\ g \in Generations
    BY <1>4, <1>b, UserMoves DEF storeToken
  <2>2. \A x : Sure(x)' <=> x \notin spentTokens
    BY <1>4, StoredIsLast DEF Sure
  <2>3. /\ tidalClients'[g].refresh = using[u].token /\ tidalClients'[g].hook = tidalClients[g].hook
        /\ \A h \in Generations : h # g => tidalClients'[h] = tidalClients[h]
    BY <2>1, ClientsStored
  <2>4. using[u].token \notin spentTokens
    BY <1>a, <2>1
  <2>5. Stores'
    BY <1>a, <2>1 DEF UserAt
  <2>6. ASSUME NEW v \in TokenUsers, using'[v].at = "persist"
        PROVE  Sure(using[v].token)' /\ tidalClients'[using'[v].client].hook
    <3>1. CASE v = u
      BY <2>1, <2>2, <2>3, <2>4, <2>6, <3>1 DEF UserAt
    <3>2. CASE v # u
      <4>1. using'[v] = using[v] /\ using[v].client \in Generations
        BY <1>b, <2>1, <3>2 DEF UserAt
      <4>2. Sure(using[v].token) /\ tidalClients[using[v].client].hook
        BY <1>a, <2>6, <4>1
      <4> QED
        BY <1>e, <2>3, <4>1, <4>2
    <3> QED
      BY <3>1, <3>2
  <2>7. Flowing'
    <3>1. Sure(device.token) => Sure(device.token)'
      BY <1>e, <2>1
    <3>2. Sure(persisted) => Sure(persisted)'
      BY <1>e, <2>1
    <3>3. Sure(tidalClients[device.client].refresh) => Sure(tidalClients[device.client].refresh)'
      BY <1>c, <2>1, <2>2, <2>3, <2>4 DEF Sure
    <3> QED
      BY <1>a, <2>1, <3>1, <3>2, <3>3
  <2> QED
    BY <2>5, <2>6, <2>7 DEF AnswersGood
<1>5. ASSUME NEW u \in TokenUsers, PersistRefreshed(u) PROVE AnswersGood'
  <2>1. /\ using[u].at = "persist" /\ persisted' = using[u].token
        /\ UNCHANGED <<tidalClients, spentTokens, device>>
        /\ UserAt(u, "unlock", using[u].client, using[u].token)
    BY <1>5, UserMoves DEF PersistRefreshed, persistTidalToken
  <2>2. Stores' /\ Persists'
    BY <1>g, <2>1
  <2>3. Sure(persisted)'
    BY <1>a, <1>e, <2>1
  <2>4. Flowing'
    BY <1>a, <1>e, <2>1, <2>3
  <2> QED
    BY <2>2, <2>4 DEF AnswersGood
<1>6. ASSUME NEW u \in TokenUsers, Unlock(u) PROVE AnswersGood'
  <2>1. Stores' /\ Persists'
    BY <1>6, <1>g, UserMoves DEF Unlock
  <2>2. Flowing'
    BY <1>6, <1>h DEF Unlock
  <2> QED
    BY <2>1, <2>2 DEF AnswersGood
<1>i. ASSUME UNCHANGED <<using, tidalClients, spentTokens>> PROVE Stores' /\ Persists'
  BY <1>a, <1>e, <1>i
<1>7. CASE StartDeviceAuth
  <2>1. device'.at = "login"
    BY <1>7 DEF StartDeviceAuth, TokenTyped
  <2> QED
    BY <1>7, <1>i, <2>1 DEF StartDeviceAuth, AnswersGood
<1>8. CASE CompleteDeviceAuth
  <2>1. Stores' /\ Persists' /\ UNCHANGED <<tidalClients, using, live, spentTokens>>
    BY <1>8, <1>i DEF CompleteDeviceAuth
  <2>2. CASE device' = NoFlow
    BY <2>1, <2>2 DEF NoFlow, AnswersGood
  <2>3. CASE FlowsToken("grant", granted + 1)
    <3>1. device'.at = "grant" /\ device'.token = granted + 1
      BY <2>3 DEF FlowsToken, TokenTyped
    <3>2. Sure(granted + 1)
      BY <1>d DEF Sure, Askable
    <3> QED
      BY <1>e, <2>1, <3>1, <3>2 DEF AnswersGood
  <2> QED
    BY <1>8, <2>2, <2>3 DEF CompleteDeviceAuth
<1>9. CASE StoreGranted
  <2> DEFINE g == device.client
             at == IF tidalClients[g].hook THEN "persist" ELSE "read"
  <2>1. /\ device.at = "grant" /\ TokenStored(g, device.token) /\ Flows(at) /\ g \in Generations
        /\ UNCHANGED <<live, persisted, granted, spentTokens, using>>
    BY <1>9, <1>c DEF StoreGranted
  <2>2. /\ tidalClients'[g].refresh = device.token
        /\ \A h \in Generations : tidalClients'[h].hook = tidalClients[h].hook
    BY <2>1, ClientsStored
  <2>3. device'.at = at /\ device'.client = g /\ device'.token = device.token
    BY <2>1 DEF Flows, TokenTyped
  <2>4. Sure(device.token) /\ Sure(device.token)'
    BY <1>a, <1>e, <2>1, <2>3
  <2>5. Stores'
    BY <1>a, <2>1
  <2>6. Persists'
    BY <1>a, <1>b, <1>e, <2>1, <2>2
  <2> QED
    BY <2>2, <2>3, <2>4, <2>5, <2>6 DEF AnswersGood
<1>10. CASE PersistGranted \/ GetTokenJSON \/ UpdateConfig
  <2>1. /\ device' = [device EXCEPT !.at = device'.at, !.token = device'.token]
        /\ UNCHANGED <<tidalClients, live, spentTokens, using>>
    BY <1>10 DEF PersistGranted, GetTokenJSON, UpdateConfig, Flows, FlowsToken, TokenTyped
  <2>2. Stores' /\ Persists'
    BY <1>i, <2>1
  <2>3. CASE PersistGranted
    <3>1. device.at = "persist" /\ device'.at = "read" /\ device'.client = device.client
      BY <2>3 DEF PersistGranted, Flows, TokenTyped
    <3> QED
      BY <1>a, <1>e, <2>1, <2>2, <3>1 DEF AnswersGood
  <2>4. CASE GetTokenJSON
    <3>1. /\ device.at = "read" /\ device'.at = "update"
          /\ device'.token = tidalClients[device.client].refresh
      BY <2>4 DEF GetTokenJSON, FlowsToken, TokenTyped
    <3> QED
      BY <1>a, <1>e, <2>2, <3>1 DEF AnswersGood
  <2>5. CASE UpdateConfig
    <3>1. device.at = "update" /\ device'.at = "rebuild" /\ persisted' = device.token
      BY <2>5 DEF UpdateConfig, Flows, persistTidalToken, TokenTyped
    <3> QED
      BY <1>a, <1>e, <2>2, <3>1 DEF AnswersGood
  <2> QED
    BY <1>10, <2>3, <2>4, <2>5
<1>11. CASE RebuildHooked \/ reconcileAfterConfigUpdate
  <2>1. \E hook : Built(persisted, hook)
    BY <1>11 DEF RebuildHooked, reconcileAfterConfigUpdate
  <2>2. \A g \in Generations : g <= live => tidalClients'[g] = tidalClients[g]
    <3>1. \A g \in Generations : g \in Nat
      BY TokenAssumption DEF Generations
    <3>2. live \in Nat /\ live' = live + 1 /\ \A h \in Generations : h # live' => tidalClients'[h] = tidalClients[h]
      BY <2>1, ClientBuilt
    <3> QED
      BY <3>1, <3>2
  <2>3. UNCHANGED <<persisted, spentTokens, using>> /\ (device' = device \/ device'.at = "none")
    <3>1. NoFlow.at = "none"
      BY DEF NoFlow
    <3>2. CASE RebuildHooked
      BY <3>1, <3>2 DEF RebuildHooked
    <3>3. CASE reconcileAfterConfigUpdate
      BY <3>3 DEF reconcileAfterConfigUpdate
    <3> QED
      BY <1>11, <3>2, <3>3
  <2>4. Stores'
    BY <1>a, <2>3
  <2>5. Persists'
    BY <1>a, <1>b, <1>e, <2>2, <2>3, UsingStep
  <2>6. device.client <= live
    BY TokenAssumption DEF TokenTyped, Generations
  <2>7. Flowing'
    BY <1>a, <1>c, <1>e, <2>2, <2>3, <2>6
  <2> QED
    BY <2>4, <2>5, <2>7 DEF AnswersGood
<1>12. CASE UNCHANGED tokenVars
  BY <1>12, <1>h, <1>i DEF tokenVars, AnswersGood
<1> QED
  BY <1>1, <1>2, <1>3, <1>4, <1>5, <1>6, <1>7, <1>8, <1>9, <1>10, <1>11, <1>12 DEF TokenNext
LEMMA PersistedGoodStep ==
  TokenInv /\ [TokenNext]_tokenVars => PersistedGood'
<1> SUFFICES ASSUME TokenInv, [TokenNext]_tokenVars PROVE PersistedGood'
  OBVIOUS
<1> DEFINE Hooked == unhooked = ~tidalClients[live].hook
           Unconcerned == ~unhooked => \A g \in Generations : Refreshing(g) /\ ~tidalClients[g].hook => Sure(persisted)
           Alive == persisted \in spentTokens => unhooked \/ \E u \in TokenUsers : Answering(u)
<1>a. /\ TokenTyped /\ OneRefresh /\ AnswersGood /\ Hooked /\ Unconcerned /\ Alive
  BY DEF TokenInv, PersistedGood
<1>b. \A u \in TokenUsers : using[u].client \in Generations /\ using[u].client <= live
  BY <1>a, UsingStep
<1>c. live \in Generations /\ live \in Nat /\ \A g \in Generations : g \in Nat
  BY <1>a, TokenAssumption DEF TokenTyped, Generations
<1>d. /\ tidalClients[live].hook \in BOOLEAN /\ unhooked \in BOOLEAN
  BY <1>a DEF TokenTyped
<1>0. CASE IsTokenExpired
  <2>1. /\ \A u \in TokenUsers : using[u].at = "away"
        /\ \A g \in Generations : Refreshing(g)' => g = live
        /\ tidalClients'[live].hook = tidalClients[live].hook
        /\ UNCHANGED <<live, persisted, spentTokens, using, unhooked>>
    BY <1>0, <1>a, <1>c, ExpirySteps
  <2>2. Hooked' /\ Alive'
    BY <1>a, <2>1 DEF Answering
  <2>3. Unconcerned'
    BY <1>a, <1>d, <2>1
  <2> QED
    BY <2>2, <2>3 DEF PersistedGood
<1> SUFFICES ASSUME ~IsTokenExpired PROVE PersistedGood'
  BY <1>0
<1>e. (\A x : Sure(x) => Sure(x)') /\ Calm
  BY <1>a, SureStays, CalmStep
<1>f. \A g \in Generations : Refreshing(g) => g <= live
  BY <1>a, <1>b, <1>c DEF Refreshing, Waits, TokenTyped
\* A step that builds no client and leaves config.json alone.
<1>g. ASSUME UNCHANGED <<live, unhooked, persisted>>,
             \A g \in Generations : tidalClients'[g].hook = tidalClients[g].hook
      PROVE  Hooked' /\ Unconcerned'
  BY <1>a, <1>c, <1>e, <1>g DEF Calm
<1>1. ASSUME NEW u \in TokenUsers, NeedToken(u) \/ LockAndLook(u) \/ Unlock(u) PROVE PersistedGood'
  <2>1. /\ UNCHANGED <<tidalClients, live, persisted, spentTokens, unhooked>>
        /\ ~Answering(u) /\ \A v \in TokenUsers : v # u => using'[v] = using[v]
    BY <1>1, <1>a, UserMoves DEF NeedToken, LockAndLook, Unlock, Answering, UserAt
  <2>2. Hooked' /\ Unconcerned'
    BY <1>g, <2>1
  <2>3. Alive'
    BY <1>a, <2>1 DEF Answering
  <2> QED
    BY <2>2, <2>3 DEF PersistedGood
<1>2. ASSUME NEW u \in TokenUsers, refreshAccessToken(u) PROVE PersistedGood'
  <2>1. UNCHANGED <<tidalClients, live, persisted, unhooked>> /\ using[u].at = "ask"
    BY <1>2 DEF refreshAccessToken
  <2>2. Hooked' /\ Unconcerned'
    BY <1>g, <2>1
  <2>3. CASE spentTokens' = spentTokens
    <3>1. \A v \in TokenUsers : v # u => using'[v] = using[v]
      BY <1>2, <1>a, UserMoves DEF refreshAccessToken, UserAt
    <3>2. Alive'
      BY <1>a, <2>1, <2>3, <3>1 DEF Answering
    <3> QED
      BY <2>2, <3>2 DEF PersistedGood
  <2>4. CASE UsesToken(u, "store", granted + 1)
    <3>1. UserAt(u, "store", using[u].client, granted + 1)
      BY <1>a, <2>4, UserMoves
    <3>2. Answering(u)'
      BY <3>1 DEF Answering, UserAt
    <3> QED
      BY <2>2, <3>2 DEF PersistedGood
  <2> QED
    BY <1>2, <2>3, <2>4 DEF refreshAccessToken
<1>3. ASSUME NEW u \in TokenUsers, storeToken(u) PROVE PersistedGood'
  <2> DEFINE g == using[u].client
             at == IF tidalClients[g].hook THEN "persist" ELSE "unlock"
  <2>1. /\ using[u].at = "store" /\ TokenStored(g, using[u].token) /\ UserAt(u, at, g, using[u].token)
        /\ UNCHANGED <<live, persisted, spentTokens, unhooked>> /\ g \in Generations
    BY <1>3, <1>a, <1>b, UserMoves DEF storeToken
  <2>2. \A h \in Generations : tidalClients'[h].hook = tidalClients[h].hook
    BY <1>a, <2>1, ClientsStored
  <2>3. Hooked' /\ Unconcerned'
    BY <1>g, <2>1, <2>2
  <2>4. CASE tidalClients[g].hook
    <3>1. Answering(u)'
      BY <2>1, <2>4 DEF Answering, UserAt
    <3> QED
      BY <2>3, <3>1 DEF PersistedGood
  <2>5. CASE ~tidalClients[g].hook
    <3>1. Refreshing(g)
      BY <2>1 DEF Refreshing, InFlight
    <3>2. unhooked \/ persisted \notin spentTokens
      BY <1>a, <2>1, <2>5, <3>1 DEF Sure
    <3> QED
      BY <2>1, <2>3, <3>2 DEF PersistedGood
  <2> QED
    BY <2>4, <2>5
<1>4. ASSUME NEW u \in TokenUsers, PersistRefreshed(u) PROVE PersistedGood'
  <2> DEFINE g == using[u].client
  <2>1. /\ using[u].at = "persist" /\ persisted' = using[u].token
        /\ UNCHANGED <<tidalClients, live, spentTokens, unhooked>>
    BY <1>4 DEF PersistRefreshed, persistTidalToken
  <2>2. Refreshing(g) /\ tidalClients[g].hook /\ Sure(using[u].token) /\ g \in Generations
    BY <1>a, <1>b, <2>1 DEF Refreshing, InFlight, AnswersGood
  <2>3. \A h \in Generations : Refreshing(h)' => h = g
    BY <1>a, <1>e, <2>2 DEF Calm, OneRefresh
  <2>4. Hooked' /\ Unconcerned'
    BY <1>a, <2>1, <2>2, <2>3
  <2>5. Alive'
    BY <2>1, <2>2 DEF Sure
  <2> QED
    BY <2>4, <2>5 DEF PersistedGood
<1>5. CASE StartDeviceAuth \/ CompleteDeviceAuth \/ GetTokenJSON
  <2>1. UNCHANGED <<tidalClients, live, persisted, spentTokens, using, unhooked>>
    BY <1>5 DEF StartDeviceAuth, CompleteDeviceAuth, GetTokenJSON
  <2>2. Hooked' /\ Unconcerned'
    BY <1>g, <2>1
  <2>3. Alive'
    BY <1>a, <2>1 DEF Answering
  <2> QED
    BY <2>2, <2>3 DEF PersistedGood
<1>6. CASE StoreGranted
  <2>1. /\ TokenStored(device.client, device.token) /\ device.client \in Generations
        /\ UNCHANGED <<live, persisted, spentTokens, using, unhooked>>
    BY <1>6, <1>a, TokenAssumption DEF StoreGranted, TokenTyped, Generations
  <2>2. Hooked' /\ Unconcerned'
    BY <1>a, <1>g, <2>1, ClientsStored
  <2>3. Alive'
    BY <1>a, <2>1 DEF Answering
  <2> QED
    BY <2>2, <2>3 DEF PersistedGood
<1>7. CASE PersistGranted \/ UpdateConfig
  <2>1. /\ persisted' = device.token /\ Sure(device.token)
        /\ UNCHANGED <<tidalClients, live, spentTokens, using, unhooked>>
    BY <1>7, <1>a DEF PersistGranted, UpdateConfig, persistTidalToken, AnswersGood
  <2>2. Sure(persisted)'
    BY <1>e, <2>1
  <2> QED
    BY <1>a, <2>1, <2>2 DEF PersistedGood, Sure
<1>8. CASE RebuildHooked
  <2>1. Built(persisted, TRUE) /\ UNCHANGED <<persisted, spentTokens, using>> /\ unhooked' = FALSE
    BY <1>8 DEF RebuildHooked
  <2>2. Sure(persisted) /\ Sure(persisted)'
    BY <1>8, <1>a, <1>e, <2>1 DEF RebuildHooked, AnswersGood
  <2>3. tidalClients'[live'].hook = TRUE
    BY <1>a, <2>1, ClientBuilt
  <2> QED
    BY <2>1, <2>2, <2>3 DEF PersistedGood, Sure
<1>9. CASE reconcileAfterConfigUpdate
  <2>1. Built(persisted, FALSE) /\ unhooked' = TRUE
    BY <1>9 DEF reconcileAfterConfigUpdate
  <2>2. tidalClients'[live'].hook = FALSE
    BY <1>a, <2>1, ClientBuilt
  <2> QED
    BY <2>1, <2>2 DEF PersistedGood
<1>10. CASE UNCHANGED tokenVars
  <2>1. UNCHANGED <<tidalClients, live, persisted, spentTokens, using, unhooked>>
    BY <1>10 DEF tokenVars
  <2>2. Hooked' /\ Unconcerned'
    BY <1>g, <2>1
  <2>3. Alive'
    BY <1>a, <2>1 DEF Answering
  <2> QED
    BY <2>2, <2>3 DEF PersistedGood
<1> QED
  BY <1>1, <1>2, <1>3, <1>4, <1>5, <1>6, <1>7, <1>8, <1>9, <1>10 DEF TokenNext

LEMMA TokenInvHolds == ProvidersSpec => []TokenInv
<1>1. ProvidersInit => TokenInv
  BY TokenInvInit DEF ProvidersInit
<1>2. TokenInv /\ [ProvidersNext]_<<scene, providers>> => TokenInv'
  BY ScenesAreSteps, TokenTypedStep, OneRefreshStep, AnswersGoodStep, PersistedGoodStep DEF TokenInv
<1> QED
  BY <1>1, <1>2, PTL DEF ProvidersSpec

\* Whichever of refresh, device flow and rebuild wrote last, the refresh token in
\* config.json is one Tidal still takes (client.go, auth.go, handlers.go).
THEOREM TokenAlive == ProvidersSpec => []PersistedTokenAlive
<1>1. TokenInv => PersistedTokenAlive
  BY DEF TokenInv, PersistedGood, PersistedTokenAlive
<1> QED
  BY <1>1, TokenInvHolds, PTL

\* The providers' logins: both of the above.
THEOREM LoginsAlwaysHonest == ProvidersSpec => []LoginsHonest
<1>1. PersistedTokenAlive /\ LoginHonest => LoginsHonest
  BY DEF LoginsHonest
<1> QED
  BY <1>1, TokenAlive, ChecksHonest, PTL
----------------------------------------------------------------------------
(* The enrichment *)

Asking == {"title", "cover", "meta"}

\* Nobody asks a provider that told him to wait: who is about to ask found it
\* out of the cooldown, and only his own question puts it there on his account.
SpareInv ==
  /\ imageTried \in BOOLEAN /\ imageRuns = (IF imageTried THEN 1 ELSE 0)
  /\ pestered = FALSE
  /\ DOMAIN enricher = Enrichers
  /\ \A w \in Enrichers :
       /\ "at" \in DOMAIN enricher[w]
       /\ enricher[w].at \notin {"free", "next"} => "prov" \in DOMAIN enricher[w]
  /\ \A l \in limited : l[1] # Chain /\ l[2] \in coolingDown
  /\ \A w \in Enrichers : enricher[w].at \in Asking => <<w, enricher[w].prov>> \notin limited

\* Where a worker's step takes it: w, to at, with the provider p next.
Turned(w, at, p) ==
  /\ DOMAIN enricher' = Enrichers
  /\ enricher'[w].at = at /\ enricher'[w].prov = p
  /\ {"at", "prov"} \subseteq DOMAIN enricher'[w]
  /\ \A v \in Enrichers : v # w => enricher'[v] = enricher[v]

Rested(w) ==
  /\ DOMAIN enricher' = Enrichers
  /\ enricher'[w].at \in {"free", "next"} /\ "at" \in DOMAIN enricher'[w]
  /\ \A v \in Enrichers : v # w => enricher'[v] = enricher[v]

LEMMA WorkerTurns ==
  ASSUME SpareInv, NEW w \in Enrichers, enricher[w].at \notin {"free", "next"}
  PROVE  /\ \A at : GoesOn(w, at) => Turned(w, at, enricher[w].prov)
         /\ \A at, p : TurnsTo(w, at, p) => Turned(w, at, p)
         /\ ProviderDone(w) => Turned(w, "provider", enricher[w].prov + 1)
         /\ TrackDone(w) => Rested(w)
<1>1. /\ DOMAIN enricher = Enrichers /\ {"at", "prov"} \subseteq DOMAIN enricher[w]
  BY DEF SpareInv
<1>2. ASSUME NEW at, GoesOn(w, at) PROVE Turned(w, at, enricher[w].prov)
  BY <1>1, <1>2 DEF GoesOn, Turned
<1>3. ASSUME NEW at, NEW p, TurnsTo(w, at, p) PROVE Turned(w, at, p)
  BY <1>1, <1>3 DEF TurnsTo, Turned
<1>4. ProviderDone(w) => Turned(w, "provider", enricher[w].prov + 1)
  BY <1>1 DEF ProviderDone, Turned
<1>5. TrackDone(w) => Rested(w)
  BY <1>1 DEF TrackDone, Rested, Free
<1> QED
  BY <1>2, <1>3, <1>4, <1>5

LEMMA SpareInvInit == EnrichmentInit => SpareInv
<1> SUFFICES ASSUME EnrichmentInit PROVE SpareInv
  OBVIOUS
<1>1. /\ imageTried = FALSE /\ imageRuns = 0 /\ pestered = FALSE /\ limited = {}
      /\ enricher = [w \in Enrichers |-> Free]
  BY DEF EnrichmentInit
<1>2. Free.at = "free" /\ "at" \in DOMAIN Free
  BY DEF Free
<1>3. DOMAIN enricher = Enrichers /\ \A w \in Enrichers : enricher[w] = Free
  BY <1>1
<1> QED
  BY <1>1, <1>2, <1>3 DEF SpareInv, Asking

\* The questions: who asks a provider that has not told him to wait, and asks
\* the next one if it does, keeps all that is known of the cooldown.
LEMMA AskKeeps ==
  ASSUME SpareInv, NEW w \in Enrichers, NEW p, NEW answer, AskProvider(w, p, answer),
         <<w, p>> \notin limited, UNCHANGED ImageGate,
         NEW at, NEW q, Turned(w, at, q) \/ Rested(w),
         Turned(w, at, q) /\ at \in Asking =>
           <<w, q>> \notin limited /\ (answer # "limited" \/ w = Chain)
  PROVE  SpareInv'
<1>1. pestered' = FALSE
  BY DEF AskProvider, SpareInv
<1>2. \/ UNCHANGED <<coolingDown, limited>>
      \/ /\ answer = "limited" /\ w # Chain
         /\ coolingDown' = coolingDown \cup {p} /\ limited' = limited \cup {<<w, p>>}
  BY DEF AskProvider
<1>3. \A l \in limited' : l[1] # Chain /\ l[2] \in coolingDown'
  BY <1>2 DEF SpareInv
<1>4. /\ DOMAIN enricher' = Enrichers
      /\ \A v \in Enrichers :
           /\ "at" \in DOMAIN enricher'[v]
           /\ enricher'[v].at \notin {"free", "next"} => "prov" \in DOMAIN enricher'[v]
  BY DEF SpareInv, Turned, Rested
<1>5. ASSUME NEW v \in Enrichers, enricher'[v].at \in Asking PROVE <<v, enricher'[v].prov>> \notin limited'
  <2>1. CASE v # w
    <3>1. enricher'[v] = enricher[v] /\ <<v, enricher[v].prov>> \notin limited
      BY <1>5, <2>1 DEF SpareInv, Turned, Rested
    <3> QED
      BY <1>2, <2>1, <3>1
  <2>2. CASE v = w
    <3>1. Turned(w, at, q) /\ at \in Asking
      BY <1>5, <2>2 DEF Turned, Rested, Asking
    <3>2. limited' = limited
      BY <1>2, <3>1
    <3> QED
      BY <2>2, <3>1, <3>2 DEF Turned
  <2> QED
    BY <2>1, <2>2
<1> QED
  BY <1>1, <1>3, <1>4, <1>5 DEF SpareInv, ImageGate

\* Steps that ask nobody.
LEMMA SilentKeeps ==
  ASSUME SpareInv, NEW w \in Enrichers, UNCHANGED Asked,
         imageTried' \in BOOLEAN /\ imageRuns' = (IF imageTried' THEN 1 ELSE 0),
         NEW at, NEW q, Turned(w, at, q) \/ Rested(w),
         Turned(w, at, q) /\ at \in Asking => <<w, q>> \notin limited
  PROVE  SpareInv'
<1>1. UNCHANGED <<coolingDown, limited, pestered>>
  BY DEF Asked
<1>2. \A v \in Enrichers :
        /\ "at" \in DOMAIN enricher'[v]
        /\ enricher'[v].at \notin {"free", "next"} => "prov" \in DOMAIN enricher'[v]
  BY DEF SpareInv, Turned, Rested
<1>3. \A v \in Enrichers : enricher'[v].at \in Asking => <<v, enricher'[v].prov>> \notin limited
  BY DEF SpareInv, Turned, Rested, Asking
<1>4. DOMAIN enricher' = Enrichers
  BY DEF Turned, Rested
<1> QED
  BY <1>1, <1>2, <1>3, <1>4 DEF SpareInv

\* A provider out of the cooldown, or asked by the chain, has told nobody.
LEMMA NotTold ==
  ASSUME SpareInv, NEW w \in Enrichers, NEW p, ~(w # Chain /\ p \in coolingDown)
  PROVE  <<w, p>> \notin limited
  BY DEF SpareInv

LEMMA MarkedOnce ==
  ASSUME SpareInv, ~imageTried, MarkAttempt
  PROVE  imageTried' \in BOOLEAN /\ imageRuns' = (IF imageTried' THEN 1 ELSE 0)
  BY DEF SpareInv, MarkAttempt

LEMMA GateKept ==
  ASSUME SpareInv, UNCHANGED ImageGate
  PROVE  imageTried' \in BOOLEAN /\ imageRuns' = (IF imageTried' THEN 1 ELSE 0)
  BY DEF SpareInv, ImageGate
LEMMA TrackRests ==
  ASSUME SpareInv, NEW w \in Enrichers, TrackDone(w)
  PROVE  Rested(w)
<1>1. DOMAIN enricher = Enrichers
  BY DEF SpareInv
<1> QED
  BY <1>1 DEF TrackDone, Rested, Free

\* Who rests asks nobody.
LEMMA RestKeeps ==
  ASSUME SpareInv, NEW w \in Enrichers, UNCHANGED Asked, Rested(w),
         imageTried' \in BOOLEAN /\ imageRuns' = (IF imageTried' THEN 1 ELSE 0)
  PROVE  SpareInv'
<1>1. Turned(w, "next", 0) \/ Rested(w)
  OBVIOUS
<1>2. Turned(w, "next", 0) /\ "next" \in Asking => <<w, 0>> \notin limited
  BY DEF Asking
<1> HIDE DEF Turned, Rested, Asking
<1> QED
  BY <1>1, <1>2, SilentKeeps

\* The steps before the questions: the job, its groups, the rows read.
LEMMA SpareInvJob ==
  ASSUME SpareInv,
         \/ EnrichAll \/ ImageTimeOver
         \/ \E w \in BulkWorkers : TakeGroup(w) \/ GroupDone(w) \/ DeadlinePasses(w)
         \/ \E t \in TracksHeard : HandleImport(t)
         \/ \E p \in ProvidersInOrder : CoolsOff(p)
  PROVE  SpareInv'
<1>1. CASE EnrichAll
  BY <1>1 DEF EnrichAll, SpareInv, Asked
<1>2. CASE ImageTimeOver
  BY <1>2 DEF ImageTimeOver, SpareInv, Asked
<1>3. ASSUME NEW w \in BulkWorkers, TakeGroup(w) PROVE SpareInv'
  <2>1. Rested(w)
    BY <1>3 DEF TakeGroup, SpareInv, Rested, Enrichers
  <2>2. UNCHANGED Asked /\ UNCHANGED ImageGate
    BY <1>3 DEF TakeGroup
  <2>3. w \in Enrichers
    BY DEF Enrichers
  <2> QED
    BY <2>1, <2>2, <2>3, GateKept, RestKeeps
<1>4. ASSUME NEW w \in BulkWorkers, GroupDone(w) PROVE SpareInv'
  <2>1. Rested(w)
    BY <1>4 DEF GroupDone, SpareInv, Rested, Enrichers, Free
  <2>2. UNCHANGED Asked /\ UNCHANGED ImageGate
    BY <1>4 DEF GroupDone
  <2>3. w \in Enrichers
    BY DEF Enrichers
  <2> QED
    BY <2>1, <2>2, <2>3, GateKept, RestKeeps
<1>5. ASSUME NEW w \in BulkWorkers, DeadlinePasses(w) PROVE SpareInv'
  <2>1. w \in Enrichers /\ UNCHANGED Asked /\ UNCHANGED ImageGate
    BY <1>5 DEF DeadlinePasses, Enrichers
  <2>2. {"at", "prov"} \subseteq DOMAIN enricher[w] /\ DOMAIN enricher = Enrichers
    BY <1>5, <2>1 DEF DeadlinePasses, SpareInv
  <2>3. enricher' = [enricher EXCEPT ![w].late = TRUE]
    BY <1>5 DEF DeadlinePasses
  <2>4. Turned(w, enricher[w].at, enricher[w].prov)
    BY <2>1, <2>2, <2>3 DEF Turned
  <2>5. enricher[w].at \in Asking => <<w, enricher[w].prov>> \notin limited
    BY <2>1 DEF SpareInv
  <2> QED
    BY <2>1, <2>4, <2>5, GateKept, SilentKeeps
<1>6. ASSUME NEW t \in TracksHeard, HandleImport(t) PROVE SpareInv'
  <2>1. Chain \in Enrichers /\ UNCHANGED Asked /\ UNCHANGED ImageGate
    BY <1>6 DEF HandleImport, Enrichers
  <2>2. enricher' = [enricher EXCEPT ![Chain] = [at |-> "next", todo |-> <<t>>, late |-> FALSE]]
    BY <1>6 DEF HandleImport
  <2>3. Rested(Chain)
    BY <2>1, <2>2 DEF SpareInv, Rested
  <2> QED
    BY <2>1, <2>3, GateKept, RestKeeps
<1>7. ASSUME NEW p \in ProvidersInOrder, CoolsOff(p) PROVE SpareInv'
  <2>1. /\ coolingDown' = coolingDown \ {p} /\ limited' = {l \in limited : l[2] # p}
        /\ UNCHANGED <<imageTried, imageRuns, pestered, enricher>>
    BY <1>7 DEF CoolsOff, ImageGate
  <2> QED
    BY <2>1 DEF SpareInv
<1> QED
  BY <1>1, <1>2, <1>3, <1>4, <1>5, <1>6, <1>7
LEMMA SpareInvRead ==
  ASSUME SpareInv, NEW w \in Enrichers, ReadForEnrich(w)
  PROVE  SpareInv'
<1>1. UNCHANGED Asked
  BY DEF ReadForEnrich
<1>2. DOMAIN enricher = Enrichers
  BY DEF SpareInv
<1>3. \/ TrackDone(w) /\ UNCHANGED ImageGate
      \/ /\ (UNCHANGED ImageGate) \/ (~imageTried /\ MarkAttempt)
         /\ \E e : /\ enricher' = [enricher EXCEPT ![w] = e]
                   /\ {"at", "prov"} \subseteq DOMAIN e
                   /\ e.at \in {"provider", "image"} /\ e.prov = 1
  <2> DEFINE t == Head(enricher[w].todo)
             a == AlbumHolding(t)
             Copy(at) == [at |-> at, todo |-> enricher[w].todo, late |-> enricher[w].late, track |-> t, album |-> a,
                          trackCopy |-> trackRow[t], albumCopy |-> albumFields[a],
                          trackMod |-> FALSE, albumMod |-> FALSE, prov |-> 1, asked |-> FALSE,
                          skipImage |-> w # Chain /\ imageTried, only |-> at = "image"]
  <2>1. \/ TrackDone(w) /\ UNCHANGED ImageGate
        \/ enricher' = [enricher EXCEPT ![w] = Copy("provider")] /\ UNCHANGED ImageGate
        \/ ~imageTried /\ enricher' = [enricher EXCEPT ![w] = Copy("image")] /\ MarkAttempt
    BY DEF ReadForEnrich
  <2>2. \A at : Copy(at).at = at /\ Copy(at).prov = 1 /\ {"at", "prov"} \subseteq DOMAIN Copy(at)
    OBVIOUS
  <2>3. /\ {"at", "prov"} \subseteq DOMAIN Copy("provider") /\ {"at", "prov"} \subseteq DOMAIN Copy("image")
        /\ Copy("provider").prov = 1 /\ Copy("image").prov = 1
        /\ Copy("provider").at \in {"provider", "image"} /\ Copy("image").at \in {"provider", "image"}
    BY <2>2
  <2> HIDE DEF Copy
  <2>4. CASE TrackDone(w) /\ UNCHANGED ImageGate
    BY <2>4
  <2>5. CASE enricher' = [enricher EXCEPT ![w] = Copy("provider")] /\ UNCHANGED ImageGate
    BY <2>3, <2>5
  <2>6. CASE ~imageTried /\ enricher' = [enricher EXCEPT ![w] = Copy("image")] /\ MarkAttempt
    BY <2>3, <2>6
  <2> QED
    BY <2>1, <2>4, <2>5, <2>6
<1>4. CASE TrackDone(w) /\ UNCHANGED ImageGate
  BY <1>1, <1>4, TrackRests, GateKept, RestKeeps
<1>5. ASSUME NEW e, enricher' = [enricher EXCEPT ![w] = e], {"at", "prov"} \subseteq DOMAIN e,
             e.at \in {"provider", "image"}, e.prov = 1,
             (UNCHANGED ImageGate) \/ (~imageTried /\ MarkAttempt)
      PROVE  SpareInv'
  <2>1. Turned(w, e.at, 1)
    BY <1>2, <1>5 DEF Turned
  <2>2. imageTried' \in BOOLEAN /\ imageRuns' = (IF imageTried' THEN 1 ELSE 0)
    BY <1>5, GateKept, MarkedOnce
  <2>3. e.at \notin Asking
    BY <1>5 DEF Asking
  <2> QED
    BY <1>1, <2>1, <2>2, <2>3, SilentKeeps
<1> QED
  BY <1>3, <1>4, <1>5

LEMMA SpareInvTurn ==
  ASSUME SpareInv, NEW w \in Enrichers, ProviderTurn(w)
  PROVE  SpareInv'
<1> DEFINE p == enricher[w].prov
<1>1. UNCHANGED Asked /\ enricher[w].at = "provider"
  BY DEF ProviderTurn
<1>2. /\ DOMAIN enricher = Enrichers /\ {"at", "prov"} \subseteq DOMAIN enricher[w]
  BY <1>1 DEF SpareInv
<1>3. \/ markImageAttemptDue(w, enricher[w].late)
      \/ UNCHANGED ImageGate /\ enricher' = [enricher EXCEPT ![w].prov = p + 1, ![w].asked = FALSE]
      \/ UNCHANGED ImageGate /\ ~(w # Chain /\ p \in coolingDown) /\ GoesOn(w, "title")
  BY DEF ProviderTurn
<1>4. CASE markImageAttemptDue(w, enricher[w].late)
  <2>1. \/ ~imageTried /\ MarkAttempt /\ TurnsTo(w, "image", 1)
        \/ UNCHANGED ImageGate /\ GoesOn(w, "thumb")
    BY <1>4 DEF markImageAttemptDue
  <2>2. Turned(w, "image", 1) \/ Turned(w, "thumb", p)
    BY <1>1, <2>1, WorkerTurns
  <2>3. imageTried' \in BOOLEAN /\ imageRuns' = (IF imageTried' THEN 1 ELSE 0)
    BY <2>1, GateKept, MarkedOnce
  <2>4. "image" \notin Asking /\ "thumb" \notin Asking
    BY DEF Asking
  <2> QED
    BY <1>1, <2>2, <2>3, <2>4, SilentKeeps
<1>5. CASE UNCHANGED ImageGate /\ enricher' = [enricher EXCEPT ![w].prov = p + 1, ![w].asked = FALSE]
  <2>1. Turned(w, "provider", p + 1)
    BY <1>1, <1>2, <1>5 DEF Turned
  <2>2. "provider" \notin Asking
    BY DEF Asking
  <2> QED
    BY <1>1, <1>5, <2>1, <2>2, GateKept, SilentKeeps
<1>6. CASE UNCHANGED ImageGate /\ ~(w # Chain /\ p \in coolingDown) /\ GoesOn(w, "title")
  <2>1. Turned(w, "title", p)
    BY <1>1, <1>6, WorkerTurns
  <2>2. <<w, p>> \notin limited
    BY <1>6, NotTold
  <2> QED
    BY <1>1, <1>6, <2>1, <2>2, GateKept, SilentKeeps
<1> QED
  BY <1>3, <1>4, <1>5, <1>6

LEMMA SpareInvTitle ==
  ASSUME SpareInv, NEW w \in Enrichers, AskTitle(w)
  PROVE  SpareInv'
<1> DEFINE p == enricher[w].prov
<1>1. enricher[w].at = "title" /\ UNCHANGED ImageGate
  BY DEF AskTitle
<1>2. /\ DOMAIN enricher = Enrichers /\ {"at", "prov"} \subseteq DOMAIN enricher[w]
      /\ <<w, p>> \notin limited
  BY <1>1 DEF SpareInv, Asking
<1>3. "provider" \notin Asking
  BY DEF Asking
<1>4. CASE GoesOn(w, "cover") /\ UNCHANGED Asked
  <2>1. Turned(w, "cover", p)
    BY <1>1, <1>4, WorkerTurns
  <2> QED
    BY <1>1, <1>2, <1>4, <2>1, GateKept, SilentKeeps
<1>5. ASSUME NEW answer \in {"none", "limited"}, AskProvider(w, p, answer), ProviderDone(w) PROVE SpareInv'
  <2>1. Turned(w, "provider", p + 1)
    BY <1>1, <1>5, WorkerTurns
  <2> QED
    BY <1>1, <1>2, <1>3, <1>5, <2>1, AskKeeps
<1>6. ASSUME AskProvider(w, p, "found"),
             enricher' = [enricher EXCEPT ![w].at = "cover", ![w].albumMod = TRUE,
                                           ![w].albumCopy.title = enricher[w].prov]
      PROVE  SpareInv'
  <2>1. Turned(w, "cover", p)
    BY <1>1, <1>2, <1>6 DEF Turned
  <2>2. "found" # "limited"
    OBVIOUS
  <2> QED
    BY <1>1, <1>2, <1>6, <2>1, <2>2, AskKeeps
<1> QED
  BY <1>4, <1>5, <1>6 DEF AskTitle

LEMMA SpareInvCover ==
  ASSUME SpareInv, NEW w \in Enrichers, AskCover(w)
  PROVE  SpareInv'
<1> DEFINE p == enricher[w].prov
<1>1. enricher[w].at = "cover" /\ UNCHANGED ImageGate
  BY DEF AskCover
<1>2. <<w, p>> \notin limited
  BY <1>1 DEF SpareInv, Asking
<1>3. "provider" \notin Asking
  BY DEF Asking
<1>4. GoesOn(w, "meta") => Turned(w, "meta", p)
  BY <1>1, WorkerTurns
<1>5. CASE GoesOn(w, "meta") /\ UNCHANGED Asked
  BY <1>1, <1>2, <1>4, <1>5, GateKept, SilentKeeps
<1>6. ASSUME NEW answer \in {"found", "none", "limited"}, AskProvider(w, p, answer),
             IF Backs(w, answer) THEN ProviderDone(w) ELSE GoesOn(w, "meta")
      PROVE  SpareInv'
  <2>1. CASE Backs(w, answer)
    <3>1. Turned(w, "provider", p + 1)
      BY <1>1, <1>6, <2>1, WorkerTurns
    <3> QED
      BY <1>1, <1>2, <1>3, <1>6, <3>1, AskKeeps
  <2>2. CASE ~Backs(w, answer)
    <3>1. answer # "limited" \/ w = Chain
      BY <2>2 DEF Backs
    <3> QED
      BY <1>1, <1>2, <1>4, <1>6, <2>2, <3>1, AskKeeps
  <2> QED
    BY <2>1, <2>2
<1> QED
  BY <1>5, <1>6 DEF AskCover

LEMMA SpareInvTrack ==
  ASSUME SpareInv, NEW w \in Enrichers, EnrichTrack(w)
  PROVE  SpareInv'
<1> DEFINE p == enricher[w].prov
<1>1. enricher[w].at = "meta" /\ UNCHANGED ImageGate
  BY DEF EnrichTrack
<1>2. /\ DOMAIN enricher = Enrichers /\ {"at", "prov"} \subseteq DOMAIN enricher[w]
      /\ <<w, p>> \notin limited
  BY <1>1 DEF SpareInv, Asking
<1>3. "provider" \notin Asking
  BY DEF Asking
<1>4. ASSUME NEW answer, AskProvider(w, p, answer), Turned(w, "provider", p + 1) PROVE SpareInv'
  BY <1>1, <1>2, <1>3, <1>4, AskKeeps
<1>5. ASSUME NEW answer \in {"none", "limited"}, AskProvider(w, p, answer), ProviderDone(w) PROVE SpareInv'
  BY <1>1, <1>4, <1>5, WorkerTurns
<1>6. ASSUME NEW t, NEW a, AskProvider(w, p, "found"),
             enricher' = [enricher EXCEPT ![w].at = "provider", ![w].prov = @ + 1, ![w].asked = TRUE,
                            ![w].trackCopy = t, ![w].albumCopy = a,
                            ![w].trackMod = @ \/ t # enricher[w].trackCopy,
                            ![w].albumMod = @ \/ a # enricher[w].albumCopy]
      PROVE  SpareInv'
  <2>1. Turned(w, "provider", p + 1)
    BY <1>2, <1>6 DEF Turned
  <2> QED
    BY <1>4, <1>6, <2>1
<1> QED
  BY <1>5, <1>6, ZenonT(40) DEF EnrichTrack

LEMMA SpareInvImage ==
  ASSUME SpareInv, NEW w \in Enrichers, enrichArtistImage(w)
  PROVE  SpareInv'
<1> DEFINE n == enricher[w].prov
           p == ((n - 1) % EnrichProviders) + 1
<1>1. enricher[w].at = "image" /\ UNCHANGED ImageGate
  BY DEF enrichArtistImage
<1>2. \E at, q : at \notin Asking /\ (Turned(w, at, q) \/ Rested(w))
  <2>1. ImageOver(w) \/ TurnsTo(w, "image", n + 1)
    BY DEF enrichArtistImage
  <2>2. TrackDone(w) \/ GoesOn(w, "thumb") \/ TurnsTo(w, "image", n + 1)
    BY <2>1 DEF ImageOver
  <2>3. Rested(w) \/ Turned(w, "thumb", n) \/ Turned(w, "image", n + 1)
    BY <1>1, <2>2, WorkerTurns
  <2>4. "image" \notin Asking /\ "thumb" \notin Asking
    BY DEF Asking
  <2> QED
    BY <2>3, <2>4
<1>3. PICK at, q : at \notin Asking /\ (Turned(w, at, q) \/ Rested(w))
  BY <1>2
<1>4. CASE UNCHANGED Asked
  BY <1>1, <1>3, <1>4, GateKept, SilentKeeps
<1>5. ASSUME NEW answer, AskProvider(w, p, answer), ~(w # Chain /\ p \in coolingDown) PROVE SpareInv'
  <2>1. <<w, p>> \notin limited
    BY <1>5, NotTold
  <2> QED
    BY <1>1, <1>3, <1>5, <2>1, AskKeeps
<1> QED
  BY <1>4, <1>5 DEF enrichArtistImage

LEMMA SpareInvWrite ==
  ASSUME SpareInv, NEW w \in Enrichers, SyncThumb(w) \/ WriteTrackRow(w) \/ WriteAlbumRow(w)
  PROVE  SpareInv'
<1>1. /\ enricher[w].at \in {"thumb", "track", "album"}
      /\ UNCHANGED Asked /\ UNCHANGED ImageGate
  BY DEF SyncThumb, WriteTrackRow, WriteAlbumRow
<1>2. DOMAIN enricher = Enrichers /\ {"at", "prov"} \subseteq DOMAIN enricher[w]
  BY <1>1 DEF SpareInv
<1>3. ASSUME NEW at \in {"track", "album"}, Turned(w, at, enricher[w].prov) PROVE SpareInv'
  <2>1. at \notin Asking
    BY DEF Asking
  <2> QED
    BY <1>1, <1>3, <2>1, GateKept, SilentKeeps
<1>4. CASE SyncThumb(w)
  <2>1. ASSUME enricher' = [enricher EXCEPT ![w].at = "track", ![w].albumMod = TRUE, ![w].albumCopy.thumb = 1]
        PROVE  Turned(w, "track", enricher[w].prov)
    BY <1>2, <2>1 DEF Turned
  <2>2. GoesOn(w, "track") => Turned(w, "track", enricher[w].prov)
    BY <1>1, WorkerTurns
  <2> QED
    BY <1>3, <1>4, <2>1, <2>2 DEF SyncThumb
<1>5. CASE WriteTrackRow(w)
  <2>1. Turned(w, "album", enricher[w].prov)
    BY <1>1, <1>5, WorkerTurns DEF WriteTrackRow
  <2> QED
    BY <1>3, <2>1
<1>6. CASE WriteAlbumRow(w)
  BY <1>1, <1>6, TrackRests, GateKept, RestKeeps DEF WriteAlbumRow
<1> QED
  BY <1>4, <1>5, <1>6

LEMMA SpareInvStep == SpareInv /\ [EnrichmentNext]_enrichmentVars => SpareInv'
<1> SUFFICES ASSUME SpareInv, [EnrichmentNext]_enrichmentVars PROVE SpareInv'
  OBVIOUS
<1>1. ASSUME NEW w \in Enrichers, Enriches(w) PROVE SpareInv'
  BY <1>1, SpareInvRead, SpareInvTurn, SpareInvTitle, SpareInvCover, SpareInvTrack, SpareInvImage,
     SpareInvWrite DEF Enriches
<1>2. CASE UNCHANGED enrichmentVars
  BY <1>2 DEF enrichmentVars, SpareInv
<1> QED
  BY <1>1, <1>2, SpareInvJob DEF EnrichmentNext
LEMMA SpareInvHolds == ProvidersSpec => []SpareInv
<1>1. ProvidersInit => SpareInv
  BY SpareInvInit DEF ProvidersInit
<1>2. SpareInv /\ [ProvidersNext]_<<scene, providers>> => SpareInv'
  BY SpareInvStep, ScenesAreSteps
<1> QED
  BY <1>1, <1>2, PTL DEF ProvidersSpec

\* Enrichment heeds the providers' pauses and searches for the artist's image
\* once in its time (handler_enrichment.go enrichSingleTrack, enrichArtistImage).
THEOREM PausesHeeded == ProvidersSpec => []EnrichmentSpares
<1>1. SpareInv => EnrichmentSpares
  BY DEF SpareInv, EnrichmentSpares
<1> QED
  BY <1>1, SpareInvHolds, PTL

\* The providers are spared: the pace of a client's requests, the pauses that
\* survive a restart, and the pauses the enrichment heeds.
THEOREM ProvidersAlwaysSpared == ProvidersSpec => []ProvidersSpared
<1>1. RateKept /\ ParkedIsStored /\ EnrichmentSpares => ProvidersSpared
  BY DEF ProvidersSpared
<1> QED
  BY <1>1, PaceKept, PauseStored, PausesHeeded, PTL

-----------------------------------------------------------------------------
(* The logins' types: what is asked with, stored and kept is a token       *)

(* No token that is about to be asked with, stored or kept is the missing  *)
(* one, and a client's lock is held by somebody who refreshes that client. *)
RefreshSteps == {"ask", "store", "persist", "unlock"}
TokensReal ==
  /\ persisted >= 1 /\ granted <= MaxTokens /\ NoToken \notin spentTokens
  /\ \A g \in 1 .. live : tidalClients[g].refresh >= 1
  /\ \A u \in TokenUsers : InFlight(u) => using[u].token >= 1
  /\ device.at \in {"grant", "persist", "update"} => device.token >= 1
  /\ \A g \in Generations : refreshMu[g] # Nobody =>
       using[refreshMu[g]].client = g /\ using[refreshMu[g]].at \in RefreshSteps

LEMMA TokensRealInit == TokenInit => TokensReal
<1> SUFFICES ASSUME TokenInit PROVE TokensReal
  OBVIOUS
<1>1. 1 \in Generations /\ live = 1 /\ persisted = 1 /\ granted = 1 /\ spentTokens = {} /\ 1 <= MaxTokens
  BY TokenAssumption DEF TokenInit, Generations
<1>2. tidalClients[1].refresh = 1 /\ \A g \in 1 .. live : g = 1
  BY <1>1 DEF TokenInit, NewClient
<1>3. \A u \in TokenUsers : ~ InFlight(u)
  BY DEF TokenInit, InFlight, Away
<1>4. device.at = "none" /\ \A g \in Generations : refreshMu[g] = Nobody
  BY DEF TokenInit, NoFlow
<1> QED
  BY <1>1, <1>2, <1>3, <1>4 DEF TokensReal, NoToken

\* What a goroutine's step makes of the tokens and the locks.
LEMMA UserReal ==
  ASSUME TokenTyped, OneRefresh, TokensReal, NEW u \in TokenUsers,
         UNCHANGED <<live, device>>, granted' <= MaxTokens, persisted' >= 1, NoToken \notin spentTokens',
         \A g \in 1 .. live : tidalClients'[g].refresh >= 1,
         NEW at, NEW c, NEW t, UserAt(u, at, c, t), at \in {"ask", "store", "persist"} => t >= 1,
         \/ refreshMu' = refreshMu /\ at \in RefreshSteps /\ c = using[u].client
         \/ refreshMu' = refreshMu /\ using[u].at \in {"away", "lock"}
         \/ refreshMu' = [refreshMu EXCEPT ![using[u].client] = u] /\ at \in RefreshSteps /\ c = using[u].client
              /\ using[u].at = "lock"
         \/ refreshMu' = [refreshMu EXCEPT ![using[u].client] = Nobody]
  PROVE  TokensReal'
<1>1. \A v \in TokenUsers : v # u => using'[v] = using[v]
  BY DEF UserAt
<1>2. using'[u].at = at /\ using'[u].client = c /\ using'[u].token = t
  BY DEF UserAt
<1>3. \A v \in TokenUsers : InFlight(v)' => using'[v].token >= 1
  BY <1>1, <1>2 DEF TokensReal, InFlight
<1>4. ASSUME NEW g \in Generations, refreshMu'[g] # Nobody
      PROVE  using'[refreshMu'[g]].client = g /\ using'[refreshMu'[g]].at \in RefreshSteps
  <2>0. refreshMu \in [Generations -> TokenUsers \cup {Nobody}] /\ Nobody \notin TokenUsers /\ using[u].client \in Generations
    BY UsingStep, TokenAssumption DEF TokenTyped, Nobody
  <2>1. CASE g = using[u].client /\ refreshMu' = [refreshMu EXCEPT ![using[u].client] = u]
                /\ at \in RefreshSteps /\ c = using[u].client
    BY <1>2, <2>0, <2>1
  <2>2. CASE g = using[u].client /\ refreshMu' = [refreshMu EXCEPT ![using[u].client] = Nobody]
    BY <1>4, <2>0, <2>2
  <2>3. CASE refreshMu'[g] = refreshMu[g]
    <3>1. refreshMu[g] \in TokenUsers /\ using[refreshMu[g]].client = g /\ using[refreshMu[g]].at \in RefreshSteps
      BY <1>4, <2>0, <2>3 DEF TokensReal
    <3>2. CASE refreshMu[g] # u
      BY <1>1, <2>3, <3>1, <3>2
    <3>3. CASE refreshMu[g] = u
      <4>1. g = using[u].client /\ using[u].at \notin {"away", "lock"}
        BY <3>1, <3>3 DEF RefreshSteps
      <4> QED
        BY <1>2, <1>4, <2>0, <2>3, <3>3, <4>1
    <3> QED
      BY <3>2, <3>3
  <2> QED
    BY <2>0, <2>1, <2>2, <2>3
<1> QED
  BY <1>3, <1>4 DEF TokensReal

LEMMA TokensRealStep ==
  ASSUME TokenTyped, OneRefresh, TokensReal, [TokenNext]_tokenVars
  PROVE  TokensReal'
<1>1. /\ live \in Nat /\ live >= 1 /\ live \in Generations /\ granted \in Nat /\ persisted \in Nat /\ MaxTokens \in Nat
      /\ MaxClients \in Nat /\ 1 .. live \subseteq Generations
  BY TokenAssumption DEF TokenTyped, Generations
<1>2. tidalClients \in [Generations -> [refresh : 0 .. granted, expired : BOOLEAN, hook : BOOLEAN]]
  BY DEF TokenTyped
<1>3. /\ persisted >= 1 /\ granted <= MaxTokens /\ NoToken \notin spentTokens
      /\ \A g \in 1 .. live : tidalClients[g].refresh >= 1
      /\ \A u \in TokenUsers : InFlight(u) => using[u].token >= 1
      /\ device.at \in {"grant", "persist", "update"} => device.token >= 1
  BY DEF TokensReal
<1>4. device.client \in 1 .. live /\ DOMAIN device = {"at", "client", "token"}
  BY DEF TokenTyped
<1>5. ASSUME NEW u \in TokenUsers,
             NeedToken(u) \/ LockAndLook(u) \/ refreshAccessToken(u) \/ storeToken(u) \/ PersistRefreshed(u) \/ Unlock(u)
      PROVE  TokensReal'
  <2>1. using[u].client \in 1 .. live /\ using[u].client \in Generations
    BY <1>1, UsingStep DEF Generations
  <2>2. /\ NeedToken(u) => UserAt(u, "lock", live, NoToken)
        /\ \A at, t : UsesToken(u, at, t) => UserAt(u, at, using[u].client, t)
        /\ \A at : Uses(u, at) => UserAt(u, at, using[u].client, using[u].token)
        /\ Returns(u) => UserAt(u, "away", 1, NoToken)
    BY UserMoves
  <2>3. CASE NeedToken(u)
    <3>1. /\ using[u].at = "away"
          /\ UNCHANGED <<tidalClients, live, persisted, granted, spentTokens, refreshMu, device>>
      BY <2>3 DEF NeedToken
    <3> QED
      BY <1>3, <2>2, <2>3, <3>1, UserReal
  <2>4. CASE LockAndLook(u)
    <3>1. using[u].at = "lock" /\ UNCHANGED <<tidalClients, live, persisted, granted, spentTokens, device>>
      BY <2>4 DEF LockAndLook
    <3>2. CASE /\ refreshMu' = [refreshMu EXCEPT ![using[u].client] = u]
               /\ UsesToken(u, "ask", tidalClients[using[u].client].refresh)
      <4>1. tidalClients[using[u].client].refresh >= 1 /\ "ask" \in RefreshSteps
        BY <1>3, <2>1 DEF RefreshSteps
      <4>2. PICK t : t = tidalClients[using[u].client].refresh
        OBVIOUS
      <4>3. UserAt(u, "ask", using[u].client, t)
        BY <2>2, <3>2, <4>2
      <4> QED
        BY <1>3, <3>1, <3>2, <4>1, <4>2, <4>3, UserReal
    <3>3. CASE Returns(u) /\ UNCHANGED refreshMu
      BY <1>3, <2>2, <3>1, <3>3, UserReal
    <3> QED
      BY <2>4, <3>2, <3>3 DEF LockAndLook
  <2>5. CASE refreshAccessToken(u)
    <3>1. using[u].at = "ask" /\ UNCHANGED <<tidalClients, live, persisted, device>>
      BY <2>5 DEF refreshAccessToken
    <3>2. using[u].token >= 1 /\ "store" \in RefreshSteps
      BY <1>3, <3>1 DEF InFlight, RefreshSteps
    <3>3. CASE /\ granted < MaxTokens /\ granted' = granted + 1 /\ spentTokens' = spentTokens \cup {using[u].token}
               /\ UsesToken(u, "store", granted + 1) /\ UNCHANGED refreshMu
      <4>1. granted' <= MaxTokens /\ NoToken \notin spentTokens' /\ granted + 1 >= 1
        BY <1>1, <1>3, <3>2, <3>3 DEF NoToken
      <4>2. PICK t : t = granted + 1
        OBVIOUS
      <4>3. UserAt(u, "store", using[u].client, t)
        BY <2>2, <3>3, <4>2
      <4> QED
        BY <1>3, <3>1, <3>2, <3>3, <4>1, <4>2, <4>3, UserReal
    <3>4. CASE Uses(u, "store") /\ UNCHANGED <<granted, spentTokens, refreshMu>>
      <4>1. UserAt(u, "store", using[u].client, using[u].token)
        BY <2>2, <3>4
      <4> QED
        BY <1>3, <3>1, <3>2, <3>4, <4>1, UserReal
    <3>5. CASE Returns(u) /\ ReleaseRefresh(u) /\ UNCHANGED <<granted, spentTokens>>
      BY <1>3, <2>2, <3>1, <3>5, UserReal DEF ReleaseRefresh
    <3> QED
      BY <2>5, <3>3, <3>4, <3>5 DEF refreshAccessToken
  <2>6. CASE storeToken(u)
    <3>1. /\ using[u].at = "store" /\ UNCHANGED <<live, persisted, granted, spentTokens, refreshMu, device>>
          /\ TokenStored(using[u].client, using[u].token)
      BY <2>6 DEF storeToken
    <3>2. using[u].token >= 1
      BY <1>3, <3>1 DEF InFlight
    <3>3. \A g \in 1 .. live : tidalClients'[g].refresh >= 1
      BY <1>1, <1>2, <1>3, <2>1, <3>1, <3>2 DEF TokenStored
    <3>4. PICK at \in {"persist", "unlock"} : Uses(u, at)
      BY <2>6 DEF storeToken
    <3>5. UserAt(u, at, using[u].client, using[u].token) /\ at \in RefreshSteps
      BY <2>2, <3>4 DEF RefreshSteps
    <3> QED
      BY <1>3, <3>1, <3>2, <3>3, <3>5, UserReal
  <2>7. CASE PersistRefreshed(u)
    <3>1. /\ using[u].at = "persist" /\ UNCHANGED <<tidalClients, live, granted, spentTokens, refreshMu, device>>
          /\ persisted' = using[u].token /\ Uses(u, "unlock")
      BY <2>7 DEF PersistRefreshed, persistTidalToken
    <3>2. using[u].token >= 1 /\ "unlock" \in RefreshSteps
      BY <1>3, <3>1 DEF InFlight, RefreshSteps
    <3>3. UserAt(u, "unlock", using[u].client, using[u].token)
      BY <2>2, <3>1
    <3> QED
      BY <1>3, <3>1, <3>2, <3>3, UserReal
  <2>8. CASE Unlock(u)
    <3>1. /\ UNCHANGED <<tidalClients, live, persisted, granted, spentTokens, device>>
          /\ ReleaseRefresh(u) /\ Returns(u)
      BY <2>8 DEF Unlock
    <3> QED
      BY <1>3, <2>2, <3>1, UserReal DEF ReleaseRefresh
  <2> QED
    BY <1>5, <2>3, <2>4, <2>5, <2>6, <2>7, <2>8
<1>6. CASE IsTokenExpired
  <2>1. /\ \A g \in Generations : tidalClients'[g].refresh = tidalClients[g].refresh
        /\ UNCHANGED <<live, persisted, granted, spentTokens, refreshMu, using, device>>
    BY <1>2, <1>6 DEF IsTokenExpired
  <2> QED
    BY <1>1, <2>1 DEF TokensReal, InFlight
<1>7. CASE StartDeviceAuth \/ PersistGranted \/ GetTokenJSON \/ UpdateConfig \/ CompleteDeviceAuth
  <2>1. UNCHANGED <<tidalClients, live, spentTokens, refreshMu, using>>
    BY <1>7 DEF StartDeviceAuth, PersistGranted, GetTokenJSON, UpdateConfig, CompleteDeviceAuth
  <2>2. /\ persisted' >= 1 /\ granted' <= MaxTokens
        /\ device'.at \in {"grant", "persist", "update"} => device'.token >= 1
    <3>1. CASE StartDeviceAuth
      BY <1>3, <1>4, <3>1 DEF StartDeviceAuth
    <3>2. CASE PersistGranted
      BY <1>3, <1>4, <3>2 DEF PersistGranted, persistTidalToken, Flows
    <3>3. CASE GetTokenJSON
      BY <1>3, <1>4, <3>3 DEF GetTokenJSON, FlowsToken
    <3>4. CASE UpdateConfig
      BY <1>3, <1>4, <3>4 DEF UpdateConfig, persistTidalToken, Flows
    <3>5. CASE CompleteDeviceAuth
      <4>1. persisted' = persisted
        BY <3>5 DEF CompleteDeviceAuth
      <4>2. CASE granted < MaxTokens /\ granted' = granted + 1 /\ FlowsToken("grant", granted + 1)
        <5>1. device'.token = granted + 1 /\ granted + 1 >= 1 /\ granted' <= MaxTokens
          BY <1>1, <1>4, <4>2 DEF FlowsToken
        <5> QED
          BY <1>3, <4>1, <5>1
      <4>3. CASE granted' = granted /\ device' = NoFlow
        BY <1>3, <4>1, <4>3 DEF NoFlow
      <4> QED
        BY <3>5, <4>2, <4>3 DEF CompleteDeviceAuth
    <3> QED
      BY <1>7, <3>1, <3>2, <3>3, <3>4, <3>5
  <2> QED
    BY <2>1, <2>2 DEF TokensReal, InFlight
<1>8. CASE StoreGranted
  <2>1. /\ device.at = "grant" /\ UNCHANGED <<live, persisted, granted, spentTokens, refreshMu, using>>
        /\ TokenStored(device.client, device.token)
    BY <1>8 DEF StoreGranted
  <2>2. \A g \in 1 .. live : tidalClients'[g].refresh >= 1
    BY <1>1, <1>2, <1>3, <1>4, <2>1 DEF TokenStored
  <2>3. device'.token = device.token
    BY <1>4, <1>8 DEF StoreGranted, Flows
  <2> QED
    BY <1>3, <2>1, <2>2, <2>3 DEF TokensReal, InFlight
<1>9. ASSUME NEW hook, Built(persisted, hook), UNCHANGED <<persisted, granted, spentTokens, refreshMu, using>>,
             device' = device \/ device' = NoFlow
      PROVE  TokensReal'
  <2>1. /\ live' = live + 1 /\ live + 1 \in Generations
        /\ tidalClients' = [tidalClients EXCEPT ![live + 1] = NewClient(persisted, hook)]
    BY <1>1, <1>9 DEF Built, Generations
  <2>2. \A g \in 1 .. live' : g \in Generations /\ (g = live + 1 \/ g \in 1 .. live)
    BY <1>1, <2>1 DEF Generations
  <2>3. \A g \in 1 .. live' : tidalClients'[g].refresh >= 1
    BY <1>2, <1>3, <2>1, <2>2 DEF NewClient
  <2>4. device'.at \in {"grant", "persist", "update"} => device'.token >= 1
    BY <1>3, <1>9 DEF NoFlow
  <2> QED
    BY <1>9, <2>3, <2>4 DEF TokensReal, InFlight
<1>10. CASE RebuildHooked \/ reconcileAfterConfigUpdate
  BY <1>9, <1>10 DEF RebuildHooked, reconcileAfterConfigUpdate
<1>11. CASE UNCHANGED tokenVars
  BY <1>11 DEF tokenVars, TokensReal, InFlight
<1> QED
  BY <1>5, <1>6, <1>7, <1>8, <1>10, <1>11 DEF TokenNext

LEMMA TokenTypeIfReal == TokenInv /\ TokensReal => TokenTypeOK
<1> SUFFICES ASSUME TokenInv, TokensReal PROVE TokenTypeOK
  OBVIOUS
<1>1. persisted \in 1 .. granted /\ granted \in 1 .. MaxTokens /\ spentTokens \subseteq 1 .. granted /\ live \in Generations
  BY TokenAssumption DEF TokenInv, TokenTyped, TokensReal, NoToken
<1> QED
  BY <1>1 DEF TokenTypeOK, TokensReal

LEMMA TokensRealHolds == ProvidersSpec => [](TokenInv /\ TokensReal)
<1>1. ProvidersInit => TokensReal
  BY TokensRealInit DEF ProvidersInit
<1>2. TokenInv /\ TokensReal /\ [ProvidersNext]_<<scene, providers>> => TokensReal'
  BY ScenesAreSteps, TokensRealStep DEF TokenInv
<1> QED
  BY <1>1, <1>2, TokenInvHolds, PTL DEF ProvidersSpec

\* Deezer's login mutex is nobody's or one actor's.
HolderTyped == authHolder \in DeezerActors \cup {NoHolder}
LEMMA HolderStep ==
  ASSUME HolderTyped, [DeezerSessionNext]_deezerSessionVars
  PROVE  HolderTyped'
<1>1. ASSUME NEW a \in DeezerActors, authenticate(a) \/ LoggedIn(a) \/ LoginFails(a)
      PROVE  authHolder' \in {a, NoHolder, authHolder}
  BY <1>1 DEF authenticate, LoggedIn, LoginFails
<1>2. ASSUME NEW k \in DeezerCheckers, CheckConnection(k) \/ PublicFails(k) \/ PublicAnswers(k) \/ RestoreClient(k)
      PROVE  authHolder' = authHolder
  BY <1>2 DEF CheckConnection, PublicFails, PublicAnswers, RestoreClient
<1>3. ASSUME NEW arl, NewDownloadClient(arl) PROVE authHolder' = authHolder
  BY <1>3 DEF NewDownloadClient
<1>4. ASSUME NEW a \in DeezerCallers, ensureAuth(a) PROVE authHolder' = authHolder
  BY <1>4 DEF ensureAuth
<1>5. ArlExpires => authHolder' = authHolder
  BY DEF ArlExpires
<1> QED
  BY <1>1, <1>2, <1>3, <1>4, <1>5 DEF DeezerSessionNext, deezerSessionVars, HolderTyped

LEMMA HolderHolds == ProvidersSpec => []HolderTyped
<1>1. ProvidersInit => HolderTyped
  BY DEF ProvidersInit, DeezerSessionInit, HolderTyped
<1>2. HolderTyped /\ [ProvidersNext]_<<scene, providers>> => HolderTyped'
  BY ScenesAreSteps, HolderStep
<1> QED
  BY <1>1, <1>2, PTL DEF ProvidersSpec
=============================================================================
