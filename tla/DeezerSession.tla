----------------------------- MODULE DeezerSession -----------------------------
(***************************************************************************)
(* The login one Deezer client shares (providers/deezer/download.go):      *)
(* searches and downloads log in when nobody has yet, one at a time, and   *)
(* the connection checks of the health loop and of the settings page take  *)
(* the login back before they look.                                        *)
(***************************************************************************)
EXTENDS Naturals, FiniteSets, TLC

CONSTANTS
  DeezerCallers,   \* searches and downloads that need the login
  DeezerCheckers   \* connection checks

ASSUME DeezerAssumption == DeezerCallers \cap DeezerCheckers = {}

VARIABLES
  account,    \* the ARL: none configured, accepted by Deezer, expired
  session,    \* c.authenticated, c.publicHealthy, whether there is a license token
  authHolder, \* who holds authMu
  dealing,    \* where every caller and checker is
  client,     \* the timeout of c.client
  restores,   \* per check: the client it puts back
  proven,     \* ghost: checks during which a login succeeded
  standing,   \* ghost: a login succeeded since the last check began
  overlapped  \* ghost: two checks were at the client at once

deezerSessionVars == <<account, session, authHolder, dealing, client, restores, proven,
                       standing, overlapped>>

DeezerActors == DeezerCallers \cup DeezerCheckers
NoHolder == "none"
Answered == {"idle", "ok", "error"}
Swapped(k) == dealing[k] \in {"lock", "login", "closing ok", "closing error"}

DeezerSessionInit ==
  /\ account = "unknown"
  /\ session = [authenticated |-> FALSE, publicHealthy |-> FALSE, licensed |-> FALSE]
  /\ authHolder = NoHolder /\ dealing = [a \in DeezerActors |-> "idle"]
  /\ client = "long" /\ restores = [k \in DeezerCheckers |-> "long"]
  /\ proven = {} /\ standing = FALSE /\ overlapped = FALSE

NewDownloadClient(arl) ==
  /\ account = "unknown" /\ account' = arl
  /\ UNCHANGED <<session, authHolder, dealing, client, restores, proven, standing, overlapped>>

\* Deezer ends the ARL at any time.
ArlExpires ==
  /\ account = "good" /\ account' = "expired"
  /\ UNCHANGED <<session, authHolder, dealing, client, restores, proven, standing, overlapped>>

ensureAuth(a) ==
  /\ account # "unknown" /\ dealing[a] \in Answered
  /\ dealing' = [dealing EXCEPT ![a] = IF session.authenticated THEN "ok" ELSE "lock"]
  /\ UNCHANGED <<account, session, authHolder, client, restores, proven, standing, overlapped>>

(* A check's answer passes the deferred swap of the client.                *)
Closing == [ok |-> "closing ok", error |-> "closing error"]
AuthReturns(a, answer) ==
  dealing' = [dealing EXCEPT ![a] = IF a \in DeezerCallers THEN answer ELSE Closing[answer]]

(* authenticate under authMu: who waited finds the login of another.       *)
authenticate(a) ==
  /\ dealing[a] = "lock" /\ authHolder = NoHolder
  /\ IF session.authenticated THEN AuthReturns(a, "ok") /\ UNCHANGED <<session, authHolder>>
     ELSE IF account = "none" THEN AuthReturns(a, "error") /\ UNCHANGED <<session, authHolder>>
     ELSE /\ authHolder' = a /\ dealing' = [dealing EXCEPT ![a] = "login"]
          /\ session' = [session EXCEPT !.authenticated = FALSE]
  /\ UNCHANGED <<account, client, restores, proven, standing, overlapped>>

(* gwCall answers: a license token may come with it, and stays for good.   *)
LoggedIn(a) ==
  /\ dealing[a] = "login" /\ account = "good"
  /\ \E given \in {TRUE, session.licensed} :
       session' = [session EXCEPT !.authenticated = TRUE, !.licensed = given]
  /\ standing' = TRUE
  /\ proven' = {k \in DeezerCheckers : dealing[k] \notin Answered} \cup proven
  /\ authHolder' = NoHolder /\ AuthReturns(a, "ok")
  /\ UNCHANGED <<account, client, restores, overlapped>>

LoginFails(a) ==
  /\ dealing[a] = "login"
  /\ authHolder' = NoHolder /\ AuthReturns(a, "error")
  /\ UNCHANGED <<account, session, client, restores, proven, standing, overlapped>>

-----------------------------------------------------------------------------
CheckConnection(k) ==
  /\ account # "unknown" /\ dealing[k] \in Answered
  /\ session' = [session EXCEPT !.publicHealthy = FALSE, !.authenticated = FALSE]
  /\ dealing' = [dealing EXCEPT ![k] = "public"]
  /\ proven' = proven \ {k} /\ standing' = FALSE
  /\ UNCHANGED <<account, authHolder, client, restores, overlapped>>

PublicFails(k) ==
  /\ dealing[k] = "public" /\ session' = [session EXCEPT !.publicHealthy = FALSE]
  /\ dealing' = [dealing EXCEPT ![k] = "error"]
  /\ UNCHANGED <<account, authHolder, client, restores, proven, standing, overlapped>>

(* The public API answers; with an ARL the client is swapped for one that  *)
(* gives up sooner, and put back at the end.                               *)
PublicAnswers(k) ==
  /\ dealing[k] = "public" /\ session' = [session EXCEPT !.publicHealthy = TRUE]
  /\ IF account = "none"
     THEN /\ dealing' = [dealing EXCEPT ![k] = "ok"]
          /\ UNCHANGED <<client, restores, overlapped>>
     ELSE /\ restores' = [restores EXCEPT ![k] = client] /\ client' = "short"
          /\ dealing' = [dealing EXCEPT ![k] = "lock"]
          /\ overlapped' = (overlapped \/ \E o \in DeezerCheckers : Swapped(o))
  /\ UNCHANGED <<account, authHolder, proven, standing>>

RestoreClient(k) ==
  /\ client' = restores[k]
  /\ \E answer \in DOMAIN Closing :
       dealing[k] = Closing[answer] /\ dealing' = [dealing EXCEPT ![k] = answer]
  /\ UNCHANGED <<account, session, authHolder, restores, proven, standing, overlapped>>

DeezerSessionNext ==
  \/ \E arl \in {"none", "good", "expired"} : NewDownloadClient(arl)
  \/ ArlExpires
  \/ \E a \in DeezerCallers : ensureAuth(a)
  \/ \E a \in DeezerActors : authenticate(a) \/ LoggedIn(a) \/ LoginFails(a)
  \/ \E k \in DeezerCheckers :
       CheckConnection(k) \/ PublicFails(k) \/ PublicAnswers(k) \/ RestoreClient(k)

-----------------------------------------------------------------------------
DeezerSessionTypeOK ==
  /\ client \in {"long", "short"} /\ authHolder \in DeezerActors \cup {NoHolder}
  /\ account \in {"unknown", "none", "good", "expired"}

(* A check that answers well for a configured ARL saw Deezer accept it     *)
(* after the check began, its own login or the one of somebody it waited   *)
(* for; a caller that waited for a login does not log in again; and only   *)
(* checks that overlap leave the impatient client behind.                  *)
LoginHonest ==
  /\ \A k \in DeezerCheckers : dealing[k] \in {"ok", "closing ok"} /\ account # "none" => k \in proven
  /\ session.authenticated = standing
  /\ client = "short" => overlapped \/ \E k \in DeezerCheckers : Swapped(k)
=============================================================================
