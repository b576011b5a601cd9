------------------------------ MODULE TidalToken ------------------------------
(***************************************************************************)
(* The Tidal client's OAuth token (providers/tidal/client.go, auth.go,     *)
(* handlers.go).  A refresh may rotate the refresh token: the server then  *)
(* no longer takes the old one, and what config.json keeps decides whether *)
(* the next start is still authorized.  Downloads and connection checks    *)
(* refresh, the device flow brings a token of its own, and a settings save *)
(* or a finished device flow puts a new client in the registry.            *)
(***************************************************************************)
EXTENDS Naturals, FiniteSets

CONSTANTS
  TokenUsers,  \* goroutines that need a valid token
  MaxTokens,   \* bound: refresh tokens the server gives
  MaxClients   \* bound: tidalClients built

ASSUME TokenAssumption ==
  /\ 0 \notin TokenUsers
  /\ MaxTokens \in Nat \ {0} /\ MaxClients \in Nat \ {0}

VARIABLES
  tidalClients, \* every client built: its token, expiry and tokenPersist
  live,        \* the one in the registry
  persisted,   \* the refresh token of config.json
  granted,     \* refresh tokens the server has given, counted
  spentTokens, \* those it takes no longer
  refreshMu,   \* by client: who holds it
  using,       \* by goroutine: its client, where it is, the token it read or got
  device,      \* the device flow: handleTidalPoll and pendingAuth
  unhooked     \* a settings save built the live client

tokenVars == <<tidalClients, live, persisted, granted, spentTokens, refreshMu, using, device, unhooked>>

Nobody == 0
NoToken == 0
Generations == 1 .. MaxClients
NoClient == [refresh |-> NoToken, expired |-> FALSE, hook |-> FALSE]
Away == [at |-> "away", client |-> 1, token |-> NoToken]
NoFlow == [at |-> "none", client |-> 1, token |-> NoToken]

NewClient(token, hook) == [refresh |-> token, expired |-> FALSE, hook |-> hook]
Built(token, hook) ==
  /\ live < MaxClients
  /\ tidalClients' = [tidalClients EXCEPT ![live + 1] = NewClient(token, hook)]
  /\ live' = live + 1

(* The process starts with the token of config.json; RegisterOAuthRoutes   *)
(* hooks the client of that moment.                                        *)
TokenInit ==
  /\ tidalClients = [g \in Generations |-> IF g = 1 THEN NewClient(1, TRUE) ELSE NoClient]
  /\ live = 1 /\ persisted = 1 /\ granted = 1 /\ spentTokens = {}
  /\ refreshMu = [g \in Generations |-> Nobody]
  /\ using = [u \in TokenUsers |-> Away] /\ device = NoFlow /\ unhooked = FALSE

Uses(u, at) == using' = [using EXCEPT ![u].at = at]
UsesToken(u, at, token) == using' = [using EXCEPT ![u].at = at, ![u].token = token]
Returns(u) == using' = [using EXCEPT ![u] = Away]
Flows(at) == device' = [device EXCEPT !.at = at]
FlowsToken(at, token) == device' = [device EXCEPT !.at = at, !.token = token]

-----------------------------------------------------------------------------
(* ensureValidToken, called by downloadSync, CheckConnection and the       *)
(* identity lookups on the client they were given.                         *)
NeedToken(u) ==
  /\ using[u].at = "away"
  /\ using' = [using EXCEPT ![u] = [at |-> "lock", client |-> live, token |-> NoToken]]
  /\ UNCHANGED <<tidalClients, live, persisted, granted, spentTokens, refreshMu, device, unhooked>>

\* The token is read under the lock: who waited sees what the holder got.
LockAndLook(u) ==
  /\ using[u].at = "lock" /\ refreshMu[using[u].client] = Nobody
  /\ LET c == tidalClients[using[u].client] IN
     IF c.expired /\ c.refresh # NoToken
     THEN /\ refreshMu' = [refreshMu EXCEPT ![using[u].client] = u]
          /\ UsesToken(u, "ask", c.refresh)
     ELSE Returns(u) /\ UNCHANGED refreshMu
  /\ UNCHANGED <<tidalClients, live, persisted, granted, spentTokens, device, unhooked>>

ReleaseRefresh(u) == refreshMu' = [refreshMu EXCEPT ![using[u].client] = Nobody]

\* The token endpoint answers with a rotated token, with none, or refuses.
refreshAccessToken(u) ==
  /\ using[u].at = "ask"
  /\ \/ /\ using[u].token \notin spentTokens /\ granted < MaxTokens
        /\ granted' = granted + 1
        /\ spentTokens' = spentTokens \cup {using[u].token}
        /\ UsesToken(u, "store", granted + 1)
        /\ UNCHANGED refreshMu
     \/ /\ using[u].token \notin spentTokens
        /\ Uses(u, "store")
        /\ UNCHANGED <<granted, spentTokens, refreshMu>>
     \/ Returns(u) /\ ReleaseRefresh(u) /\ UNCHANGED <<granted, spentTokens>>
  /\ UNCHANGED <<tidalClients, live, persisted, device, unhooked>>

TokenStored(g, token) == tidalClients' = [tidalClients EXCEPT ![g].refresh = token, ![g].expired = FALSE]

storeToken(u) ==
  /\ using[u].at = "store"
  /\ TokenStored(using[u].client, using[u].token)
  /\ Uses(u, IF tidalClients[using[u].client].hook THEN "persist" ELSE "unlock")
  /\ UNCHANGED <<live, persisted, granted, spentTokens, refreshMu, device, unhooked>>

persistTidalToken(token) == persisted' = token

(* Still under refreshMu, so two refreshes are persisted in their order.   *)
PersistRefreshed(u) ==
  /\ using[u].at = "persist"
  /\ persistTidalToken(using[u].token)
  /\ Uses(u, "unlock")
  /\ UNCHANGED <<tidalClients, live, granted, spentTokens, refreshMu, device, unhooked>>

Unlock(u) ==
  /\ using[u].at = "unlock"
  /\ ReleaseRefresh(u) /\ Returns(u)
  /\ UNCHANGED <<tidalClients, live, persisted, granted, spentTokens, device, unhooked>>

(* An access token lives for an hour: longer than a device flow takes to   *)
(* be answered, or a caller to get the lock, refresh and store.            *)
IsTokenExpired ==
  /\ device.at \in {"none", "login"} /\ \A u \in TokenUsers : using[u].at = "away"
  /\ tidalClients' = [g \in Generations |->
                        [tidalClients[g] EXCEPT !.expired = (g <= live)]]
  /\ tidalClients' # tidalClients
  /\ UNCHANGED <<live, persisted, granted, spentTokens, refreshMu, using, device, unhooked>>

-----------------------------------------------------------------------------
(* The device flow: a login page, polled until the user has agreed.        *)
StartDeviceAuth ==
  /\ device.at = "none"
  /\ device' = [device EXCEPT !.at = "login", !.client = live]
  /\ UNCHANGED <<tidalClients, live, persisted, granted, spentTokens, refreshMu, using, unhooked>>

\* A poll uses the client of the registry, which has the request only if it
\* has not been replaced; pendingAuths forgets a code that is over.
CompleteDeviceAuth ==
  /\ device.at = "login"
  /\ \/ /\ device.client = live /\ granted < MaxTokens
        /\ granted' = granted + 1
        /\ FlowsToken("grant", granted + 1)
     \/ granted' = granted /\ device' = NoFlow
  /\ UNCHANGED <<tidalClients, live, persisted, spentTokens, refreshMu, using, unhooked>>

\* storeToken again, but not under refreshMu.
StoreGranted ==
  /\ device.at = "grant"
  /\ TokenStored(device.client, device.token)
  /\ Flows(IF tidalClients[device.client].hook THEN "persist" ELSE "read")
  /\ UNCHANGED <<live, persisted, granted, spentTokens, refreshMu, using, unhooked>>

PersistGranted ==
  /\ device.at = "persist"
  /\ persistTidalToken(device.token)
  /\ Flows("read")
  /\ UNCHANGED <<tidalClients, live, granted, spentTokens, refreshMu, using, unhooked>>

\* The handler asks the client for its token and writes that to the config.
GetTokenJSON ==
  /\ device.at = "read"
  /\ FlowsToken("update", tidalClients[device.client].refresh)
  /\ UNCHANGED <<tidalClients, live, persisted, granted, spentTokens, refreshMu, using, unhooked>>

UpdateConfig ==
  /\ device.at = "update"
  /\ persistTidalToken(device.token)
  /\ Flows("rebuild")
  /\ UNCHANGED <<tidalClients, live, granted, spentTokens, refreshMu, using, unhooked>>

(* The client is built from the config as it is now, and hooked; what the  *)
(* check in between needs is a fresh token.                                *)
\* Mutant: the new client is not hooked.
RebuildUnhooked ==
  /\ device.at = "rebuild"
  /\ Built(persisted, FALSE)
  /\ device' = NoFlow /\ unhooked' = FALSE
  /\ UNCHANGED <<persisted, granted, spentTokens, refreshMu, using>>

RebuildHooked ==
  /\ device.at = "rebuild"
  /\ Built(persisted, TRUE)
  /\ device' = NoFlow /\ unhooked' = FALSE
  /\ UNCHANGED <<persisted, granted, spentTokens, refreshMu, using>>

(* A settings save that changes the source's section: the client is built  *)
(* anew (reconcileAfterConfigUpdate), and nothing hooks it.                *)
reconcileAfterConfigUpdate ==
  /\ Built(persisted, FALSE)
  /\ unhooked' = TRUE
  /\ UNCHANGED <<persisted, granted, spentTokens, refreshMu, using, device>>

TokenNext ==
  \/ \E u \in TokenUsers :
       \/ NeedToken(u) \/ LockAndLook(u) \/ refreshAccessToken(u) \/ storeToken(u) \/ PersistRefreshed(u)
       \/ Unlock(u)
  \/ IsTokenExpired \/ StartDeviceAuth \/ CompleteDeviceAuth \/ StoreGranted \/ PersistGranted
  \/ GetTokenJSON \/ UpdateConfig \/ RebuildHooked \/ reconcileAfterConfigUpdate

-----------------------------------------------------------------------------
TokenTypeOK ==
  /\ live \in Generations /\ persisted \in 1 .. granted /\ granted \in 1 .. MaxTokens
  /\ spentTokens \subseteq 1 .. granted
  /\ \A g \in Generations : refreshMu[g] # Nobody => using[refreshMu[g]].client = g

Answering(u) == using[u].at \in {"store", "persist"}

(* The refresh token config.json keeps is one the server still takes,      *)
(* whichever of refresh, device flow and rebuild wrote last                *)
(* (handlers.go:278, client.go:1063: "so the persisted token stays valid   *)
(* across rotations").  Excepted are the moment between the answer and the *)
(* write, and a client that a settings save built: that one is not hooked. *)
PersistedTokenAlive ==
  (\A u \in TokenUsers : ~Answering(u)) /\ ~unhooked => persisted \notin spentTokens
===========================================================================
