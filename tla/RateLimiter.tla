----------------------------- MODULE RateLimiter -----------------------------
(***************************************************************************)
(* The rate-limited HTTP transport: a request reserves the next free slot  *)
(* under the mutex and waits for it outside.                               *)
(***************************************************************************)
EXTENDS Integers, FiniteSets

CONSTANTS
  Requests,
  MinInterval,   \* between two slots
  RateHorizon    \* bound: the last instant

ASSUME RateAssumption == IsFiniteSet(Requests) /\ MinInterval \in Nat \ {0}

VARIABLES
  rateNow,
  lastReq,       \* the last slot given away
  slot,          \* by request: its slot, 0 while it has none
  sent,          \* the requests that went out
  dropped        \* the requests whose context ended while they waited

rateVars == <<rateNow, lastReq, slot, sent, dropped>>

RateInit ==
  /\ rateNow = MinInterval /\ lastReq = 0
  /\ slot = [r \in Requests |-> 0]
  /\ sent = {} /\ dropped = {}

\* Mutant: waiting requests all take the same slot.
ReserveShared(r) ==
  LET next == lastReq + MinInterval
      mine == IF rateNow >= next THEN rateNow ELSE next
  IN /\ slot[r] = 0
     /\ slot' = [slot EXCEPT ![r] = mine]
     /\ lastReq' = IF rateNow >= next THEN rateNow ELSE lastReq
     /\ UNCHANGED <<rateNow, sent, dropped>>

\* RoundTrip under the mutex: the present moment, or the first free slot.
Reserve(r) ==
  LET next == lastReq + MinInterval
      mine == IF rateNow >= next THEN rateNow ELSE next
  IN /\ slot[r] = 0
     /\ slot' = [slot EXCEPT ![r] = mine]
     /\ lastReq' = mine
     /\ UNCHANGED <<rateNow, sent, dropped>>

\* It goes out once its slot has come, maybe later.
SendRequest(r) ==
  /\ slot[r] # 0 /\ slot[r] <= rateNow /\ r \notin sent \cup dropped
  /\ sent' = sent \cup {r}
  /\ UNCHANGED <<rateNow, lastReq, slot, dropped>>

\* A request that is given up while it waits keeps its slot.
GiveUp(r) ==
  /\ slot[r] > rateNow /\ r \notin sent \cup dropped
  /\ dropped' = dropped \cup {r}
  /\ UNCHANGED <<rateNow, lastReq, slot, sent>>

RateTick ==
  /\ rateNow < RateHorizon
  /\ rateNow' = rateNow + 1
  /\ UNCHANGED <<lastReq, slot, sent, dropped>>

RateNext ==
  \/ \E r \in Requests : Reserve(r) \/ SendRequest(r) \/ GiveUp(r)
  \/ RateTick

----------------------------------------------------------------------------
\* However requests interleave, wait and give up, no more of them have gone out
\* by any instant than one per interval since the first.
RateKept == Cardinality(sent) * MinInterval <= rateNow
=============================================================================
