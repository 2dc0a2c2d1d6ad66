----------------------------- MODULE RateLimiter -----------------------------
(***************************************************************************)
(* The per-address rate limiter of the engine and of the admin API         *)
(* (pkg/ratelimit/per_ip.go) and its middleware.  Allow reads the clock,   *)
(* looks the bucket up under the read lock, creates it under the write     *)
(* lock, and takes a token under the bucket's own lock: four steps, between*)
(* which other requests and the clean-up run.                              *)
(*                                                                         *)
(* Tokens are counted in parts: RlUnit parts are one token and RlRate      *)
(* parts flow in per unit of time, so that rates below one are covered.    *)
(* The addresses stand for what ClientIP returns.                          *)
(***************************************************************************)
EXTENDS Naturals, Integers, FiniteSets, FiniteSetsExt

CONSTANTS
  RlIPs,       \* client addresses
  RlCalls,     \* requests in flight
  RlUnit,      \* parts of a token
  RlRate,      \* parts per unit of time
  RlBurst,     \* tokens a bucket holds
  RlMax,       \* buckets at most (maxBuckets)
  RlTTL,       \* entryTTL
  RlLag,       \* units of time that pass at most while one Allow runs
  RlClock,     \* bound: units of time
  RlObjects    \* bound: buckets ever made

ASSUME RlAssumption ==
  /\ {RlUnit, RlRate, RlBurst, RlMax} \subseteq Nat \ {0}
  /\ {RlTTL, RlLag, RlClock, RlObjects} \subseteq Nat

VARIABLES
  rlNow,       \* the clock
  rlBuckets,   \* address -> its bucket, or 0
  rlObj,       \* bucket -> [tokens, lastUpdate]
  rlMade,      \* buckets made
  rlCall,      \* request -> [pc, ip, now, bucket]
  rlStopped,   \* Stop was called
  rlGranted    \* auxiliary: address -> time of arrival -> requests allowed, save those whose
               \* bucket had been dropped when they took the token

rlVars == <<rlNow, rlBuckets, rlObj, rlMade, rlCall, rlStopped, rlGranted>>

RlFull == RlBurst * RlUnit
RlIdle == [pc |-> "idle", ip |-> CHOOSE i \in RlIPs : TRUE, now |-> 0, bucket |-> 0]

RlInit ==
  /\ rlNow = 0 /\ rlMade = 0 /\ rlStopped = FALSE
  /\ rlBuckets = [i \in RlIPs |-> 0]
  /\ rlObj = [b \in 1 .. RlObjects |-> [tokens |-> RlFull, lastUpdate |-> 0]]
  /\ rlCall = [c \in RlCalls |-> RlIdle]
  /\ rlGranted = [i \in RlIPs |-> [t \in 0 .. RlClock |-> 0]]

-----------------------------------------------------------------------------
(* Allow *)

\* The middleware names the client; Allow reads the clock
RlArrive(c) ==
  /\ rlCall[c].pc = "idle"
  /\ \E i \in RlIPs :
       rlCall' = [rlCall EXCEPT ![c] = [pc |-> "lookup", ip |-> i, now |-> rlNow, bucket |-> 0]]
  /\ UNCHANGED <<rlNow, rlBuckets, rlObj, rlMade, rlStopped, rlGranted>>

RlLookup(c) ==
  /\ rlCall[c].pc = "lookup"
  /\ LET b == rlBuckets[rlCall[c].ip] IN
     rlCall' = [rlCall EXCEPT ![c].pc = IF b = 0 THEN "create" ELSE "take", ![c].bucket = b]
  /\ UNCHANGED <<rlNow, rlBuckets, rlObj, rlMade, rlStopped, rlGranted>>

RlTracked == {i \in RlIPs : rlBuckets[i] # 0}

\* Another request may have made the bucket meanwhile; at maxBuckets the request is refused
RlCreate(c) ==
  /\ rlCall[c].pc = "create"
  /\ LET i == rlCall[c].ip IN
     \/ /\ rlBuckets[i] # 0
        /\ rlCall' = [rlCall EXCEPT ![c].pc = "take", ![c].bucket = rlBuckets[i]]
        /\ UNCHANGED <<rlBuckets, rlObj, rlMade>>
     \/ /\ rlBuckets[i] = 0 /\ Cardinality(RlTracked) >= RlMax
        /\ rlCall' = [rlCall EXCEPT ![c] = RlIdle]
        /\ UNCHANGED <<rlBuckets, rlObj, rlMade>>
     \/ /\ rlBuckets[i] = 0 /\ Cardinality(RlTracked) < RlMax /\ rlMade < RlObjects
        /\ rlMade' = rlMade + 1
        /\ rlObj' = [rlObj EXCEPT ![rlMade'] = [tokens |-> RlFull, lastUpdate |-> rlCall[c].now]]
        /\ rlBuckets' = [rlBuckets EXCEPT ![i] = rlMade']
        /\ rlCall' = [rlCall EXCEPT ![c].pc = "take", ![c].bucket = rlMade']
  /\ UNCHANGED <<rlNow, rlStopped, rlGranted>>

\* Mutant: a request that came late, with an earlier clock, adds nothing but sets the clock back
refillForward(o, now) ==
  [tokens |-> Min({RlFull, o.tokens + RlRate * Max({0, now - o.lastUpdate})}), lastUpdate |-> now]

\* The tokens that flowed in since lastUpdate, which may lie after now: then they are taken back
refill(o, now) ==
  [tokens |-> Min({RlFull, o.tokens + RlRate * (now - o.lastUpdate)}), lastUpdate |-> now]

RlTake(c) ==
  /\ rlCall[c].pc = "take"
  /\ LET r == rlCall[c]
         o == refill(rlObj[r.bucket], r.now)
         allowed == o.tokens >= RlUnit
     IN /\ rlObj' = [rlObj EXCEPT ![r.bucket] =
                       IF allowed THEN [o EXCEPT !.tokens = @ - RlUnit] ELSE o]
        /\ rlGranted' = IF allowed /\ rlBuckets[r.ip] = r.bucket
                          THEN [rlGranted EXCEPT ![r.ip][r.now] = @ + 1] ELSE rlGranted
  /\ rlCall' = [rlCall EXCEPT ![c] = RlIdle]
  /\ UNCHANGED <<rlNow, rlBuckets, rlMade, rlStopped>>

-----------------------------------------------------------------------------
(* The clean-up, the clock and Stop *)

\* Mutant: an entry is stale one unit of time early
staleEarly(b, now) == rlObj[b].lastUpdate <= now - RlTTL

stale(b, now) == rlObj[b].lastUpdate < now - RlTTL

\* The clean-up's clock may be read before the lock is obtained
removeStaleEntries ==
  /\ ~rlStopped
  /\ \E now \in 0 .. rlNow :
       /\ \E i \in RlTracked : stale(rlBuckets[i], now)
       /\ rlBuckets' = [i \in RlIPs |->
            IF rlBuckets[i] # 0 /\ stale(rlBuckets[i], now) THEN 0 ELSE rlBuckets[i]]
  /\ UNCHANGED <<rlNow, rlObj, rlMade, rlCall, rlStopped, rlGranted>>

RlStop == ~rlStopped /\ rlStopped' = TRUE
          /\ UNCHANGED <<rlNow, rlBuckets, rlObj, rlMade, rlCall, rlGranted>>

RlTick == /\ rlNow < RlClock /\ rlNow' = rlNow + 1
          /\ \A c \in RlCalls : rlCall[c].pc # "idle" => rlNow - rlCall[c].now < RlLag
          /\ UNCHANGED <<rlBuckets, rlObj, rlMade, rlCall, rlStopped, rlGranted>>

RlNext ==
  \/ \E c \in RlCalls : RlArrive(c) \/ RlLookup(c) \/ RlCreate(c) \/ RlTake(c)
  \/ removeStaleEntries \/ RlStop \/ RlTick

RlSpec == RlInit /\ [][RlNext]_rlVars

-----------------------------------------------------------------------------
(* Properties *)

\* At most maxBuckets addresses are tracked, each by a bucket of its own.
RlTypeOK ==
  /\ rlNow \in 0 .. RlClock /\ rlMade \in 0 .. RlObjects
  /\ rlBuckets \in [RlIPs -> 0 .. rlMade] /\ Cardinality(RlTracked) <= RlMax
  /\ \A i, j \in RlTracked : rlBuckets[i] = rlBuckets[j] => i = j
  /\ \A b \in 1 .. RlObjects : rlObj[b].tokens <= RlFull /\ rlObj[b].lastUpdate \in 0 .. rlNow
  /\ \A c \in RlCalls : rlCall[c].pc = "take" => rlCall[c].bucket \in 1 .. rlMade

\* "requests per second" and burst: of the requests of one client that arrive within a
\* window of time, Allow lets through at most the burst and what flows in meanwhile, though
\* they may take the bucket's lock in another order than they arrived in and though two of
\* them may find no bucket.  It takes an entryTTL in which a bucket fills, twice the
\* time Allow may take set aside; and a request that got hold of its bucket before the
\* clean-up dropped it is not counted.
RlBounded ==
  RlRate * (RlTTL + 1 - 2 * RlLag) >= RlFull =>
  \A i \in RlIPs : \A from, to \in 0 .. RlClock :
    from <= to =>
      RlUnit * FoldSet(LAMBDA t, n : n + rlGranted[i][t], 0, from .. to)
        <= RlFull + RlRate * (to - from)

=============================================================================
