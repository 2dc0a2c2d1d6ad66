---------------------------- MODULE CircuitBreaker ----------------------------
(***************************************************************************)
(* The circuit_breaker chaos fault (pkg/chaos/circuit_breaker.go): one     *)
(* breaker, its requests, the admin API's Trip and Reset, and the status *)
(* queries, which also perform the timed transition.  Every entry point is *)
(* one critical section of cb.mu.                                          *)
(*                                                                         *)
(* openedAt is kept as the time since then, which matters up to            *)
(* openDuration only; totalRequests matters up to tripAfter only.  A draw  *)
(* of the random generator may fall below a rate unless the rate is zero.  *)
(* The statistics counters, which nothing reads back, are left out.        *)
(***************************************************************************)
EXTENDS Naturals

CONSTANT Configs    \* parsed configurations a breaker may have

Rates == {"zero", "some", "one"}

\* What ParseCircuitBreakerConfig guarantees: thresholds and duration are positive
Parsed(c) ==
  /\ c.FailureThreshold \in Nat \ {0} /\ c.SuccessThreshold \in Nat \ {0}
  /\ c.OpenDuration \in Nat \ {0} /\ c.TripAfter \in Nat
  /\ c.ClosedErrorRate \in Rates /\ c.HalfOpenErrorRate \in Rates

ASSUME ConfigAssumption == \A c \in Configs : Parsed(c)

VARIABLES
  config,        \* the configuration
  cb,            \* the breaker
  sinceTrip,     \* auxiliary: time since the breaker last tripped, openDuration if
                 \* that is longer ago, never happened or was reset
  sinceClosed,   \* auxiliary: requests since the breaker last became closed
  streak         \* auxiliary: requests passed in a row

aux  == <<sinceTrip, sinceClosed, streak>>
vars == <<config, cb, aux>>

Up(n, limit) == IF n < limit THEN n + 1 ELSE n

Init ==
  /\ config \in Configs
  /\ cb = [state |-> "closed", consecutiveFailures |-> 0, consecutiveSuccesses |-> 0,
           totalRequests |-> 0, age |-> 0]
  /\ sinceTrip = config.OpenDuration /\ sinceClosed = 0 /\ streak = 0

-----------------------------------------------------------------------------
(* Transitions *)

\* Mutant: the breaker is stamped when it first opens only
tripNoStamp(c) ==
  [c EXCEPT !.state = "open", !.age = IF c.state = "closed" THEN 0 ELSE @,
            !.consecutiveFailures = 0, !.consecutiveSuccesses = 0]

tripToOpen(c) ==
  [c EXCEPT !.state = "open", !.age = 0,
            !.consecutiveFailures = 0, !.consecutiveSuccesses = 0]

\* Mutant: the count for tripAfter goes on
closeKeepsCount(c) ==
  [c EXCEPT !.state = "closed", !.consecutiveFailures = 0, !.consecutiveSuccesses = 0]

transitionToClosed(c) ==
  [c EXCEPT !.state = "closed", !.totalRequests = 0,
            !.consecutiveFailures = 0, !.consecutiveSuccesses = 0]

\* The timed transition, when openDuration has elapsed
maybeTransition(c) ==
  IF c.state = "open" /\ c.age >= config.OpenDuration
    THEN [c EXCEPT !.state = "half_open", !.consecutiveSuccesses = 0] ELSE c

Below(rate) == CASE rate = "zero" -> {FALSE}
                 [] rate = "one"  -> {TRUE}
                 [] rate = "some" -> BOOLEAN

-----------------------------------------------------------------------------
(* Handle: each handler yields the breaker and whether the request passes *)

\* Mutant: off by one
handleClosedLate(c, fault) ==
  LET failures == c.consecutiveFailures + 1 IN
  IF config.TripAfter > 0 /\ c.totalRequests >= config.TripAfter
    THEN [cb |-> tripToOpen(c), pass |-> FALSE]
  ELSE IF fault
    THEN [cb |-> IF failures > config.FailureThreshold
                   THEN tripToOpen(c) ELSE [c EXCEPT !.consecutiveFailures = failures],
          pass |-> FALSE]
    ELSE [cb |-> [c EXCEPT !.consecutiveFailures = 0], pass |-> TRUE]

handleClosed(c, fault) ==
  LET failures == c.consecutiveFailures + 1 IN
  IF config.TripAfter > 0 /\ c.totalRequests >= config.TripAfter
    THEN [cb |-> tripToOpen(c), pass |-> FALSE]
  ELSE IF fault
    THEN [cb |-> IF failures >= config.FailureThreshold
                   THEN tripToOpen(c) ELSE [c EXCEPT !.consecutiveFailures = failures],
          pass |-> FALSE]
    ELSE [cb |-> [c EXCEPT !.consecutiveFailures = 0], pass |-> TRUE]

\* Mutant: the successes are compared before this one is counted
halfOpenEarly(c, fault) ==
  IF fault THEN [cb |-> tripToOpen(c), pass |-> FALSE]
  ELSE [cb |-> IF c.consecutiveSuccesses + 2 >= config.SuccessThreshold
                 THEN transitionToClosed(c) ELSE [c EXCEPT !.consecutiveSuccesses = @ + 1],
        pass |-> TRUE]

handleHalfOpen(c, fault) ==
  IF fault THEN [cb |-> tripToOpen(c), pass |-> FALSE]
  ELSE [cb |-> IF c.consecutiveSuccesses + 1 >= config.SuccessThreshold
                 THEN transitionToClosed(c) ELSE [c EXCEPT !.consecutiveSuccesses = @ + 1],
        pass |-> TRUE]

\* Mutant: only the status queries look at the time
EnteredUntimed == [cb EXCEPT !.totalRequests = Up(@, config.TripAfter)]

\* The breaker as Handle finds it, the request counted and the time checked
Entered == maybeTransition([cb EXCEPT !.totalRequests = Up(@, config.TripAfter)])

\* What becomes of the aux variables when Handle turns c into r.cb
Observe(c, r) ==
  /\ sinceTrip' = IF c.state # "open" /\ r.cb.state = "open" THEN 0 ELSE sinceTrip
  /\ sinceClosed' = IF c.state # "closed" /\ r.cb.state = "closed"
                      THEN 0 ELSE Up(sinceClosed, config.TripAfter)
  /\ streak' = IF r.pass THEN Up(streak, config.SuccessThreshold) ELSE 0

Apply(r) == cb' = r.cb /\ Observe(Entered, r) /\ UNCHANGED config

HandleClosed ==
  /\ Entered.state = "closed"
  /\ \E fault \in Below(config.ClosedErrorRate) : Apply(handleClosed(Entered, fault))

HandleOpen ==
  /\ Entered.state = "open"
  /\ Apply([cb |-> Entered, pass |-> FALSE])

HandleHalfOpen ==
  /\ Entered.state = "half_open"
  /\ \E fault \in Below(config.HalfOpenErrorRate) : Apply(handleHalfOpen(Entered, fault))

Handle == HandleClosed \/ HandleOpen \/ HandleHalfOpen

-----------------------------------------------------------------------------
(* Admin API and time *)

Trip ==
  /\ cb' = tripToOpen(cb)
  /\ sinceTrip' = 0 /\ streak' = 0
  /\ UNCHANGED <<config, sinceClosed>>

ResetBreaker ==
  /\ cb' = transitionToClosed(cb)
  /\ sinceTrip' = config.OpenDuration /\ sinceClosed' = 0
  /\ UNCHANGED <<config, streak>>

\* State and Stats: a query makes the timed transition too
Query == cb' = maybeTransition(cb) /\ UNCHANGED <<config, aux>>

Tick ==
  /\ cb' = [cb EXCEPT !.age = Up(@, config.OpenDuration)]
  /\ sinceTrip' = Up(sinceTrip, config.OpenDuration)
  /\ UNCHANGED <<config, sinceClosed, streak>>

Next == Handle \/ Trip \/ ResetBreaker \/ Query \/ Tick

Spec == Init /\ [][Next]_vars

\* Time passes, and requests keep coming
FairSpec == Spec /\ WF_vars(Tick) /\ WF_vars(Handle)

-----------------------------------------------------------------------------
(* Properties *)

\* The breaker's counters stay below the thresholds that end them.
TypeOK ==
  /\ config \in Configs
  /\ cb \in [state : {"closed", "open", "half_open"},
             consecutiveFailures : 0 .. config.FailureThreshold - 1,
             consecutiveSuccesses : 0 .. config.SuccessThreshold - 1,
             totalRequests : 0 .. config.TripAfter, age : 0 .. config.OpenDuration]
  /\ sinceTrip \in 0 .. config.OpenDuration
  /\ sinceClosed \in 0 .. config.TripAfter
  /\ streak \in 0 .. config.SuccessThreshold

\* OPEN: "All requests rejected", for openDuration after the breaker tripped last,
\* a failed probe or a Trip of an open breaker included, unless it was reset.
PassOnlyAfterOpenDuration ==
  [][Handle /\ streak' > 0 => sinceTrip >= config.OpenDuration]_vars

\* HALF_OPEN: only successThreshold requests passed in a row close the breaker.
ClosesOnlyRecovered ==
  [][Handle /\ cb.state # "closed" /\ cb'.state = "closed" =>
       streak' >= config.SuccessThreshold]_vars

\* "Deterministic trip: after N total requests", counted anew each time the breaker
\* closes: without synthetic errors it trips at the N-th request, no other.
TripsExactlyAfter ==
  [][Handle /\ cb.state = "closed" /\ config.ClosedErrorRate = "zero" =>
       (cb'.state = "open" <=> config.TripAfter > 0 /\ sinceClosed + 1 = config.TripAfter)]_vars

\* "After openDuration elapses, transitions to HALF_OPEN": an open breaker does not
\* stay open for ever, unless the admin API trips it again and again.
Recovers == []<><<Trip>>_vars \/ (cb.state = "open" ~> cb.state # "open")

=============================================================================
