------------------------- MODULE CircuitBreakerProofs -------------------------
(***************************************************************************)
(* The safety properties of the circuit breaker, for every configuration.  *)
(* TypeOK bounds the counters by thresholds; BreakerInv adds what each     *)
(* state of the breaker says about its history.                            *)
(***************************************************************************)
EXTENDS CircuitBreaker, TLAPS

Breakers == [state : {"closed", "open", "half_open"},
             consecutiveFailures : 0 .. config.FailureThreshold - 1,
             consecutiveSuccesses : 0 .. config.SuccessThreshold - 1,
             totalRequests : 0 .. config.TripAfter, age : 0 .. config.OpenDuration]

\* What the state of the breaker c says about the trips, passes and requests seen
History(c, trip, closed, row) ==
  /\ c.state = "open" => trip = c.age
  /\ c.state # "open" => trip = config.OpenDuration
  /\ c.state = "half_open" => row >= c.consecutiveSuccesses
  /\ c.state # "half_open" => c.consecutiveSuccesses = 0
  /\ c.state = "closed" => /\ c.totalRequests = closed
                           /\ config.TripAfter > 0 => closed < config.TripAfter

BreakerInv == TypeOK /\ History(cb, sinceTrip, sinceClosed, streak)

\* The configuration is one that parsing lets through.
Config == /\ config.FailureThreshold \in Nat \ {0} /\ config.SuccessThreshold \in Nat \ {0}
          /\ config.OpenDuration \in Nat \ {0} /\ config.TripAfter \in Nat
          /\ config.ClosedErrorRate \in Rates /\ config.HalfOpenErrorRate \in Rates

LEMMA ConfigParsed == TypeOK => Config
  BY ConfigAssumption DEF TypeOK, Config, Parsed

\* A capped counter stays within its limit.
LEMMA UpType ==
  ASSUME NEW limit \in Nat, NEW n \in 0 .. limit
  PROVE  /\ Up(n, limit) \in 0 .. limit /\ Up(n, limit) >= n
         /\ n < limit => Up(n, limit) = n + 1
  BY DEF Up

\* Tripping and closing yield a breaker, with the counters cleared.
LEMMA TransitionType ==
  ASSUME Config, NEW c \in Breakers
  PROVE  /\ tripToOpen(c) \in Breakers /\ transitionToClosed(c) \in Breakers
         /\ tripToOpen(c).state = "open" /\ tripToOpen(c).age = 0
         /\ tripToOpen(c).consecutiveSuccesses = 0
         /\ transitionToClosed(c).state = "closed"
         /\ transitionToClosed(c).totalRequests = 0
         /\ transitionToClosed(c).consecutiveSuccesses = 0
<1>1. 0 \in 0 .. config.FailureThreshold - 1 /\ 0 \in 0 .. config.SuccessThreshold - 1
      /\ 0 \in 0 .. config.TripAfter /\ 0 \in 0 .. config.OpenDuration
  BY DEF Config
<1>. QED
  BY <1>1 DEF tripToOpen, transitionToClosed, Breakers

\* The timed transition leaves an open breaker only when openDuration is over.
LEMMA TimedTransition ==
  ASSUME Config, NEW c \in Breakers
  PROVE  /\ maybeTransition(c) \in Breakers
         /\ maybeTransition(c).totalRequests = c.totalRequests
         /\ \/ maybeTransition(c) = c
            \/ /\ c.state = "open" /\ c.age = config.OpenDuration
               /\ maybeTransition(c).state = "half_open"
               /\ maybeTransition(c).consecutiveSuccesses = 0
<1>1. 0 \in 0 .. config.SuccessThreshold - 1
  BY DEF Config
<1>2. c.age >= config.OpenDuration => c.age = config.OpenDuration
  BY DEF Config, Breakers
<1>. QED
  BY <1>1, <1>2 DEF maybeTransition, Breakers

\* As Handle finds the breaker, its history still fits, one request on.
LEMMA EnteredHistory ==
  ASSUME BreakerInv
  PROVE  /\ Entered \in Breakers
         /\ Entered.state = "open" => cb.state = "open" /\ sinceTrip = Entered.age
         /\ Entered.state # "open" => sinceTrip = config.OpenDuration
         /\ Entered.state = "half_open" => streak >= Entered.consecutiveSuccesses
         /\ Entered.state # "half_open" => Entered.consecutiveSuccesses = 0
         /\ Entered.state = "closed" <=> cb.state = "closed"
         /\ Entered.state = "closed" =>
              /\ Entered.totalRequests = Up(sinceClosed, config.TripAfter)
              /\ config.TripAfter > 0 => sinceClosed < config.TripAfter
<1>. DEFINE total == Up(cb.totalRequests, config.TripAfter)
            d == [cb EXCEPT !.totalRequests = total]
<1>0. Config /\ cb \in Breakers /\ History(cb, sinceTrip, sinceClosed, streak)
      /\ streak \in Nat
  BY ConfigParsed DEF BreakerInv, TypeOK, Breakers, Config
<1>1. total \in 0 .. config.TripAfter
  <2>1. config.TripAfter \in Nat /\ cb.totalRequests \in 0 .. config.TripAfter
    BY <1>0 DEF Config, Breakers
  <2>. QED
    BY <2>1, UpType
<1>2. Entered = maybeTransition(d)
  BY DEF Entered
<1>3. cb.state = "closed" => total = Up(sinceClosed, config.TripAfter)
  BY <1>0 DEF History
<1>. HIDE DEF total
<1>4. d \in Breakers /\ d.totalRequests = total /\ d.state = cb.state /\ d.age = cb.age
      /\ d.consecutiveSuccesses = cb.consecutiveSuccesses
  BY <1>0, <1>1 DEF Breakers
<1>. HIDE DEF d
<1>5. Entered \in Breakers /\ Entered.totalRequests = total
  BY <1>0, <1>2, <1>4, TimedTransition
<1>6. CASE Entered = d
  BY <1>0, <1>3, <1>4, <1>5, <1>6 DEF History
<1>7. CASE Entered # d
  <2>1. /\ d.state = "open" /\ d.age = config.OpenDuration
        /\ Entered.state = "half_open" /\ Entered.consecutiveSuccesses = 0
    BY <1>0, <1>2, <1>4, <1>7, TimedTransition
  <2>. QED
    BY <2>1, <1>0, <1>4, <1>5 DEF History
<1>. QED
  BY <1>6, <1>7

\* The three transitions a request can make, and the two ways it can leave the
\* breaker where it is.
Trips == cb' = tripToOpen(Entered) /\ Entered.state # "open" /\ streak' = 0 /\ sinceTrip' = 0

Closes ==
  /\ cb' = transitionToClosed(Entered) /\ Entered.state = "half_open"
  /\ Entered.consecutiveSuccesses + 1 >= config.SuccessThreshold
  /\ streak' = Up(streak, config.SuccessThreshold)
  /\ sinceTrip' = sinceTrip /\ sinceClosed' = 0

StaysClosed ==
  /\ Entered.state = "closed" /\ sinceTrip' = sinceTrip
  /\ ~(config.TripAfter > 0 /\ Entered.totalRequests >= config.TripAfter)
  /\ \E failures \in 0 .. config.FailureThreshold - 1 :
       cb' = [Entered EXCEPT !.consecutiveFailures = failures]
  /\ streak' \in {0, Up(streak, config.SuccessThreshold)}

StaysHalfOpen ==
  /\ Entered.state = "half_open" /\ sinceTrip' = sinceTrip
  /\ Entered.consecutiveSuccesses + 1 < config.SuccessThreshold
  /\ cb' = [Entered EXCEPT !.consecutiveSuccesses = @ + 1]
  /\ streak' = Up(streak, config.SuccessThreshold)

StaysOpen ==
  cb' = Entered /\ Entered.state = "open" /\ sinceTrip' = sinceTrip /\ streak' = 0

\* What Handle does is one of these.
LEMMA HandleOutcomes ==
  ASSUME BreakerInv, Handle
  PROVE  /\ config' = config
         /\ Trips \/ Closes \/ StaysClosed \/ StaysHalfOpen \/ StaysOpen
         /\ ~Closes => sinceClosed' = Up(sinceClosed, config.TripAfter)
         /\ Entered.state = "closed" /\ config.ClosedErrorRate = "zero" =>
              (Trips <=> config.TripAfter > 0 /\ Entered.totalRequests >= config.TripAfter)
<1>. DEFINE c == Entered
<1>0. Config /\ c \in Breakers
  BY ConfigParsed, EnteredHistory DEF BreakerInv
<1>1. /\ tripToOpen(c).state = "open" /\ transitionToClosed(c).state = "closed"
  BY <1>0, TransitionType
<1>2. CASE HandleClosed
  <2>1. PICK fault \in Below(config.ClosedErrorRate) : Apply(handleClosed(c, fault))
    BY <1>2 DEF HandleClosed
  <2>2. c.state = "closed"
    BY <1>2 DEF HandleClosed
  <2>3. fault \in BOOLEAN /\ (config.ClosedErrorRate = "zero" => ~fault)
    BY <1>0 DEF Below, Config, Rates
  <2>. DEFINE n == c.consecutiveFailures + 1
  <2>. HIDE DEF c
  <2>4. CASE config.TripAfter > 0 /\ c.totalRequests >= config.TripAfter
    <3>1. Apply([cb |-> tripToOpen(c), pass |-> FALSE])
      BY <2>1, <2>4 DEF handleClosed
    <3>2. /\ config' = config /\ cb' = tripToOpen(c) /\ streak' = 0 /\ sinceTrip' = 0
          /\ sinceClosed' = Up(sinceClosed, config.TripAfter)
      BY <3>1, <2>2, <1>1 DEF Apply, Observe, c
    <3>. QED
      BY <3>2, <2>2, <2>4 DEF Trips, c
  <2>5. CASE ~(config.TripAfter > 0 /\ c.totalRequests >= config.TripAfter)
    <3>1. CASE fault /\ n >= config.FailureThreshold
      <4>1. Apply([cb |-> tripToOpen(c), pass |-> FALSE])
        BY <2>1, <2>5, <3>1 DEF handleClosed
      <4>2. /\ config' = config /\ cb' = tripToOpen(c) /\ streak' = 0 /\ sinceTrip' = 0
            /\ sinceClosed' = Up(sinceClosed, config.TripAfter)
        BY <4>1, <2>2, <1>1 DEF Apply, Observe, c
      <4>. QED
        BY <4>2, <2>2, <2>3, <3>1 DEF Trips, c
    <3>2. CASE ~(fault /\ n >= config.FailureThreshold)
      <4>1. PICK failures \in 0 .. config.FailureThreshold - 1, pass \in BOOLEAN :
              Apply([cb |-> [c EXCEPT !.consecutiveFailures = failures], pass |-> pass])
        <5>1. CASE fault
          <6>1. n \in 0 .. config.FailureThreshold - 1
            BY <5>1, <3>2, <1>0 DEF Breakers, Config, c
          <6>2. Apply([cb |-> [c EXCEPT !.consecutiveFailures = n], pass |-> FALSE])
            BY <2>1, <2>5, <3>2, <5>1 DEF handleClosed
          <6>. QED
            BY <6>1, <6>2
        <5>2. CASE ~fault
          <6>1. 0 \in 0 .. config.FailureThreshold - 1
            BY <1>0 DEF Config
          <6>2. Apply([cb |-> [c EXCEPT !.consecutiveFailures = 0], pass |-> TRUE])
            BY <2>1, <2>5, <5>2 DEF handleClosed
          <6>. QED
            BY <6>1, <6>2
        <5>. QED
          BY <5>1, <5>2
      <4>2. [c EXCEPT !.consecutiveFailures = failures].state = "closed"
        BY <2>2, <1>0 DEF Breakers, c
      <4>3. /\ config' = config /\ cb' = [c EXCEPT !.consecutiveFailures = failures]
            /\ sinceTrip' = sinceTrip /\ sinceClosed' = Up(sinceClosed, config.TripAfter)
            /\ streak' \in {0, Up(streak, config.SuccessThreshold)}
        BY <4>1, <4>2, <2>2 DEF Apply, Observe, c
      <4>4. StaysClosed
        BY <4>3, <2>2, <2>5 DEF StaysClosed, c
      <4>5. ~Trips
        BY <4>2, <4>3, <1>1 DEF Trips, c
      <4>. QED
        BY <4>3, <4>4, <4>5, <2>5 DEF c
    <3>. QED
      BY <3>1, <3>2
  <2>. QED
    BY <2>4, <2>5
<1>3. CASE HandleOpen
  <2>1. Apply([cb |-> c, pass |-> FALSE]) /\ c.state = "open"
    BY <1>3 DEF HandleOpen
  <2>. HIDE DEF c
  <2>2. /\ config' = config /\ cb' = c /\ streak' = 0 /\ sinceTrip' = sinceTrip
        /\ sinceClosed' = Up(sinceClosed, config.TripAfter)
    BY <2>1 DEF Apply, Observe, c
  <2>. QED
    BY <2>1, <2>2 DEF StaysOpen, c
<1>4. CASE HandleHalfOpen
  <2>1. PICK fault \in Below(config.HalfOpenErrorRate) : Apply(handleHalfOpen(c, fault))
    BY <1>4 DEF HandleHalfOpen
  <2>2. c.state = "half_open"
    BY <1>4 DEF HandleHalfOpen
  <2>. HIDE DEF c
  <2>3. CASE fault
    <3>1. Apply([cb |-> tripToOpen(c), pass |-> FALSE])
      BY <2>1, <2>3 DEF handleHalfOpen
    <3>2. /\ config' = config /\ cb' = tripToOpen(c) /\ streak' = 0 /\ sinceTrip' = 0
          /\ sinceClosed' = Up(sinceClosed, config.TripAfter)
      BY <3>1, <2>2, <1>1 DEF Apply, Observe, c
    <3>. QED
      BY <3>2, <2>2 DEF Trips, c
  <2>4. CASE ~fault /\ c.consecutiveSuccesses + 1 >= config.SuccessThreshold
    <3>1. Apply([cb |-> transitionToClosed(c), pass |-> TRUE])
      BY <2>1, <2>4 DEF handleHalfOpen
    <3>2. /\ config' = config /\ cb' = transitionToClosed(c) /\ sinceTrip' = sinceTrip
          /\ streak' = Up(streak, config.SuccessThreshold) /\ sinceClosed' = 0
      BY <3>1, <2>2, <1>1 DEF Apply, Observe, c
    <3>. QED
      BY <3>2, <2>2, <2>4 DEF Closes, c
  <2>5. CASE ~fault /\ ~(c.consecutiveSuccesses + 1 >= config.SuccessThreshold)
    <3>1. Apply([cb |-> [c EXCEPT !.consecutiveSuccesses = @ + 1], pass |-> TRUE])
      BY <2>1, <2>5 DEF handleHalfOpen
    <3>2. [c EXCEPT !.consecutiveSuccesses = @ + 1].state = "half_open"
      BY <2>2, <1>0 DEF Breakers, c
    <3>3. /\ config' = config /\ cb' = [c EXCEPT !.consecutiveSuccesses = @ + 1]
          /\ sinceTrip' = sinceTrip /\ streak' = Up(streak, config.SuccessThreshold)
          /\ sinceClosed' = Up(sinceClosed, config.TripAfter)
      BY <3>1, <3>2, <2>2 DEF Apply, Observe, c
    <3>4. c.consecutiveSuccesses + 1 < config.SuccessThreshold
      BY <2>5, <1>0 DEF Breakers, Config, c
    <3>. QED
      BY <3>3, <3>4, <2>2 DEF StaysHalfOpen, c
  <2>. QED
    BY <2>3, <2>4, <2>5
<1>. QED
  BY <1>2, <1>3, <1>4 DEF Handle

\* A request preserves the invariant.
LEMMA HandleStep ==
  ASSUME BreakerInv, Handle
  PROVE  BreakerInv'
<1>0. /\ Config /\ config \in Configs /\ config' = config /\ Entered \in Breakers
      /\ streak \in 0 .. config.SuccessThreshold /\ sinceClosed \in 0 .. config.TripAfter
      /\ sinceTrip \in 0 .. config.OpenDuration
  BY ConfigParsed, EnteredHistory, HandleOutcomes DEF BreakerInv, TypeOK
<1>1. /\ Up(streak, config.SuccessThreshold) \in 0 .. config.SuccessThreshold
      /\ Up(streak, config.SuccessThreshold) >= streak
      /\ streak < config.SuccessThreshold => Up(streak, config.SuccessThreshold) = streak + 1
      /\ Up(sinceClosed, config.TripAfter) \in 0 .. config.TripAfter
  BY <1>0, UpType DEF Config
<1>2. /\ 0 \in 0 .. config.SuccessThreshold /\ 0 \in 0 .. config.TripAfter
      /\ 0 \in 0 .. config.OpenDuration
  BY <1>0 DEF Config
<1>3. SUFFICES /\ cb' \in Breakers
               /\ sinceTrip' \in 0 .. config.OpenDuration
               /\ sinceClosed' \in 0 .. config.TripAfter
               /\ streak' \in 0 .. config.SuccessThreshold
               /\ History(cb', sinceTrip', sinceClosed', streak')
  BY <1>0 DEF BreakerInv, TypeOK, Breakers, History
<1>4. CASE Trips
  <2>1. /\ cb' \in Breakers /\ cb'.state = "open" /\ cb'.age = 0
        /\ cb'.consecutiveSuccesses = 0
    BY <1>0, <1>4, TransitionType DEF Trips
  <2>2. ~Closes
    BY <1>0, <2>1, TransitionType DEF Closes
  <2>. QED
    BY <2>1, <2>2, <1>1, <1>2, <1>4, HandleOutcomes DEF Trips, History
<1>5. CASE Closes
  <2>1. /\ cb' \in Breakers /\ cb'.state = "closed" /\ cb'.totalRequests = 0
        /\ cb'.consecutiveSuccesses = 0
    BY <1>0, <1>5, TransitionType DEF Closes
  <2>2. sinceTrip = config.OpenDuration
    BY <1>5, EnteredHistory DEF Closes
  <2>. QED
    BY <2>1, <2>2, <1>0, <1>1, <1>2, <1>5 DEF Closes, History
<1>6. CASE StaysClosed
  <2>1. PICK failures \in 0 .. config.FailureThreshold - 1 :
          cb' = [Entered EXCEPT !.consecutiveFailures = failures]
    BY <1>6 DEF StaysClosed
  <2>2. /\ cb' \in Breakers /\ cb'.state = "closed"
        /\ cb'.totalRequests = Entered.totalRequests
        /\ cb'.consecutiveSuccesses = Entered.consecutiveSuccesses
    BY <2>1, <1>0, <1>6 DEF Breakers, StaysClosed
  <2>3. ~Closes
    BY <1>6 DEF Closes, StaysClosed
  <2>4. sinceClosed' = Up(sinceClosed, config.TripAfter)
    BY <2>3, HandleOutcomes
  <2>5. /\ sinceTrip = config.OpenDuration /\ Entered.consecutiveSuccesses = 0
        /\ Entered.totalRequests = sinceClosed'
    BY <2>4, <1>6, EnteredHistory DEF StaysClosed
  <2>6. config.TripAfter > 0 => sinceClosed' < config.TripAfter
    BY <2>4, <2>5, <1>0, <1>1, <1>6 DEF StaysClosed, Config
  <2>. QED
    BY <2>2, <2>4, <2>5, <2>6, <1>0, <1>1, <1>2, <1>6 DEF StaysClosed, History
<1>7. CASE StaysHalfOpen
  <2>. DEFINE n == Entered.consecutiveSuccesses + 1
  <2>1. n \in 0 .. config.SuccessThreshold - 1
    BY <1>0, <1>7 DEF StaysHalfOpen, Breakers, Config
  <2>2. /\ cb' \in Breakers /\ cb'.state = "half_open" /\ cb'.consecutiveSuccesses = n
    <3>1. cb' = [Entered EXCEPT !.consecutiveSuccesses = n]
      BY <1>7 DEF StaysHalfOpen
    <3>. HIDE DEF n
    <3>. QED
      BY <3>1, <2>1, <1>0, <1>7 DEF Breakers, StaysHalfOpen
  <2>3. ~Closes
    BY <1>7, <1>0 DEF Closes, StaysHalfOpen, Breakers, Config
  <2>4. sinceClosed' = Up(sinceClosed, config.TripAfter)
    BY <2>3, HandleOutcomes
  <2>5. sinceTrip = config.OpenDuration /\ streak >= Entered.consecutiveSuccesses
    BY <1>7, EnteredHistory DEF StaysHalfOpen
  <2>6. streak' >= n
    BY <2>1, <2>5, <1>0, <1>1, <1>7 DEF StaysHalfOpen, Config, Breakers
  <2>. QED
    BY <2>2, <2>4, <2>5, <2>6, <1>0, <1>1, <1>7 DEF StaysHalfOpen, History
<1>8. CASE StaysOpen
  <2>1. ~Closes
    BY <1>8 DEF Closes, StaysOpen
  <2>2. sinceClosed' = Up(sinceClosed, config.TripAfter)
    BY <2>1, HandleOutcomes
  <2>3. sinceTrip = Entered.age /\ Entered.consecutiveSuccesses = 0
    BY <1>8, EnteredHistory DEF StaysOpen
  <2>. QED
    BY <2>2, <2>3, <1>0, <1>1, <1>2, <1>8 DEF StaysOpen, History
<1>. QED
  BY <1>4, <1>5, <1>6, <1>7, <1>8, HandleOutcomes

\* The admin API, the queries and the passing of time preserve it, too.
LEMMA OtherSteps ==
  ASSUME BreakerInv, Trip \/ ResetBreaker \/ Query \/ Tick \/ UNCHANGED vars
  PROVE  BreakerInv'
<1>0. /\ Config /\ config \in Configs /\ config' = config /\ cb \in Breakers
      /\ streak \in 0 .. config.SuccessThreshold /\ sinceClosed \in 0 .. config.TripAfter
      /\ sinceTrip \in 0 .. config.OpenDuration
      /\ History(cb, sinceTrip, sinceClosed, streak)
  BY ConfigParsed
     DEF BreakerInv, TypeOK, Breakers, Trip, ResetBreaker, Query, Tick, vars
<1>2. /\ 0 \in 0 .. config.SuccessThreshold /\ 0 \in 0 .. config.TripAfter
      /\ 0 \in 0 .. config.OpenDuration /\ config.OpenDuration \in 0 .. config.OpenDuration
  BY <1>0 DEF Config
<1>3. SUFFICES /\ cb' \in Breakers
               /\ sinceTrip' \in 0 .. config.OpenDuration
               /\ sinceClosed' \in 0 .. config.TripAfter
               /\ streak' \in 0 .. config.SuccessThreshold
               /\ History(cb', sinceTrip', sinceClosed', streak')
  BY <1>0 DEF BreakerInv, TypeOK, Breakers, History
<1>4. CASE Trip
  <2>1. /\ cb' \in Breakers /\ cb'.state = "open" /\ cb'.age = 0
        /\ cb'.consecutiveSuccesses = 0
    BY <1>0, <1>4, TransitionType DEF Trip
  <2>. QED
    BY <2>1, <1>0, <1>2, <1>4 DEF Trip, History
<1>5. CASE ResetBreaker
  <2>1. /\ cb' \in Breakers /\ cb'.state = "closed" /\ cb'.totalRequests = 0
        /\ cb'.consecutiveSuccesses = 0
    BY <1>0, <1>5, TransitionType DEF ResetBreaker
  <2>. QED
    BY <2>1, <1>0, <1>2, <1>5 DEF ResetBreaker, History
<1>6. CASE Query
  <2>1. cb' = maybeTransition(cb) /\ UNCHANGED aux
    BY <1>6 DEF Query
  <2>2. cb' \in Breakers
    BY <1>0, <2>1, TimedTransition
  <2>3. CASE cb' = cb
    BY <2>1, <2>3, <1>0 DEF aux
  <2>4. CASE cb' # cb
    <3>1. /\ cb.state = "open" /\ cb.age = config.OpenDuration
          /\ cb'.state = "half_open" /\ cb'.consecutiveSuccesses = 0
      BY <1>0, <2>1, <2>4, TimedTransition
    <3>. QED
      BY <3>1, <2>1, <2>2, <1>0 DEF aux, History, Config
  <2>. QED
    BY <2>3, <2>4
<1>7. CASE Tick
  <2>. DEFINE n == Up(cb.age, config.OpenDuration)
  <2>1. config.OpenDuration \in Nat /\ cb.age \in 0 .. config.OpenDuration
    BY <1>0 DEF Config, Breakers
  <2>2. /\ n \in 0 .. config.OpenDuration
        /\ Up(sinceTrip, config.OpenDuration) \in 0 .. config.OpenDuration
        /\ Up(sinceTrip, config.OpenDuration) >= sinceTrip
    BY <2>1, <1>0, UpType
  <2>3. sinceTrip' = Up(sinceTrip, config.OpenDuration) /\ UNCHANGED <<sinceClosed, streak>>
    BY <1>7 DEF Tick
  <2>4. cb.state = "open" => n = Up(sinceTrip, config.OpenDuration)
    BY <1>0 DEF History
  <2>5. cb.state # "open" => Up(sinceTrip, config.OpenDuration) = config.OpenDuration
    BY <1>0, <2>1, <2>2 DEF History
  <2>6. cb' = [cb EXCEPT !.age = n]
    BY <1>7 DEF Tick
  <2>. HIDE DEF n
  <2>7. /\ cb' \in Breakers /\ cb'.state = cb.state /\ cb'.age = n
        /\ cb'.consecutiveSuccesses = cb.consecutiveSuccesses
        /\ cb'.totalRequests = cb.totalRequests
    BY <1>0, <2>2, <2>6 DEF Breakers
  <2>. QED
    BY <1>0, <2>2, <2>3, <2>4, <2>5, <2>7 DEF History
<1>8. CASE UNCHANGED vars
  BY <1>0, <1>8 DEF vars, aux
<1>. QED
  BY <1>4, <1>5, <1>6, <1>7, <1>8

-----------------------------------------------------------------------------
(* The theorems *)

LEMMA BreakerInvariant == Spec => []BreakerInv
<1>1. Init => BreakerInv
  BY ConfigAssumption DEF Parsed, Init, BreakerInv, TypeOK, History
<1>2. BreakerInv /\ [Next]_vars => BreakerInv'
  BY HandleStep, OtherSteps DEF Next
<1>. QED
  BY <1>1, <1>2, PTL DEF Spec

\* The counters of consecutive failures and successes never reach the thresholds
\* at which handleClosed trips and handleHalfOpen closes the breaker.
THEOREM CountersBounded == Spec => []TypeOK
<1>1. BreakerInv => TypeOK
  BY DEF BreakerInv
<1>. QED
  BY <1>1, BreakerInvariant, PTL

\* No request passes an open breaker before openDuration is over, for any
\* configuration and however requests, queries, trips and resets are mixed.
THEOREM OpenRejects == Spec => PassOnlyAfterOpenDuration
<1>1. BreakerInv /\ [Next]_vars =>
        [Handle /\ streak' > 0 => sinceTrip >= config.OpenDuration]_vars
  <2>. SUFFICES ASSUME BreakerInv, Handle, streak' > 0
                PROVE  sinceTrip >= config.OpenDuration
    OBVIOUS
  <2>1. Entered.state # "open"
    BY HandleOutcomes DEF StaysOpen, Trips, Closes, StaysClosed, StaysHalfOpen
  <2>. QED
    BY <2>1, EnteredHistory, ConfigParsed DEF BreakerInv, Config
<1>. QED
  BY <1>1, BreakerInvariant, PTL DEF Spec, PassOnlyAfterOpenDuration

\* A request closes the breaker only at the end of successThreshold passes in a row.
THEOREM RecoveryIsEarned == Spec => ClosesOnlyRecovered
<1>1. BreakerInv /\ [Next]_vars =>
        [Handle /\ cb.state # "closed" /\ cb'.state = "closed" =>
           streak' >= config.SuccessThreshold]_vars
  <2>. SUFFICES ASSUME BreakerInv, Handle, cb.state # "closed", cb'.state = "closed"
                PROVE  streak' >= config.SuccessThreshold
    OBVIOUS
  <2>1. /\ Config /\ Entered \in Breakers /\ streak \in 0 .. config.SuccessThreshold
        /\ Entered.state # "closed"
    BY ConfigParsed, EnteredHistory DEF BreakerInv, TypeOK
  <2>2. ~Trips
    BY <2>1, TransitionType DEF Trips
  <2>3. ~StaysHalfOpen /\ ~StaysOpen /\ ~StaysClosed
    BY <2>1 DEF StaysHalfOpen, StaysOpen, StaysClosed, Breakers
  <2>4. Closes
    BY <2>2, <2>3, HandleOutcomes
  <2>5. streak >= Entered.consecutiveSuccesses /\ streak' = Up(streak, config.SuccessThreshold)
    BY <2>4, EnteredHistory DEF Closes
  <2>. QED
    BY <2>1, <2>4, <2>5 DEF Closes, Up, Config, Breakers
<1>. QED
  BY <1>1, BreakerInvariant, PTL DEF Spec, ClosesOnlyRecovered

\* tripAfter is exact, each time the breaker closes anew.
THEOREM TripAfterIsExact == Spec => TripsExactlyAfter
<1>1. BreakerInv /\ [Next]_vars =>
        [Handle /\ cb.state = "closed" /\ config.ClosedErrorRate = "zero" =>
           (cb'.state = "open" <=>
              config.TripAfter > 0 /\ sinceClosed + 1 = config.TripAfter)]_vars
  <2>. SUFFICES ASSUME BreakerInv, Handle, cb.state = "closed", config.ClosedErrorRate = "zero"
                PROVE  cb'.state = "open" <=>
                         config.TripAfter > 0 /\ sinceClosed + 1 = config.TripAfter
    OBVIOUS
  <2>1. /\ Config /\ Entered \in Breakers /\ Entered.state = "closed"
        /\ Entered.totalRequests = Up(sinceClosed, config.TripAfter)
        /\ config.TripAfter > 0 => sinceClosed < config.TripAfter
        /\ sinceClosed \in 0 .. config.TripAfter
    BY ConfigParsed, EnteredHistory DEF BreakerInv, TypeOK
  <2>2. cb'.state = "open" <=> Trips
    <3>1. Trips => cb'.state = "open"
      BY <2>1, TransitionType DEF Trips
    <3>2. ~Trips => StaysClosed
      BY <2>1, HandleOutcomes DEF Closes, StaysHalfOpen, StaysOpen
    <3>3. StaysClosed => cb'.state = "closed"
      BY <2>1 DEF StaysClosed, Breakers
    <3>. QED
      BY <3>1, <3>2, <3>3
  <2>3. Trips <=> config.TripAfter > 0 /\ Entered.totalRequests >= config.TripAfter
    BY <2>1, HandleOutcomes
  <2>4. config.TripAfter > 0 => Entered.totalRequests = sinceClosed + 1
    BY <2>1 DEF Up, Config
  <2>5. config.TripAfter > 0 => (Entered.totalRequests >= config.TripAfter <=>
                                   sinceClosed + 1 = config.TripAfter)
    BY <2>1, <2>4 DEF Config
  <2>. QED
    BY <2>2, <2>3, <2>5
<1>. QED
  BY <1>1, BreakerInvariant, PTL DEF Spec, TripsExactlyAfter

=============================================================================
