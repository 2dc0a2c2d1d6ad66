---------------------------- MODULE ChaosInjection ----------------------------
(***************************************************************************)
(* Chaos injection: the engine's dynamic chaos handler, the middleware     *)
(* that applies the faults the injector chose for a request, the injector's*)
(* rules, its retry_after and progressive_degradation state, the response  *)
(* writers the faults install, and the control API that replaces the       *)
(* injector (pkg/chaos, pkg/engine/middleware_chain.go, control_api.go).   *)
(*                                                                         *)
(* Requests run concurrently.  A request keeps the injector it loaded when *)
(* it came, though another may be installed meanwhile.  CircuitBreaker     *)
(* models the breaker, which here lets a request pass or not.  A roll of   *)
(* the random generator may go either way unless the probability is one.   *)
(* Durations are units of time; the statistics, which nothing reads back,  *)
(* are left out.                                                           *)
(***************************************************************************)
EXTENDS Naturals, Sequences, FiniteSetsExt, SequencesExt

CONSTANTS
  CiConfigs,      \* configurations the control API may install:
                  \* [rules : Seq([paths, prob, faults]), global : Seq(fault)]
  CiPaths,        \* request paths
  CiReqs,         \* requests in flight
  CiBodies,       \* the writes a handler makes, each a sequence of lengths
  CiResetAfter,   \* progressive_degradation: resetAfter
  CiErrorAfter,   \* progressive_degradation: errorAfter
  CiRetryAfter,   \* retry_after: retryAfter
  CiChunk,        \* bytes a slow or dribbling writer passes on at a time
  CiMaxBytes,     \* bytes a truncating writer lets through
  CiInjectors,    \* bound: injectors ever installed
  CiRequests      \* bound: requests ever made

VARIABLES
  ciCur,      \* the installed injector, 0 = none
  ciInj,      \* injectors: [config, retry : key -> tracker, prog : key -> counter]
  ciReq,      \* request -> its progress
  ciLeft,     \* requests still to come
  ciCycle     \* auxiliary: injector -> key -> requests let through since the last reset

ciVars == <<ciCur, ciInj, ciReq, ciLeft, ciCycle>>

CiIdle == [pc |-> "idle", inj |-> 0, path |-> CHOOSE p \in CiPaths : TRUE, faults |-> <<>>,
           wraps |-> <<>>, fails |-> FALSE, answers |-> 0, end |-> "", sent |-> <<>>,
           body |-> <<>>]

-----------------------------------------------------------------------------
(* The injector *)

CiKeys(config, type) ==
  {<<i, j>> \in (1 .. Len(config.rules)) \X (1 .. 3) :
     j <= Len(config.rules[i].faults) /\ config.rules[i].faults[j].type = type}

\* A tracker that is not limited, counters at zero: one of each per fault of its type
NewInjector(config) ==
  [config |-> config,
   retry |-> [k \in CiKeys(config, "retry_after") |-> [isLimited |-> FALSE, age |-> 0]],
   prog |-> [k \in CiKeys(config, "progressive_degradation") |-> 0]]

CiInit ==
  /\ ciCur = 0 /\ ciInj = <<>> /\ ciCycle = <<>>
  /\ ciReq = [r \in CiReqs |-> CiIdle]
  /\ ciLeft = CiRequests

isStatefulFault(type) == type \in {"circuit_breaker", "retry_after", "progressive_degradation"}

\* The subsequences of the faults that the rolls may leave, each fault with its key: a
\* stateful fault is never left out
CiRolled(faults, i) ==
  LET must == {j \in DOMAIN faults : isStatefulFault(faults[j].type) \/ faults[j].prob = "one"}
      left(S) == SelectSeq([j \in DOMAIN faults |-> j], LAMBDA j : j \in S)
  IN {[n \in DOMAIN left(S) |-> [type |-> faults[left(S)[n]].type, key |-> <<i, left(S)[n]>>]] :
      S \in {S \in SUBSET DOMAIN faults : must \subseteq S}}

\* Mutant: a rule preempts the global rules only when its roll succeeds
CiGlobalLoose(config, path, applied) == applied = {}

\* The global rules are for requests that no rule is about, be its roll a success or not
CiGlobalApplies(config, path, applied) ==
  ~\E i \in DOMAIN config.rules : path \in config.rules[i].paths

\* Latency, errors and bandwidth, each by a roll of its own
applyGlobalRules(config) == CiRolled(config.global, 0)

\* Every sequence of faults the rules may yield for a request, in the order of the rules
ShouldInject(config, path) ==
  LET rules == config.rules
      matching == SelectSeq([i \in DOMAIN rules |-> i], LAMBDA i : path \in rules[i].paths)
      rolls == {A \in SUBSET Range(matching) :
                  \A i \in Range(matching) : rules[i].prob = "one" => i \in A}
      chosen(A) == FoldLeft(LAMBDA acc, i : {x \o y : x \in acc, y \in CiRolled(rules[i].faults, i)},
                            {<<>>}, SelectSeq(matching, LAMBDA i : i \in A))
  IN UNION {IF CiGlobalApplies(config, path, A) THEN applyGlobalRules(config) ELSE chosen(A) :
            A \in rolls}

-----------------------------------------------------------------------------
(* The stateful faults *)

\* Mutant: the window is stamped when the tracker is made only
retryUnstamped(t) ==
  IF t.isLimited
    THEN IF t.age > CiRetryAfter THEN [t |-> [t EXCEPT !.isLimited = FALSE], pass |-> TRUE]
                                 ELSE [t |-> t, pass |-> FALSE]
    ELSE [t |-> [t EXCEPT !.isLimited = TRUE], pass |-> FALSE]

\* RetryAfterTracker.Handle: the first request opens the window, the first one after it passes
HandleRetryAfter(t) ==
  IF t.isLimited
    THEN IF t.age > CiRetryAfter THEN [t |-> [t EXCEPT !.isLimited = FALSE], pass |-> TRUE]
                                 ELSE [t |-> t, pass |-> FALSE]
    ELSE [t |-> [isLimited |-> TRUE, age |-> 0], pass |-> FALSE]

\* Mutant: the request that resets the counter is not counted
degradeUncounted(count) ==
  LET next == count + 1 IN
  IF CiResetAfter > 0 /\ next > CiResetAfter
    THEN [count |-> 0, reset |-> TRUE, error |-> FALSE]
    ELSE [count |-> next, reset |-> FALSE, error |-> CiErrorAfter > 0 /\ next > CiErrorAfter]

\* ProgressiveDegradation.Handle, the part under its lock
HandleProgressiveDegradation(count) ==
  LET next == count + 1
      reset == CiResetAfter > 0 /\ next > CiResetAfter
      n == IF reset THEN 1 ELSE next
  IN [count |-> n, reset |-> reset, error |-> CiErrorAfter > 0 /\ n > CiErrorAfter]

-----------------------------------------------------------------------------
(* The response writers: from the outermost to the connection.  Put yields the writers, *)
(* the bytes the writer says it took and those that reached the connection.             *)

RECURSIVE CiPut(_, _, _)
RECURSIVE CiPieces(_, _, _)

\* SlowWriter and ChunkedDribbleWriter: piece by piece, each as long as the one below took
CiPieces(ws, d, p) ==
  IF p = <<>> THEN [ws |-> ws, n |-> 0, out |-> <<>>]
  ELSE LET one == CiPut(ws, d + 1, SubSeq(p, 1, Min({CiChunk, Len(p)})))
           rest == CiPieces(one.ws, d, SubSeq(p, one.n + 1, Len(p)))
       IN [ws |-> rest.ws, n |-> one.n + rest.n, out |-> one.out \o rest.out]

\* Mutant: what is written is not added up
CiTruncateEach(ws, d, p) ==
  LET w == ws[d]
      one == CiPut(ws, d + 1, SubSeq(p, 1, Min({w.max - w.written, Len(p)})))
  IN IF w.written >= w.max THEN [ws |-> ws, n |-> Len(p), out |-> <<>>]
     ELSE [one EXCEPT !.ws[d].written = one.n]

\* TruncatingWriter: beyond maxBytes it takes everything and writes nothing
CiTruncate(ws, d, p) ==
  LET w == ws[d]
      one == CiPut(ws, d + 1, SubSeq(p, 1, Min({w.max - w.written, Len(p)})))
  IN IF w.written >= w.max THEN [ws |-> ws, n |-> Len(p), out |-> <<>>]
     ELSE [one EXCEPT !.ws[d].written = w.written + one.n]

\* CorruptingWriter: any byte may come out as another one
CiCorrupt(ws, d, p) == CiPut(ws, d + 1, [i \in DOMAIN p |-> <<p[i][1], "?">>])

CiPut(ws, d, p) ==
  IF d > Len(ws) THEN [ws |-> ws, n |-> Len(p), out |-> p]
  ELSE CASE ws[d].type \in {"slow_body", "chunked_dribble"} -> CiPieces(ws, d, p)
         [] ws[d].type = "partial_response" -> CiTruncate(ws, d, p)
         [] ws[d].type = "corrupt_body" -> CiCorrupt(ws, d, p)

\* The handler's writes, one after the other: what has reached the connection at the end
CiServed(wraps, body) ==
  LET from(k) == FoldLeft(LAMBDA n, l : n + l, 0, SubSeq(body, 1, k - 1))
      bytes(k) == [i \in 1 .. body[k] |-> <<from(k) + i, "">>]
  IN FoldLeft(LAMBDA acc, k : LET r == CiPut(acc.ws, 1, bytes(k))
                              IN [ws |-> r.ws, out |-> acc.out \o r.out],
              [ws |-> Reverse(wraps), out |-> <<>>],
              [k \in DOMAIN body |-> k]).out

-----------------------------------------------------------------------------
(* The middleware *)

\* dynamicChaosHandler.ServeHTTP and Middleware.ServeHTTP: load the injector, choose
CiArrive(r) ==
  /\ ciLeft > 0 /\ ciReq[r].pc \in {"idle", "done"}
  /\ \E p \in CiPaths, b \in CiBodies :
     \E faults \in IF ciCur = 0 THEN {<<>>} ELSE ShouldInject(ciInj[ciCur].config, p) :
       ciReq' = [ciReq EXCEPT ![r] = [CiIdle EXCEPT !.pc = "faults", !.inj = ciCur, !.path = p,
                                                    !.faults = faults, !.body = b]]
  /\ ciLeft' = ciLeft - 1
  /\ UNCHANGED <<ciCur, ciInj, ciCycle>>

CiNextFault(r, type) ==
  /\ ciReq[r].pc = "faults" /\ ciReq[r].faults # <<>> /\ Head(ciReq[r].faults).type = type

CiEnd(q, n, how) == [q EXCEPT !.pc = "done", !.answers = @ + n, !.end = how]
CiGoOn(q) == [q EXCEPT !.pc = "faults", !.faults = Tail(@)]

\* faultAbort, with an answer or, when the client is gone or the connection closed, without
CiAbort(r, n, how) == ciReq' = [ciReq EXCEPT ![r] = CiEnd(@, n, how)]
CiContinue(r) == ciReq' = [ciReq EXCEPT ![r] = CiGoOn(@)]

\* InjectLatencyFromConfig waits, unless the request's context ends
CiLatency(r) ==
  /\ CiNextFault(r, "latency")
  /\ CiContinue(r) \/ CiAbort(r, 0, "gone")
  /\ UNCHANGED <<ciCur, ciInj, ciLeft, ciCycle>>

\* Mutant: the error is written and the handler called as well
CiErrorContinues(r) ==
  /\ CiNextFault(r, "error")
  /\ ciReq' = [ciReq EXCEPT ![r] = [CiGoOn(@) EXCEPT !.answers = @ + 1]]
  /\ UNCHANGED <<ciCur, ciInj, ciLeft, ciCycle>>

CiError(r) ==
  /\ CiNextFault(r, "error")
  /\ CiAbort(r, 1, "error")
  /\ UNCHANGED <<ciCur, ciInj, ciLeft, ciCycle>>

CiTimeout(r) ==
  /\ CiNextFault(r, "timeout")
  /\ CiAbort(r, 1, "error") \/ CiAbort(r, 0, "gone")
  /\ UNCHANGED <<ciCur, ciInj, ciLeft, ciCycle>>

CiEmpty(r) ==
  /\ CiNextFault(r, "empty_response")
  /\ CiAbort(r, 1, "empty")
  /\ UNCHANGED <<ciCur, ciInj, ciLeft, ciCycle>>

CiReset(r) ==
  /\ CiNextFault(r, "connection_reset")
  /\ CiAbort(r, 0, "gone")
  /\ UNCHANGED <<ciCur, ciInj, ciLeft, ciCycle>>

\* slow_body, corrupt_body, partial_response, chunked_dribble: one more writer around
CiWrap(r) ==
  /\ \E type \in {"slow_body", "corrupt_body", "partial_response", "chunked_dribble"} :
       /\ CiNextFault(r, type)
       /\ ciReq' = [ciReq EXCEPT ![r] = [CiGoOn(@) EXCEPT
            !.wraps = Append(@, [type |-> type, max |-> CiMaxBytes, written |-> 0])]]
  /\ UNCHANGED <<ciCur, ciInj, ciLeft, ciCycle>>

CiBreaker(r) ==
  /\ CiNextFault(r, "circuit_breaker")
  /\ CiContinue(r) \/ CiAbort(r, 1, "error")
  /\ UNCHANGED <<ciCur, ciInj, ciLeft, ciCycle>>

CiRetry(r) ==
  /\ CiNextFault(r, "retry_after")
  /\ LET q == ciReq[r]
         k == Head(q.faults).key
         h == HandleRetryAfter(ciInj[q.inj].retry[k])
     IN /\ ciInj' = [ciInj EXCEPT ![q.inj].retry[k] = h.t]
        /\ IF h.pass THEN CiContinue(r) ELSE CiAbort(r, 1, "limited")
  /\ UNCHANGED <<ciCur, ciLeft, ciCycle>>

\* The counter under the lock; the delay comes after it
CiDegrade(r) ==
  /\ CiNextFault(r, "progressive_degradation")
  /\ LET q == ciReq[r]
         k == Head(q.faults).key
         h == HandleProgressiveDegradation(ciInj[q.inj].prog[k])
     IN /\ ciInj' = [ciInj EXCEPT ![q.inj].prog[k] = h.count]
        /\ ciReq' = [ciReq EXCEPT ![r].pc = "delay", ![r].fails = h.error]
        /\ ciCycle' = [ciCycle EXCEPT ![q.inj][k] =
                         (IF h.reset THEN 0 ELSE @) + (IF h.error THEN 0 ELSE 1)]
  /\ UNCHANGED <<ciCur, ciLeft>>

CiDelayed(r) ==
  /\ ciReq[r].pc = "delay"
  /\ \/ CiAbort(r, 0, "gone")
     \/ ciReq[r].fails /\ CiAbort(r, 1, "error")
     \/ ~ciReq[r].fails /\ CiContinue(r)
  /\ UNCHANGED <<ciCur, ciInj, ciLeft, ciCycle>>

\* No fault left: the handler answers through the writers
CiServe(r) ==
  /\ ciReq[r].pc = "faults" /\ ciReq[r].faults = <<>>
  /\ ciReq' = [ciReq EXCEPT ![r] = [CiEnd(@, 1, "served") EXCEPT
                  !.sent = CiServed(ciReq[r].wraps, ciReq[r].body)]]
  /\ UNCHANGED <<ciCur, ciInj, ciLeft, ciCycle>>

-----------------------------------------------------------------------------
(* The control API and time *)

\* ControlAPIAdapter.SetChaosConfig: a new injector, its state fresh, or none
CiSetChaosConfig ==
  \/ /\ Len(ciInj) < CiInjectors
     /\ \E c \in CiConfigs :
          /\ ciInj' = Append(ciInj, NewInjector(c))
          /\ ciCycle' = Append(ciCycle, [k \in CiKeys(c, "progressive_degradation") |-> 0])
     /\ ciCur' = Len(ciInj')
     /\ UNCHANGED <<ciReq, ciLeft>>
  \/ /\ ciCur # 0 /\ ciCur' = 0
     /\ UNCHANGED <<ciInj, ciReq, ciLeft, ciCycle>>

CiTick ==
  /\ \E i \in DOMAIN ciInj : \E k \in DOMAIN ciInj[i].retry : ciInj[i].retry[k].age <= CiRetryAfter
  /\ ciInj' = [i \in DOMAIN ciInj |-> [ciInj[i] EXCEPT !.retry =
       [k \in DOMAIN @ |-> [@[k] EXCEPT !.age = Min({@ + 1, CiRetryAfter + 1})]]]]
  /\ UNCHANGED <<ciCur, ciReq, ciLeft, ciCycle>>

CiNext ==
  \/ \E r \in CiReqs :
       \/ CiArrive(r) \/ CiLatency(r) \/ CiError(r) \/ CiTimeout(r) \/ CiEmpty(r) \/ CiReset(r)
       \/ CiWrap(r) \/ CiBreaker(r) \/ CiRetry(r) \/ CiDegrade(r) \/ CiDelayed(r) \/ CiServe(r)
  \/ CiSetChaosConfig \/ CiTick

CiSpec == CiInit /\ [][CiNext]_ciVars

-----------------------------------------------------------------------------
(* Properties *)

\* Every request goes on with the faults, and the state, of the injector it loaded.
CiTypeOK ==
  /\ ciCur \in 0 .. Len(ciInj)
  /\ \A r \in CiReqs : LET q == ciReq[r] IN
       /\ q.pc \in {"idle", "faults", "delay", "done"} /\ q.inj \in 0 .. Len(ciInj)
       /\ q.inj = 0 => q.faults = <<>>
       /\ \A i \in DOMAIN q.faults : LET f == q.faults[i] IN
            /\ f.type = "retry_after" => f.key \in DOMAIN ciInj[q.inj].retry
            /\ f.type = "progressive_degradation" => f.key \in DOMAIN ciInj[q.inj].prog

\* "Fault wrote the response; stop processing": a request is answered once, by a fault or
\* by the handler, and not at all only when the client has gone or its connection was reset.
CiAnsweredOnce ==
  \A r \in CiReqs : LET q == ciReq[r] IN
    /\ q.answers <= 1
    /\ q.pc = "done" => (q.answers = 0 <=> q.end = "gone")

\* "the per-path rule preempts global config for matching requests": a request never meets
\* a global fault once some rule is about its path, though the rule's roll may have failed.
CiRulesPreempt ==
  \A r \in CiReqs : LET q == ciReq[r] IN
    \A n \in DOMAIN q.faults :
      q.faults[n].key[1] = 0 =>
        \A i \in DOMAIN ciInj[q.inj].config.rules : q.path \notin ciInj[q.inj].config.rules[i].paths

\* Whatever the writers are stacked around it, and however the handler cuts its writes, the
\* client receives the body's bytes in order, none twice, up to the truncating limit.
CiBodyCut ==
  \A r \in CiReqs : LET q == ciReq[r] IN
    q.end = "served" =>
      LET length == FoldLeft(LAMBDA n, l : n + l, 0, q.body)
          cut == IF \E i \in DOMAIN q.wraps : q.wraps[i].type = "partial_response"
                   THEN Min({CiMaxBytes, length}) ELSE length
      IN /\ Len(q.sent) = cut
         /\ \A i \in DOMAIN q.sent : q.sent[i][1] = i

\* progressive_degradation lets errorAfter requests through between two resets, no more,
\* though the requests it delays overlap and though a new configuration may be installed.
CiDegradesOnTime ==
  CiErrorAfter > 0 /\ CiErrorAfter <= CiResetAfter =>
    \A i \in DOMAIN ciInj : \A k \in DOMAIN ciInj[i].prog :
      ciCycle[i][k] = Min({ciInj[i].prog[k], CiErrorAfter})

\* retry_after "recovers after the specified duration elapses": a request passes the fault
\* only when more than retryAfter has gone by since the request that opened the window.
CiRecoversOnTime ==
  \A i \in DOMAIN ciInj : \A k \in DOMAIN ciInj[i].retry :
    LET t == ciInj[i].retry[k]
        u == ciInj'[i].retry[k]
    IN /\ t.isLimited /\ ~u.isLimited => t.age > CiRetryAfter
       /\ ~t.isLimited /\ u.isLimited => u.age = 0

=============================================================================
