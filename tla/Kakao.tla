--------------------------------- MODULE Kakao ---------------------------------
(***************************************************************************)
(* The Kakao client: a login sends its authorization code once, then asks  *)
(* for the profile, with retries.  Both calls pass the one circuit breaker *)
(* and the one bulkhead of the process; the profile's attempts share a     *)
(* budget of time.  The policies are the cockatiel library's: what they do *)
(* on each outcome is modelled, and their timers may fire at any time.     *)
(***************************************************************************)
EXTENDS Integers, FiniteSets

CONSTANTS Logins,
          MaxRetries,   (* KAKAO_RETRY_MAX_ATTEMPTS                         *)
          Threshold,    (* KAKAO_BREAKER_THRESHOLD                          *)
          Slots, Queue  (* KAKAO_BULKHEAD_CONCURRENT, KAKAO_BULKHEAD_QUEUE  *)

(* validateResilienceConfig: what it does not throw on.  What it only      *)
(* warns of, a threshold below MaxRetries + 1, is a configuration too.     *)
ConfigValid ==
    /\ MaxRetries \in Nat /\ Queue \in Nat
    /\ Threshold \in Nat \ {0} /\ Slots \in Nat \ {0}

ASSUME KakaoAssumption == ConfigValid

VARIABLES
    login,     (* what each login is calling, where it is with it, and how  *)
               (* it ended                                                  *)
    circuit,   (* of the breaker: "closed", "open", "half"                  *)
    failures,  (* consecutive failures the breaker has counted              *)
    probe,     (* the logins whose calls test a half-open circuit           *)
    calls,     (* history: calls sent per login                             *)
    blamed,    (* history: the failures in a row, each a login's attempt    *)
    openedBy   (* history: their logins when the circuit last left "closed" *)

breakerVars == <<circuit, failures, probe, blamed, openedBy>>
kakaoVars == <<login, breakerVars, calls>>

At(c, w) == [calling |-> c, where |-> w]
Idle == At("none", "idle")
Unavailable == At("none", "unavailable")   (* 503 KAKAO_UNAVAILABLE *)
Refused == At("none", "refused")           (* Kakao's 4xx, passed on *)

KakaoInit ==
    /\ login = [p \in Logins |-> Idle]
    /\ circuit = "closed" /\ failures = 0 /\ probe = {}
    /\ calls = [p \in Logins |-> [token |-> 0, profile |-> 0]]
    /\ blamed = {} /\ openedBy = {}

Waiting(w) == {p \in Logins : login[p].where = w}
Becomes(p, l) == login' = [login EXCEPT ![p] = l]

-----------------------------------------------------------------------------
(* Plausible defects, for the mutation runs *)

RetryTokenToo(p) == calls[p][login[p].calling] <= MaxRetries

SuccessKeepsCount(p) ==
    /\ blamed' = {}
    /\ circuit' = IF p \in probe THEN "closed" ELSE circuit
    /\ probe' = probe \ {p}
    /\ UNCHANGED <<failures, openedBy>>

-----------------------------------------------------------------------------
(* The retry policy is the profile's only.                                 *)
MayRetry(p) == login[p].calling = "profile" /\ calls[p].profile <= MaxRetries

Opens(n) == n >= Threshold

(* The attempt a login is at, the first one being 1.                       *)
Attempt(p) == calls[p][login[p].calling] + IF login[p].where = "kakao" THEN 0 ELSE 1

LoginsOf(failed) == {f[1] : f \in failed}

(* ConsecutiveBreaker and the circuit around it.  A success anywhere       *)
(* starts the count anew; only the probe closes a half-open circuit.       *)
CountSuccess(p) ==
    /\ failures' = 0 /\ blamed' = {}
    /\ circuit' = IF p \in probe THEN "closed" ELSE circuit
    /\ probe' = probe \ {p}
    /\ UNCHANGED openedBy

CountFailure(p) ==
    LET n == IF failures < Threshold THEN failures + 1 ELSE failures
    IN  /\ failures' = n /\ blamed' = blamed \cup {<<p, Attempt(p)>>}
        /\ circuit' = IF p \in probe \/ Opens(n) THEN "open" ELSE circuit
        /\ openedBy' = IF circuit = "closed" /\ Opens(n) THEN LoginsOf(blamed') ELSE openedBy
        /\ probe' = probe \ {p}

(* What transientOnly does not name is not counted, and closes a half-open *)
(* circuit when it is the probe that meets it.                             *)
NotCounted(p) ==
    /\ circuit' = IF p \in probe THEN "closed" ELSE circuit
    /\ probe' = probe \ {p}
    /\ UNCHANGED <<failures, blamed, openedBy>>

-----------------------------------------------------------------------------

ExchangeAndFetch(p) ==
    /\ login[p] = Idle
    /\ Becomes(p, At("token", "breaker"))
    /\ UNCHANGED <<breakerVars, calls>>

OneMore(n, c) == [n EXCEPT ![c] = @ + 1]
Send(p) == calls' = [calls EXCEPT ![p] = OneMore(@, login[p].calling)]

(* Through the bulkhead: into a slot, into the queue, or rejected, which   *)
(* is nothing the retry handles.                                           *)
EnterBulkhead(p) ==
    \/ /\ Cardinality(Waiting("kakao")) < Slots
       /\ Becomes(p, [login[p] EXCEPT !.where = "kakao"])
       /\ Send(p)
    \/ /\ Cardinality(Waiting("kakao")) >= Slots
       /\ Cardinality(Waiting("queue")) < Queue
       /\ Becomes(p, [login[p] EXCEPT !.where = "queue"])
       /\ UNCHANGED calls

BulkheadFull ==
    Cardinality(Waiting("kakao")) >= Slots /\ Cardinality(Waiting("queue")) >= Queue

Admit(p) ==
    /\ login[p].where = "breaker" /\ circuit = "closed"
    /\ EnterBulkhead(p)
    /\ UNCHANGED breakerVars

BulkheadRejects(p) ==
    /\ login[p].where = "breaker" /\ circuit = "closed"
    /\ BulkheadFull
    /\ Becomes(p, Unavailable)
    /\ UNCHANGED <<breakerVars, calls>>

(* An open circuit answers at once, and no retry follows.  While it is     *)
(* half open the other callers wait for the probe.                         *)
BreakerRejects(p) ==
    /\ login[p].where = "breaker" /\ circuit = "open"
    /\ Becomes(p, Unavailable)
    /\ UNCHANGED <<breakerVars, calls>>

(* KAKAO_BREAKER_HALF_OPEN_MS after the opening.  The bulkhead has room    *)
(* for the probe: the call whose failure opened the circuit has left it,   *)
(* and none has come in since but a probe.                                 *)
Probe(p) ==
    /\ login[p].where = "breaker" /\ circuit = "open"
    /\ circuit' = "half" /\ probe' = probe \cup {p}
    /\ EnterBulkhead(p)
    /\ UNCHANGED <<failures, blamed, openedBy>>

Dequeue(p) ==
    /\ login[p].where = "queue"
    /\ Cardinality(Waiting("kakao")) < Slots
    /\ Becomes(p, [login[p] EXCEPT !.where = "kakao"])
    /\ Send(p)
    /\ UNCHANGED breakerVars

Succeeds(p) ==
    /\ login[p].where = "kakao"
    /\ Becomes(p, IF login[p].calling = "token" THEN At("profile", "breaker") ELSE At("none", "done"))
    /\ CountSuccess(p)
    /\ UNCHANGED calls

(* 429, 5xx, a network error, or no answer within KAKAO_TIMEOUT_MS.        *)
FailsTransiently(p) ==
    /\ login[p].where = "kakao"
    /\ Becomes(p, IF MayRetry(p) THEN At(login[p].calling, "breaker") ELSE Unavailable)
    /\ CountFailure(p)
    /\ UNCHANGED calls

FailsForGood(p) ==
    /\ login[p].where = "kakao"
    /\ Becomes(p, Refused)
    /\ NotCounted(p)
    /\ UNCHANGED calls

(* KAKAO_TOTAL_TIMEOUT_MS: the login is answered and no attempt follows;   *)
(* one in progress is aborted, which the breaker counts as a failure.      *)
BudgetExpires(p) ==
    /\ login[p].calling = "profile"
    /\ Becomes(p, Unavailable)
    /\ IF login[p].where = "breaker" THEN UNCHANGED breakerVars ELSE CountFailure(p)
    /\ UNCHANGED calls

KakaoNext ==
    \E p \in Logins :
        \/ ExchangeAndFetch(p) \/ Admit(p) \/ BulkheadRejects(p) \/ BreakerRejects(p)
        \/ Probe(p) \/ Dequeue(p) \/ Succeeds(p) \/ FailsTransiently(p)
        \/ FailsForGood(p) \/ BudgetExpires(p)

-----------------------------------------------------------------------------
(* Properties *)

(* The authorization code, good for one use, is sent once, whatever the    *)
(* policies do; the profile is asked for at most MaxRetries + 1 times; no  *)
(* more than Slots calls are out; and a half-open circuit always has its   *)
(* probe on the way, so the callers that wait for it do not wait for ever, *)
(* and an open one always has room for the next probe.                     *)
CallsBounded ==
    /\ \A p \in Logins : calls[p].token <= 1 /\ calls[p].profile <= MaxRetries + 1
    /\ Cardinality(Waiting("kakao")) <= Slots
    /\ circuit = "half" => \E p \in probe : login[p].where \in {"kakao", "queue"}
    /\ circuit = "open" => ~BulkheadFull

(* The circuit opens for all only on failures of as many logins as it      *)
(* takes to reach the threshold with all the attempts of each.  One login  *)
(* never opens it alone if the threshold is above its attempts; at         *)
(* equality, which validateResilienceConfig passes in silence, one does.   *)
OpeningTakesLogins ==
    circuit # "closed" => Cardinality(openedBy) * (MaxRetries + 1) >= Threshold
=============================================================================
