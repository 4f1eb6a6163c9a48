-------------------------------- MODULE MCServer --------------------------------
(* Four parts of the server process that share no state.  A behaviour runs *)
(* one of them, chosen at the start, and leaves the others as they began.  *)
EXTENDS Kakao, Onboarding, RateLimit, Lifecycle

(* The defaults, and a route that overrides ipMax.                         *)
TwoRoutes == {"write", "login"}
RouteLimits == [r \in TwoRoutes |-> [ip |-> IF r = "login" THEN 1 ELSE 2, user |-> 1]]

VARIABLE part   (* which of them *)

vars == <<part, kakaoVars, onboardingVars, rateVars, lifecycleVars>>

Init ==
    /\ part \in {"kakao", "onboarding", "limit", "lifecycle"}
    /\ KakaoInit /\ OnboardingInit /\ RateLimitInit /\ LifecycleInit
    /\ part = "lifecycle" \/ kind = "http"

Next ==
    /\ UNCHANGED part
    /\ \/ part = "kakao" /\ KakaoNext /\ UNCHANGED <<onboardingVars, rateVars, lifecycleVars>>
       \/ part = "onboarding" /\ OnboardingNext /\ UNCHANGED <<kakaoVars, rateVars, lifecycleVars>>
       \/ part = "limit" /\ RateLimitNext /\ UNCHANGED <<kakaoVars, onboardingVars, lifecycleVars>>
       \/ part = "lifecycle" /\ LifecycleNext /\ UNCHANGED <<kakaoVars, onboardingVars, rateVars>>

Spec == Init /\ [][Next]_vars /\ LifecycleFairness
=============================================================================
