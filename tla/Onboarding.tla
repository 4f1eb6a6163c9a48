------------------------------- MODULE Onboarding -------------------------------
(***************************************************************************)
(* Accounts: signing up with an email and a password, and the two steps of *)
(* Kakao, a login that yields a session or an onboarding token, and the    *)
(* completion that turns the token and a chosen role into a user with his  *)
(* account.  The token is signed, not stored: it may be used again.  All   *)
(* three look first and insert later.                                      *)
(***************************************************************************)
EXTENDS Integers, FiniteSets

CONSTANTS Emails, KakaoIds, Attempts, Nobody,
          UserIds       (* bound: primary keys User rows get                *)

ASSUME OnboardingAssumption == Nobody \notin Emails \cup KakaoIds \cup UserIds

VARIABLES
    email,     (* User.email; Nobody: no such row                           *)
    hasPass,   (* passwordHash is not null                                  *)
    account,   (* Account rows: the user a Kakao id leads to                *)
    tokens,    (* onboarding tokens that verify                             *)
    signing,   (* what each request is about to do                          *)
    sessions   (* users a session was issued to, with what they proved      *)

onboardingVars == <<email, hasPass, account, tokens, signing, sessions>>

Token == [id : KakaoIds, email : Emails]
Doing(o, k, e) == [op |-> o, id |-> k, email |-> e]
Rest == Doing("rest", Nobody, Nobody)

OnboardingInit ==
    /\ email = [u \in UserIds |-> Nobody]
    /\ hasPass = [u \in UserIds |-> FALSE]
    /\ account = [k \in KakaoIds |-> Nobody]
    /\ tokens = {}
    /\ signing = [a \in Attempts |-> Rest]
    /\ sessions = {}

Then(a, d) == signing' = [signing EXCEPT ![a] = d]
FindByEmail(e) == {u \in UserIds : email[u] = e}
Fresh(u) == email[u] = Nobody

-----------------------------------------------------------------------------
(* Plausible defects, for the mutation runs *)

UserFirst(d) == FindByEmail(d.email) = {}

(* Unique keys: User.email, Account (provider, providerId).                *)
EmailFree(e) == FindByEmail(e) = {}
KakaoIdFree(k) == account[k] = Nobody

(* A nested write: the user goes in only if his account does.              *)
Nested(d) == EmailFree(d.email) /\ KakaoIdFree(d.id)

-----------------------------------------------------------------------------
(* SignUpUseCase *)

(* The role is OWNER, TENANT or left out; the email is not in use.         *)
SignUp(a, e) ==
    /\ signing[a] = Rest
    /\ FindByEmail(e) = {}
    /\ Then(a, Doing("save", Nobody, e))
    /\ UNCHANGED <<email, hasPass, account, tokens, sessions>>

(* The loser of a race on the email gets EMAIL_IN_USE, like any other.     *)
Save(a, u) ==
    /\ signing[a].op = "save" /\ Fresh(u)
    /\ IF EmailFree(signing[a].email)
       THEN /\ email' = [email EXCEPT ![u] = signing[a].email]
            /\ hasPass' = [hasPass EXCEPT ![u] = TRUE]
       ELSE UNCHANGED <<email, hasPass>>
    /\ Then(a, Rest)
    /\ UNCHANGED <<account, tokens, sessions>>

-----------------------------------------------------------------------------
(* KakaoLoginUseCase and CompleteKakaoSignupUseCase *)

Issue(u, k) == sessions' = sessions \cup {[user |-> u, id |-> k]}

(* Kakao answers with an id and the email it has for it today.  A known    *)
(* id gets a session, a new one a token.                                   *)
KakaoLogin(a, k, e) ==
    /\ signing[a] = Rest
    /\ IF account[k] = Nobody
       THEN tokens' = tokens \cup {[id |-> k, email |-> e]} /\ UNCHANGED sessions
       ELSE Issue(account[k], k) /\ UNCHANGED tokens
    /\ UNCHANGED <<email, hasPass, account, signing>>

(* Idempotent: an id that has its account by now gets a session.           *)
CompleteSignup(a, t) ==
    /\ signing[a] = Rest /\ t \in tokens
    /\ IF account[t.id] = Nobody
       THEN Then(a, Doing("link", t.id, t.email)) /\ UNCHANGED sessions
       ELSE Issue(account[t.id], t.id) /\ UNCHANGED signing
    /\ UNCHANGED <<email, hasPass, account, tokens>>

(* User and Account in one nested write: a taken email or a taken id fails *)
(* both, and either is reported as EMAIL_IN_USE.                           *)
SaveWithAccount(a, u) ==
    LET d == signing[a]
    IN  /\ d.op = "link" /\ Fresh(u)
        /\ email' = IF Nested(d) THEN [email EXCEPT ![u] = d.email] ELSE email
        /\ IF Nested(d) /\ KakaoIdFree(d.id)
           THEN account' = [account EXCEPT ![d.id] = u] /\ Issue(u, d.id)
           ELSE UNCHANGED <<account, sessions>>
        /\ Then(a, Rest)
        /\ UNCHANGED <<hasPass, tokens>>

(* Ten minutes after its issue.                                            *)
TokenExpires(t) ==
    /\ t \in tokens
    /\ tokens' = tokens \ {t}
    /\ UNCHANGED <<email, hasPass, account, signing, sessions>>

(* The hash, the database or the server fails in between.                  *)
SigningFails(a) ==
    /\ signing[a] # Rest
    /\ Then(a, Rest)
    /\ UNCHANGED <<email, hasPass, account, tokens, sessions>>

KakaoRoutes(a) ==
    \/ \E k \in KakaoIds, e \in Emails : KakaoLogin(a, k, e)
    \/ \E t \in Token : CompleteSignup(a, t)

OnboardingNext ==
    \/ \E a \in Attempts :
        \/ \E e \in Emails : SignUp(a, e)
        \/ KakaoRoutes(a)
        \/ \E u \in UserIds : Save(a, u) \/ SaveWithAccount(a, u)
        \/ SigningFails(a)
    \/ \E t \in Token : TokenExpires(t)

-----------------------------------------------------------------------------
(* Properties *)

(* However sign-ups and completions race, with one token used many times   *)
(* and an email that changes at Kakao: an email has one user, every user   *)
(* can log in again (a password or an account), a user has one account at  *)
(* most, and whoever got a session over Kakao owns that Kakao account.     *)
OneIdentity ==
    /\ \A u, v \in UserIds : email[u] # Nobody /\ email[u] = email[v] => u = v
    /\ \A u \in UserIds : email[u] # Nobody => hasPass[u] \/ \E k \in KakaoIds : account[k] = u
    /\ \A j, k \in KakaoIds : account[j] # Nobody /\ account[j] = account[k] => j = k
    /\ \A s \in sessions : account[s.id] = s.user /\ ~Fresh(s.user)
=============================================================================
