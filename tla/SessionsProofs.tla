--------------------------- MODULE SessionsProofs ---------------------------
(***************************************************************************)
(* The safety of login sessions for any number of users, families, tokens  *)
(* and concurrent requests.                                                *)
(***************************************************************************)
EXTENDS Sessions, TLAPS

(* Only issued tokens are ever marked, and they belong to owned families.  *)
TokensSound ==
    /\ \A t \in used \cup revoked \cup expired : Issued(t)
    /\ \A t \in Tokens : Issued(t) => owner[family[t]] \in Users

(* A request that goes on has read the row it goes on with.                *)
RequestsSound ==
    \A p \in Requests :
        /\ op[p] \in {"rotate", "reuse"} =>
                token[p] \in Tokens /\ family[token[p]] \in Families
        /\ op[p] \in {"login", "password", "commit", "rename"} => user[p] \in Users

(* A set with the live token of a family has the whole family.             *)
Whole(S) == \A f \in Families : TokensOf(f) \ used \subseteq S => TokensOf(f) \subseteq S

(* What an open password change has found: whole families, and all of each *)
(* one it is about to end.                                                 *)
FoundSound ==
    \A p \in Requests :
        /\ \A t \in found[p] : Issued(t)
        /\ Whole(found[p])
        /\ op[p] = "commit" =>
                \A f \in doomed : owner[f] = user[p] => TokensOf(f) \subseteq found[p]

(* Only sessions in use are ended.                                         *)
EndSound == \A f \in ended \cup doomed : owner[f] # NoUser

TokensInv == TypeOK /\ TokensSound /\ RequestsSound /\ OneUnusedToken /\ RevocationCoversFamily

EndingInv == FoundSound /\ EndSound /\ EndedSessionsAreDead

Inv == TokensInv /\ EndingInv

(* Nothing is issued at first.                                             *)
LEMMA InitInv == Init => Inv
<1> SUFFICES ASSUME Init PROVE Inv
  OBVIOUS
<1> USE SessionsAssumption DEF Init
<1>1. TypeOK
  BY DEF TypeOK
<1>2. TokensSound /\ RequestsSound /\ OneUnusedToken
  BY DEF TokensSound, RequestsSound, Issued, OneUnusedToken
<1>3. RevocationCoversFamily
  BY DEF RevocationCoversFamily, TokensOf
<1>4. EndingInv
  BY DEF EndingInv, FoundSound, Whole, TokensOf, EndSound, EndedSessionsAreDead
<1> QED
  BY <1>1, <1>2, <1>3, <1>4 DEF Inv, TokensInv

(* Steps that touch no token row: the requests' reads, a refresh that      *)
(* loses, a request that fails, a rename.                                  *)
LEMMA TokensUntouched ==
  ASSUME TokensInv, UNCHANGED tokenVars, TypeOK', RequestsSound'
  PROVE  TokensInv'
<1>1. TokensSound'
  BY DEF TokensInv, TokensSound, Issued, tokenVars
<1>2. OneUnusedToken' /\ RevocationCoversFamily'
  BY DEF TokensInv, OneUnusedToken, RevocationCoversFamily, TokensOf, tokenVars
<1> QED
  BY <1>1, <1>2 DEF TokensInv

(* What Continue and Finish do to the requests.                            *)
LEMMA ContinueFacts ==
  ASSUME TypeOK, NEW p \in Requests, NEW o, NEW t, NEW u, NEW h, Continue(p, o, t, u, h)
  PROVE  /\ op'[p] = o /\ token'[p] = t /\ user'[p] = u /\ readHash'[p] = h
         /\ \A q \in Requests \ {p} :
                UNCHANGED <<op[q], token[q], user[q], readHash[q]>>
         /\ /\ o \in {"idle", "rotate", "reuse", "login", "password", "commit", "rename"}
            /\ t \in Tokens \cup {NoToken} /\ u \in Users \cup {NoUser}
            /\ h \in 0..MaxChanges
            => /\ op' \in [Requests -> {"idle", "rotate", "reuse", "login", "password", "commit", "rename"}]
               /\ token' \in [Requests -> Tokens \cup {NoToken}]
               /\ user' \in [Requests -> Users \cup {NoUser}]
               /\ readHash' \in [Requests -> 0..MaxChanges]
BY DEF TypeOK, Continue

(* A request that is over keeps the others as they are.                    *)
LEMMA FinishFacts ==
  ASSUME TypeOK, NEW p \in Requests, Finish(p)
  PROVE  /\ op'[p] = "idle"
         /\ \A q \in Requests \ {p} :
                UNCHANGED <<op[q], token[q], user[q], readHash[q]>>
         /\ op' \in [Requests -> {"idle", "rotate", "reuse", "login", "password", "commit", "rename"}]
         /\ token' \in [Requests -> Tokens \cup {NoToken}]
         /\ user' \in [Requests -> Users \cup {NoUser}]
         /\ readHash' \in [Requests -> 0..MaxChanges]
         /\ found' \in [Requests -> SUBSET Tokens]
         /\ found'[p] = {} /\ \A q \in Requests \ {p} : found'[q] = found[q]
BY ContinueFacts, SessionsAssumption DEF Finish, TypeOK

(* The first half of a request only reads.                                 *)
LEMMA ReadInv ==
  ASSUME TokensInv, NEW p \in Requests,
         \/ \E t \in Tokens : RefreshFind(p, t)
         \/ \E u \in Users :
                LoginVerify(p, u) \/ ChangePasswordVerify(p, u) \/ RenameRead(p, u)
  PROVE  TokensInv'
<1> USE SessionsAssumption
<1>1. UNCHANGED <<tokenVars, userVars, found, endVars>>
  BY DEF RefreshFind, LoginVerify, ChangePasswordVerify, RenameRead
<1>2. PICK o \in {"rotate", "reuse", "login", "password", "commit", "rename"},
           t \in Tokens \cup {NoToken}, u \in Users \cup {NoUser}, h \in 0..MaxChanges :
        /\ Continue(p, o, t, u, h)
        /\ o \in {"rotate", "reuse"} => t \in Tokens /\ Issued(t)
        /\ o \notin {"rotate", "reuse"} => u \in Users
  <2>1. CASE \E t \in Tokens : RefreshFind(p, t)
    BY <2>1 DEF RefreshFind, IsUsable
  <2>2. CASE \E u \in Users : LoginVerify(p, u)
    BY <2>2 DEF LoginVerify
  <2>3. CASE \E u \in Users : ChangePasswordVerify(p, u) \/ RenameRead(p, u)
    BY <2>3 DEF ChangePasswordVerify, RenameRead, TokensInv, TypeOK
  <2> QED
    BY <2>1, <2>2, <2>3
<1>3. TypeOK'
  BY <1>1, <1>2, ContinueFacts DEF TokensInv, TypeOK, tokenVars, userVars, endVars
<1>4. RequestsSound'
  <2> SUFFICES ASSUME NEW q \in Requests
      PROVE  /\ op'[q] \in {"rotate", "reuse"} =>
                    token'[q] \in Tokens /\ family'[token'[q]] \in Families
             /\ op'[q] \in {"login", "password", "commit", "rename"} => user'[q] \in Users
    BY DEF RequestsSound
  <2>1. family' = family
    BY <1>1 DEF tokenVars
  <2>2. CASE q = p
    BY <2>1, <2>2, <1>2, ContinueFacts DEF TokensInv, TypeOK, Issued
  <2>3. CASE q # p
    BY <2>1, <2>3, <1>2, ContinueFacts DEF TokensInv, RequestsSound
  <2> QED
    BY <2>2, <2>3
<1> QED
  BY <1>1, <1>3, <1>4, TokensUntouched

(* A request that ends without writing a token row.                        *)
LEMMA LeaveInv ==
  ASSUME TokensInv, NEW p \in Requests, RefreshLoses(p) \/ RenameWrite(p) \/ RequestFails(p)
  PROVE  TokensInv'
<1> USE SessionsAssumption
<1>1. /\ Finish(p) /\ UNCHANGED <<tokenVars, changes, ended>> /\ doomed' \subseteq doomed
      /\ password' \in [Users -> 0..MaxChanges]
  BY DEF RefreshLoses, RenameWrite, RequestFails, userVars, endVars, TokensInv, TypeOK
<1>2. TypeOK'
  BY <1>1, FinishFacts DEF TokensInv, TypeOK, tokenVars
<1>3. RequestsSound'
  BY <1>1, FinishFacts DEF TokensInv, RequestsSound, tokenVars
<1> QED
  BY <1>1, <1>2, <1>3, TokensUntouched

(* Every revocation takes whole families.                                  *)
LEMMA RevocationSound ==
  ASSUME TokensInv, UNCHANGED <<family, owner, used, expired>>,
         NEW F \in SUBSET Families,
         revoked' = revoked \cup {t \in Tokens : family[t] \in F}
  PROVE  /\ revoked' \subseteq Tokens /\ TokensSound'
         /\ OneUnusedToken' /\ RevocationCoversFamily'
<1> USE SessionsAssumption
<1>1. revoked' \subseteq Tokens
  BY DEF TokensInv, TypeOK
<1>2. TokensSound'
  BY DEF TokensInv, TypeOK, TokensSound, Issued
<1>3. OneUnusedToken'
  BY DEF TokensInv, OneUnusedToken, TokensOf
<1>4. RevocationCoversFamily'
  <2> SUFFICES ASSUME NEW f \in Families, TokensOf(f) \ used \subseteq revoked'
               PROVE  TokensOf(f) \subseteq revoked'
    BY DEF RevocationCoversFamily, TokensOf
  <2>1. CASE f \in F
    BY <2>1 DEF TokensOf
  <2>2. CASE f \notin F
    BY <2>2 DEF TokensInv, RevocationCoversFamily, TokensOf
  <2> QED
    BY <2>1, <2>2
<1> QED
  BY <1>1, <1>2, <1>3, <1>4

(* Logout, the remote logout of one session and of all.                    *)
LEMMA LogoutInv ==
  ASSUME TokensInv,
         \/ \E t \in Tokens : Logout(t)
         \/ \E u \in Users : LogoutAll(u) \/ \E f \in Families : RevokeSession(u, f)
  PROVE  TokensInv'
<1>1. PICK F \in SUBSET Families : RevokeOnly(revoked \cup {t \in Tokens : family[t] \in F}, F)
  <2>1. ASSUME NEW f \in Families, RevokeOnly(RevokeFamily(f), {f})
        PROVE  \E F \in SUBSET Families :
                    RevokeOnly(revoked \cup {t \in Tokens : family[t] \in F}, F)
    <3>1. RevokeFamily(f) = revoked \cup {t \in Tokens : family[t] \in {f}}
      BY DEF RevokeFamily, TokensOf
    <3> QED
      BY <2>1, <3>1
  <2>2. ASSUME NEW t \in Tokens, Logout(t) PROVE family[t] \in Families
    BY <2>2 DEF Logout, Issued, TokensInv, TypeOK
  <2>3. ASSUME NEW u \in Users, LogoutAll(u)
        PROVE  RevokeOnly(revoked \cup {t \in Tokens : family[t] \in FamiliesOf(u)},
                         FamiliesOf(u))
    <3>1. TokensOfUser(u) = {t \in Tokens : family[t] \in FamiliesOf(u)}
      BY DEF TokensOfUser, TokensOf
    <3> QED
      BY <2>3, <3>1 DEF LogoutAll
  <2>4. \A u \in Users : FamiliesOf(u) \in SUBSET Families
    BY DEF FamiliesOf
  <2> QED
    BY <2>1, <2>2, <2>3, <2>4 DEF Logout, RevokeSession
<1>2. /\ revoked' = revoked \cup {t \in Tokens : family[t] \in F}
      /\ UNCHANGED <<family, owner, used, expired, userVars, requestVars>>
      /\ ended' = ended \cup F /\ doomed' = doomed
  BY <1>1 DEF RevokeOnly, End
<1>3. RequestsSound'
  BY <1>2 DEF TokensInv, RequestsSound, requestVars
<1> QED
  BY <1>2, <1>3, RevocationSound DEF TokensInv, TypeOK, userVars, requestVars

(* Reuse detection revokes the family and ends its request.                *)
LEMMA ReuseInv ==
  ASSUME TokensInv, NEW p \in Requests, RefreshReuse(p)
  PROVE  TokensInv'
<1> USE SessionsAssumption
<1>1. PICK F \in SUBSET Families :
        /\ revoked' = revoked \cup {t \in Tokens : family[t] \in F}
        /\ ended' = ended \cup F
  <2>1. family[token[p]] \in Families
    BY DEF RefreshReuse, TokensInv, RequestsSound
  <2>2. revoked' = revoked \cup {t \in Tokens : family[t] \in {family[token[p]]}}
    BY DEF RefreshReuse, RevokeFamily, TokensOf
  <2> QED
    BY <2>1, <2>2 DEF RefreshReuse, End
<1>2. Finish(p) /\ UNCHANGED <<family, owner, used, expired, userVars, doomed>>
  BY DEF RefreshReuse, End
<1>3. RequestsSound'
  BY <1>2, FinishFacts DEF TokensInv, RequestsSound
<1> QED
  BY <1>1, <1>2, <1>3, FinishFacts, RevocationSound DEF TokensInv, TypeOK, userVars

(* The open transaction writes nothing others can see.                     *)
LEMMA ChangeFindsInv ==
  ASSUME TokensInv, NEW p \in Requests, ChangePasswordRevoke(p)
  PROVE  TokensInv'
<1>1. /\ op' = [op EXCEPT ![p] = "commit"] /\ op[p] = "password"
      /\ found' = [found EXCEPT ![p] = TokensOfUser(user[p])]
      /\ doomed' = doomed \cup FamiliesOf(user[p])
      /\ UNCHANGED <<tokenVars, userVars, token, user, readHash, ended>>
  BY DEF ChangePasswordRevoke
<1>2. TokensOfUser(user[p]) \subseteq Tokens /\ FamiliesOf(user[p]) \subseteq Families
  BY DEF TokensOfUser, FamiliesOf, TokensOf
<1>3. TypeOK'
  BY <1>1, <1>2 DEF TokensInv, TypeOK, tokenVars, userVars
<1>4. RequestsSound'
  BY <1>1 DEF TokensInv, TypeOK, RequestsSound, tokenVars
<1> QED
  BY <1>1, <1>3, <1>4, TokensUntouched

(* What the commit revokes was found as whole families, and a family has   *)
(* one live token at most: the union is made of whole families too.        *)
LEMMA ChangeCommitsInv ==
  ASSUME TokensInv, FoundSound, NEW p \in Requests, ChangePasswordCommit(p)
  PROVE  TokensInv'
<1> USE SessionsAssumption
<1>1. /\ Finish(p) /\ op[p] = "commit" /\ revoked' = revoked \cup found[p]
      /\ UNCHANGED <<family, owner, used, expired>>
  BY DEF ChangePasswordCommit
<1>2. TypeOK'
  <2>1. /\ revoked' \subseteq Tokens /\ ended' \subseteq Families /\ doomed' \subseteq Families
        /\ password' \in [Users -> 0..MaxChanges] /\ changes' \in [Users -> 0..MaxChanges]
    BY <1>1 DEF ChangePasswordCommit, TokensInv, TypeOK, RequestsSound
  <2> QED
    BY <1>1, <2>1, FinishFacts DEF TokensInv, TypeOK
<1>3. TokensSound'
  BY <1>1 DEF TokensInv, TypeOK, TokensSound, FoundSound, Issued
<1>4. RequestsSound'
  BY <1>1, FinishFacts DEF TokensInv, RequestsSound
<1>5. OneUnusedToken'
  BY <1>1 DEF TokensInv, OneUnusedToken, TokensOf
<1>6. RevocationCoversFamily'
  <2> SUFFICES ASSUME NEW f \in Families, TokensOf(f) \ used \subseteq revoked'
               PROVE  TokensOf(f) \subseteq revoked'
    BY <1>1 DEF RevocationCoversFamily, TokensOf
  <2>1. CASE owner[f] # NoUser
    <3>1. PICK t \in TokensOf(f) : TokensOf(f) \ used = {t}
      BY <2>1 DEF TokensInv, OneUnusedToken
    <3>2. t \in revoked \/ t \in found[p]
      BY <1>1, <3>1
    <3> QED
      BY <1>1, <3>1, <3>2 DEF TokensInv, RevocationCoversFamily, FoundSound, Whole
  <2>2. CASE owner[f] = NoUser
    BY <2>2 DEF TokensInv, TokensSound, TokensOf, Issued
  <2> QED
    BY <2>1, <2>2
<1> QED
  BY <1>2, <1>3, <1>4, <1>5, <1>6 DEF TokensInv

(* The winner of the compare-and-set consumes the one unused token of the  *)
(* family and issues the next: the chain goes on.                          *)
LEMMA RotateInv ==
  ASSUME TokensInv, NEW p \in Requests, RefreshRotate(p)
  PROVE  TokensInv'
<1> USE SessionsAssumption
<1>1. PICK old \in Tokens, g \in Families, new \in Tokens :
        /\ old = token[p] /\ g = family[old]
        /\ ~Issued(new) /\ family' = [family EXCEPT ![new] = g]
  BY DEF RefreshRotate, TokensInv, RequestsSound
<1>2. /\ op[p] = "rotate" /\ old \notin used /\ used' = used \cup {old} /\ Finish(p)
      /\ ended' \subseteq ended /\ doomed' \subseteq doomed
      /\ UNCHANGED <<owner, revoked, expired, userVars>>
  BY <1>1 DEF RefreshRotate, MarkUsedWins, Overtake
<1>3. owner[g] \in Users
  BY <1>1 DEF TokensInv, TokensSound, Issued
<1>4. new \notin used \cup revoked \cup expired /\ new # old
  BY <1>1 DEF TokensInv, TokensSound, Issued
<1>5. /\ TokensOf(g)' = TokensOf(g) \cup {new}
      /\ \A f \in Families \ {g} : TokensOf(f)' = TokensOf(f)
      /\ \A t \in Tokens \ {new} : family'[t] = family[t]
      /\ family'[new] = g
  BY <1>1 DEF TokensInv, TypeOK, TokensOf, Issued
<1>6. TypeOK'
  BY <1>1, <1>2, FinishFacts DEF TokensInv, TypeOK, userVars
<1>7. TokensSound'
  BY <1>1, <1>2, <1>3, <1>5 DEF TokensInv, TokensSound, Issued, TypeOK
<1>8. RequestsSound'
  <2> SUFFICES ASSUME NEW q \in Requests \ {p}
      PROVE  op[q] \in {"rotate", "reuse"} =>
                    token[q] \in Tokens /\ family'[token[q]] \in Families
    BY <1>2, FinishFacts DEF TokensInv, RequestsSound
  <2> QED
    BY <1>1, <1>5 DEF TokensInv, RequestsSound
<1>9. OneUnusedToken'
  <2> SUFFICES ASSUME NEW f \in Families, owner[f] # NoUser
               PROVE  \E t \in TokensOf(f)' : TokensOf(f)' \ used' = {t}
    BY <1>2 DEF OneUnusedToken
  <2>1. PICK t \in TokensOf(f) : TokensOf(f) \ used = {t}
    BY DEF TokensInv, OneUnusedToken
  <2>2. CASE f = g
    <3>1. t = old
      BY <2>1, <2>2, <1>1, <1>2 DEF TokensOf
    <3> QED
      BY <3>1, <2>1, <2>2, <1>2, <1>4, <1>5
  <2>3. CASE f # g
    <3>1. old \notin TokensOf(f)
      BY <2>3, <1>1 DEF TokensOf
    <3> QED
      BY <3>1, <2>1, <2>3, <1>2, <1>5
  <2> QED
    BY <2>2, <2>3
<1>10. RevocationCoversFamily'
  <2> SUFFICES ASSUME NEW f \in Families, TokensOf(f)' \ used' \subseteq revoked
               PROVE  TokensOf(f)' \subseteq revoked
    BY <1>2 DEF RevocationCoversFamily
  <2>1. f # g
    BY <1>2, <1>4, <1>5
  <2>2. TokensOf(f)' = TokensOf(f) /\ old \notin TokensOf(f)
    BY <2>1, <1>1, <1>5 DEF TokensOf
  <2> QED
    BY <2>2, <1>2 DEF TokensInv, RevocationCoversFamily
<1> QED
  BY <1>6, <1>7, <1>8, <1>9, <1>10 DEF TokensInv

(* A login starts a family with its first token.                           *)
LEMMA IssueInv ==
  ASSUME TokensInv, NEW p \in Requests, LoginIssue(p)
  PROVE  TokensInv'
<1> USE SessionsAssumption
<1>1. PICK g \in Families, new \in Tokens :
        /\ owner[g] = NoUser /\ ~Issued(new)
        /\ owner' = [owner EXCEPT ![g] = user[p]]
        /\ family' = [family EXCEPT ![new] = g]
  BY DEF LoginIssue
<1>2. /\ user[p] \in Users /\ Finish(p)
      /\ UNCHANGED <<used, revoked, expired, userVars, ended, doomed>>
  BY DEF LoginIssue, endVars, TokensInv, RequestsSound
<1>3. new \notin used \cup revoked \cup expired
  BY <1>1 DEF TokensInv, TokensSound
<1>4. TokensOf(g) = {}
  BY <1>1 DEF TokensInv, TokensSound, TokensOf, Issued
<1>5. /\ TokensOf(g)' = {new}
      /\ \A f \in Families \ {g} : TokensOf(f)' = TokensOf(f) /\ owner'[f] = owner[f]
      /\ \A t \in Tokens \ {new} : family'[t] = family[t] /\ family[t] # g
      /\ family'[new] = g /\ owner'[g] \in Users
  BY <1>1, <1>2, <1>4 DEF TokensInv, TypeOK, TokensOf, Issued
<1>6. TypeOK'
  BY <1>1, <1>2, FinishFacts DEF TokensInv, TypeOK, userVars
<1>7. TokensSound'
  <2>1. \A t \in used \cup revoked \cup expired : Issued(t)'
    BY <1>2, <1>3, <1>5 DEF TokensInv, TypeOK, TokensSound, Issued
  <2>2. \A t \in Tokens : Issued(t)' => owner'[family'[t]] \in Users
    BY <1>5 DEF TokensInv, TypeOK, TokensSound, Issued
  <2> QED
    BY <2>1, <2>2, <1>2 DEF TokensSound
<1>8. RequestsSound'
  <2> SUFFICES ASSUME NEW q \in Requests \ {p}
      PROVE  op[q] \in {"rotate", "reuse"} =>
                    token[q] \in Tokens /\ family'[token[q]] \in Families
    BY <1>2, FinishFacts DEF TokensInv, RequestsSound
  <2> QED
    BY <1>5 DEF TokensInv, RequestsSound
<1>9. OneUnusedToken'
  <2> SUFFICES ASSUME NEW f \in Families, owner'[f] # NoUser
               PROVE  \E t \in TokensOf(f)' : TokensOf(f)' \ used = {t}
    BY <1>2 DEF OneUnusedToken
  <2> QED
    BY <1>3, <1>5 DEF TokensInv, OneUnusedToken
<1>10. RevocationCoversFamily'
  BY <1>2, <1>3, <1>5 DEF TokensInv, RevocationCoversFamily
<1> QED
  BY <1>6, <1>7, <1>8, <1>9, <1>10 DEF TokensInv

(* Expiry does not enter the chain.                                        *)
LEMMA ExpireInv == ASSUME TokensInv, NEW t \in Tokens, Expire(t) PROVE TokensInv'
<1>1. /\ Issued(t) /\ expired' = expired \cup {t}
      /\ UNCHANGED <<family, owner, used, revoked, userVars, requestVars, ended, doomed>>
  BY DEF Expire, IsUsable, endVars
<1>2. TypeOK' /\ RequestsSound'
  BY <1>1 DEF TokensInv, TypeOK, RequestsSound, userVars, requestVars
<1>3. TokensSound'
  BY <1>1 DEF TokensInv, TokensSound, Issued
<1>4. OneUnusedToken' /\ RevocationCoversFamily'
  BY <1>1 DEF TokensInv, OneUnusedToken, RevocationCoversFamily, TokensOf
<1> QED
  BY <1>2, <1>3, <1>4 DEF TokensInv

-----------------------------------------------------------------------------
(* What an open password change found, and what has been ended             *)

(* Steps that issue no token and open no transaction: who ends a session   *)
(* has revoked all its tokens.                                             *)
LEMMA EndingKept ==
  ASSUME TokensInv, EndingInv,
         UNCHANGED <<family, owner, used>>, revoked \subseteq revoked', expired \subseteq expired',
         doomed' \subseteq doomed,
         \A f \in ended' \ ended : owner[f] # NoUser /\ TokensOf(f) \subseteq revoked',
         \A q \in Requests :
            /\ found'[q] \in {found[q], {}}
            /\ op'[q] = "commit" => UNCHANGED <<op[q], user[q], found[q]>>
  PROVE  EndingInv'
<1>1. FoundSound'
  <2>1. Whole({})
    BY SessionsAssumption DEF TokensInv, OneUnusedToken, TokensSound, Whole, TokensOf, Issued
  <2>2. \A q \in Requests : Whole(found'[q]) /\ \A t \in found'[q] : Issued(t)
    BY <2>1 DEF EndingInv, FoundSound
  <2>3. \A q \in Requests : op'[q] = "commit" =>
          \A f \in doomed' : owner[f] = user'[q] => TokensOf(f) \subseteq found'[q]
    BY DEF EndingInv, FoundSound
  <2>4. \A S : Whole(S)' = Whole(S)
    BY DEF Whole, TokensOf
  <2> QED
    BY <2>2, <2>3, <2>4 DEF FoundSound, Whole, TokensOf, Issued
<1>2. EndSound'
  BY DEF EndingInv, EndSound
<1>3. EndedSessionsAreDead'
  BY DEF EndingInv, EndedSessionsAreDead, Active, TokensOf
<1> QED
  BY <1>1, <1>2, <1>3 DEF EndingInv

(* A token that is in nobody's hands yet joins the family g, which no end  *)
(* is on record for (any more).                                            *)
LEMMA EndingIssued ==
  ASSUME TokensInv, EndingInv, NEW p \in Requests, Finish(p), op[p] # "commit",
         NEW g \in Families, NEW new \in Tokens, ~Issued(new),
         family' = [family EXCEPT ![new] = g], new \notin used',
         \A f \in Families \ {g} : owner'[f] = owner[f] /\ TokensOf(f) \ used' = TokensOf(f) \ used,
         UNCHANGED <<revoked, expired>>, used \subseteq used',
         ended' = ended \ {g}, doomed' = doomed \ {g}
  PROVE  EndingInv'
<1> USE SessionsAssumption
<1>1. /\ TokensOf(g)' = TokensOf(g) \cup {new}
      /\ \A f \in Families \ {g} : TokensOf(f)' = TokensOf(f)
      /\ \A t \in Tokens \ {new} : family'[t] = family[t]
  BY DEF TokensInv, TypeOK, TokensOf, Issued
<1>2. ended \cup doomed \subseteq Families /\ TypeOK
  BY DEF TokensInv, TypeOK
<1>3. FoundSound'
  <2> SUFFICES ASSUME NEW q \in Requests
      PROVE  /\ \A t \in found'[q] : Issued(t)'
             /\ \A f \in Families : TokensOf(f)' \ used' \subseteq found'[q] =>
                    TokensOf(f)' \subseteq found'[q]
             /\ op'[q] = "commit" =>
                    \A f \in doomed' : owner'[f] = user'[q] => TokensOf(f)' \subseteq found'[q]
    BY DEF FoundSound, Whole
  <2>1. CASE q = p
    <3>1. found'[q] = {} /\ op'[q] = "idle"
      BY <1>2, <2>1, FinishFacts
    <3>2. ASSUME NEW f \in Families, TokensOf(f)' \ used' = {} PROVE TokensOf(f)' = {}
      <4>1. f # g
        BY <3>2, <1>1
      <4>2. TokensOf(f) \ used = {}
        BY <3>2, <4>1, <1>1
      <4>3. owner[f] = NoUser
        BY <4>2 DEF TokensInv, OneUnusedToken
      <4> QED
        BY <4>1, <4>3, <1>1 DEF TokensInv, TokensSound, TokensOf, Issued
    <3> QED
      BY <3>1, <3>2
  <2>2. CASE q # p
    <3>1. found'[q] = found[q] /\ op'[q] = op[q] /\ user'[q] = user[q]
      BY <1>2, <2>2, FinishFacts
    <3>2. new \notin found[q] /\ found[q] \subseteq Tokens
      BY <1>2 DEF EndingInv, FoundSound, TypeOK
    <3>3. \A t \in found[q] : Issued(t)'
      BY <3>2, <1>1 DEF EndingInv, FoundSound, Issued
    <3>4. ASSUME NEW f \in Families, TokensOf(f)' \ used' \subseteq found[q]
          PROVE  TokensOf(f)' \subseteq found[q]
      <4>1. f # g
        BY <3>4, <3>2, <1>1
      <4>2. TokensOf(f) \ used \subseteq found[q]
        BY <3>4, <4>1, <1>1
      <4> QED
        BY <4>1, <4>2, <1>1 DEF EndingInv, FoundSound, Whole
    <3>5. ASSUME op[q] = "commit", NEW f \in doomed', owner'[f] = user[q]
          PROVE  TokensOf(f)' \subseteq found[q]
      <4>1. f \in doomed /\ f \in Families \ {g} /\ owner[f] = user[q]
        BY <3>5, <1>2
      <4> QED
        BY <3>5, <4>1, <1>1 DEF EndingInv, FoundSound
    <3> QED
      BY <3>1, <3>3, <3>4, <3>5
  <2> QED
    BY <2>1, <2>2
<1>4. EndSound'
  BY <1>2 DEF EndingInv, EndSound
<1>5. EndedSessionsAreDead'
  <2> SUFFICES ASSUME NEW f \in ended' PROVE TokensOf(f)' \ (used' \cup revoked \cup expired) = {}
    BY DEF EndedSessionsAreDead, Active
  <2>1. f \in ended /\ f \in Families \ {g}
    BY <1>2
  <2> QED
    BY <2>1, <1>1 DEF EndingInv, EndedSessionsAreDead, Active
<1> QED
  BY <1>3, <1>4, <1>5 DEF EndingInv

(* The transaction of a password change opens: it finds all of the user's. *)
LEMMA EndingFound ==
  ASSUME TokensInv, EndingInv, NEW p \in Requests, ChangePasswordRevoke(p)
  PROVE  EndingInv'
<1> USE SessionsAssumption
<1> DEFINE u == user[p]
<1>1. /\ found' = [found EXCEPT ![p] = TokensOfUser(u)]
      /\ doomed' = doomed \cup FamiliesOf(u) /\ op' = [op EXCEPT ![p] = "commit"]
      /\ UNCHANGED <<family, owner, used, revoked, expired, user, ended>>
      /\ \A q \in Requests \ {p} : op[q] = "commit" => user[q] # u
      /\ u \in Users /\ TypeOK
  BY DEF ChangePasswordRevoke, tokenVars, RowLocked, TokensInv, RequestsSound
<1>2. \A f : f \in FamiliesOf(u) <=> f \in Families /\ owner[f] = u
  BY DEF FamiliesOf
<1>3. \A f \in FamiliesOf(u) : TokensOf(f) \subseteq TokensOfUser(u)
  BY DEF TokensOfUser
<1>4. \A t \in TokensOfUser(u) : Issued(t) /\ family[t] \in FamiliesOf(u)
  BY <1>2 DEF TokensOfUser, TokensOf, Issued
<1>5. Whole(TokensOfUser(u))
  <2> SUFFICES ASSUME NEW f \in Families, TokensOf(f) \ used \subseteq TokensOfUser(u)
               PROVE  TokensOf(f) \subseteq TokensOfUser(u)
    BY DEF Whole
  <2>1. CASE owner[f] # NoUser
    <3>1. PICK t \in TokensOf(f) : TokensOf(f) \ used = {t}
      BY <2>1 DEF TokensInv, OneUnusedToken
    <3>2. family[t] = f /\ t \in TokensOfUser(u)
      BY <3>1 DEF TokensOf
    <3> QED
      BY <3>2, <1>3, <1>4
  <2>2. CASE owner[f] = NoUser
    BY <2>2 DEF TokensInv, TokensSound, TokensOf, Issued
  <2> QED
    BY <2>1, <2>2
<1>6. FoundSound'
  <2> SUFFICES ASSUME NEW q \in Requests
      PROVE  /\ \A t \in found'[q] : Issued(t)
             /\ Whole(found'[q])
             /\ op'[q] = "commit" =>
                    \A f \in doomed' : owner[f] = user[q] => TokensOf(f) \subseteq found'[q]
    BY <1>1 DEF FoundSound, Whole, TokensOf, Issued
  <2>1. CASE q = p
    <3>1. found'[q] = TokensOfUser(u)
      BY <1>1, <2>1 DEF TypeOK
    <3>2. \A f \in doomed' : f \in Families
      BY <1>1, <1>2 DEF TypeOK
    <3> QED
      BY <3>1, <3>2, <2>1, <1>2, <1>3, <1>4, <1>5
  <2>2. CASE q # p
    <3>1. found'[q] = found[q] /\ op'[q] = op[q]
      BY <1>1, <2>2 DEF TypeOK
    <3>2. op[q] = "commit" => \A f \in FamiliesOf(u) : owner[f] # user[q]
      BY <1>1, <1>2, <2>2
    <3> QED
      BY <3>1, <3>2, <1>1 DEF EndingInv, FoundSound
  <2> QED
    BY <2>1, <2>2
<1>7. EndSound'
  BY <1>1, <1>2 DEF EndingInv, EndSound
<1>8. EndedSessionsAreDead'
  BY <1>1 DEF EndingInv, EndedSessionsAreDead, Active, TokensOf
<1> QED
  BY <1>6, <1>7, <1>8 DEF EndingInv

(* Every step of a request keeps what it found and what has been ended.    *)
LEMMA EndingRequest ==
  ASSUME TokensInv, EndingInv, NEW p \in Requests, RequestStep(p)
  PROVE  EndingInv'
<1> USE SessionsAssumption
<1>1. TypeOK
  BY DEF TokensInv
<1>2. ASSUME \/ \E t \in Tokens : RefreshFind(p, t)
             \/ \E u \in Users :
                    LoginVerify(p, u) \/ ChangePasswordVerify(p, u) \/ RenameRead(p, u)
      PROVE  EndingInv'
  <2>1. UNCHANGED <<tokenVars, found, endVars>>
    BY <1>2 DEF RefreshFind, LoginVerify, ChangePasswordVerify, RenameRead
  <2>2. /\ op'[p] # "commit"
        /\ \A q \in Requests \ {p} : UNCHANGED <<op[q], user[q]>>
    BY <1>1, <1>2, ContinueFacts DEF RefreshFind, LoginVerify, ChangePasswordVerify, RenameRead
  <2> QED
    BY <2>1, <2>2, EndingKept DEF tokenVars, endVars
<1>3. ASSUME Finish(p), UNCHANGED <<family, owner, used, expired>>,
             revoked \subseteq revoked', doomed' \subseteq doomed,
             \A f \in ended' \ ended : owner[f] # NoUser /\ TokensOf(f) \subseteq revoked'
      PROVE  EndingInv'
  <2>1. /\ op'[p] # "commit" /\ found'[p] = {}
        /\ \A q \in Requests \ {p} : UNCHANGED <<op[q], user[q], found[q]>>
    BY <1>1, <1>3, FinishFacts
  <2> QED
    BY <1>3, <2>1, EndingKept
<1>4. CASE RefreshReuse(p)
  <2>1. token[p] \in Tokens /\ family[token[p]] \in Families
    BY <1>4 DEF RefreshReuse, TokensInv, RequestsSound
  <2>2. owner[family[token[p]]] # NoUser
    BY <2>1 DEF TokensInv, TokensSound, Issued
  <2>3. /\ Finish(p) /\ UNCHANGED <<family, owner, used, expired, doomed>>
        /\ revoked' = revoked \cup TokensOf(family[token[p]])
        /\ ended' = ended \cup {family[token[p]]}
    BY <1>4 DEF RefreshReuse, End, RevokeFamily
  <2> QED
    BY <2>2, <2>3, <1>3
<1>5. CASE ChangePasswordCommit(p)
  <2>1. \A f \in doomed \cap FamiliesOf(user[p]) :
          f \in Families /\ owner[f] # NoUser /\ TokensOf(f) \subseteq found[p]
    BY <1>5 DEF ChangePasswordCommit, EndingInv, FoundSound, EndSound, FamiliesOf
  <2> QED
    BY <1>5, <2>1, <1>3 DEF ChangePasswordCommit
<1>6. CASE RefreshLoses(p) \/ RenameWrite(p) \/ RequestFails(p)
  <2>1. /\ Finish(p) /\ UNCHANGED <<family, owner, used, expired, revoked, ended>>
        /\ doomed' \subseteq doomed
    BY <1>6 DEF RefreshLoses, RenameWrite, RequestFails, tokenVars, endVars
  <2> QED
    BY <2>1, <1>3
<1>7. CASE RefreshRotate(p)
  <2>1. PICK old \in Tokens, g \in Families, new \in Tokens :
          /\ old = token[p] /\ g = family[old] /\ ~Issued(new)
          /\ family' = [family EXCEPT ![new] = g]
    BY <1>7 DEF RefreshRotate, TokensInv, RequestsSound
  <2>2. new \notin used /\ new # old
    BY <2>1 DEF TokensInv, TokensSound, Issued
  <2>3. \A f \in Families \ {g} : old \notin TokensOf(f)
    BY <2>1 DEF TokensOf
  <2>4. /\ Finish(p) /\ op[p] # "commit" /\ used' = used \cup {old}
        /\ UNCHANGED <<owner, revoked, expired>>
        /\ ended' = ended \ {g} /\ doomed' = doomed \ {g}
    BY <1>7, <2>1 DEF RefreshRotate, Overtake
  <2>5. \A f \in Families \ {g} : owner'[f] = owner[f] /\ TokensOf(f) \ used' = TokensOf(f) \ used
    BY <2>3, <2>4
  <2> QED
    BY <2>1, <2>2, <2>4, <2>5, EndingIssued
<1>8. CASE LoginIssue(p)
  <2>1. PICK g \in Families, new \in Tokens :
          /\ owner[g] = NoUser /\ ~Issued(new)
          /\ owner' = [owner EXCEPT ![g] = user[p]]
          /\ family' = [family EXCEPT ![new] = g]
    BY <1>8 DEF LoginIssue
  <2>2. new \notin used /\ g \notin ended \cup doomed
    BY <2>1 DEF TokensInv, TokensSound, EndingInv, EndSound
  <2>3. \A f \in Families \ {g} : owner'[f] = owner[f]
    BY <2>1, <1>1 DEF TypeOK
  <2>4. /\ Finish(p) /\ op[p] # "commit" /\ UNCHANGED <<used, revoked, expired, ended, doomed>>
    BY <1>8 DEF LoginIssue, endVars
  <2>5. \A f \in Families \ {g} : owner'[f] = owner[f] /\ TokensOf(f) \ used' = TokensOf(f) \ used
    BY <2>3, <2>4
  <2>6. ended' = ended \ {g} /\ doomed' = doomed \ {g}
    BY <2>2, <2>4
  <2> QED
    BY <2>1, <2>2, <2>4, <2>5, <2>6, EndingIssued
<1> QED
  BY <1>2, <1>4, <1>5, <1>6, <1>7, <1>8, EndingFound DEF RequestStep

(* A logout ends what it revokes; expiry ends nothing.                     *)
LEMMA EndingOthers ==
  ASSUME TokensInv, EndingInv,
         \/ \E t \in Tokens : Logout(t) \/ Expire(t)
         \/ \E u \in Users : LogoutAll(u) \/ \E f \in Families : RevokeSession(u, f)
  PROVE  EndingInv'
<1> USE SessionsAssumption
<1>1. ASSUME NEW r, NEW F, RevokeOnly(r, F), revoked \subseteq r,
             \A f \in F : owner[f] # NoUser /\ TokensOf(f) \subseteq r
      PROVE  EndingInv'
  BY <1>1, EndingKept DEF RevokeOnly, End, requestVars
<1>2. ASSUME NEW t \in Tokens, Logout(t) PROVE EndingInv'
  <2>1. family[t] \in Families /\ owner[family[t]] # NoUser
    BY <1>2 DEF Logout, TokensInv, TypeOK, TokensSound, Issued
  <2> QED
    BY <1>1, <1>2, <2>1 DEF Logout, RevokeFamily
<1>3. ASSUME NEW u \in Users, LogoutAll(u) PROVE EndingInv'
  <2>1. \A f \in FamiliesOf(u) : f \in Families /\ owner[f] # NoUser
    BY DEF FamiliesOf
  <2>2. \A f \in FamiliesOf(u) : TokensOf(f) \subseteq TokensOfUser(u)
    BY DEF TokensOfUser
  <2> QED
    BY <1>1, <1>3, <2>1, <2>2 DEF LogoutAll
<1>4. ASSUME NEW u \in Users, NEW f \in Families, RevokeSession(u, f) PROVE EndingInv'
  BY <1>1, <1>4 DEF RevokeSession, RevokeFamily
<1>5. ASSUME NEW t \in Tokens, Expire(t) PROVE EndingInv'
  <2>1. UNCHANGED <<family, owner, used, revoked, op, user, found, ended, doomed>> /\ expired \subseteq expired'
    BY <1>5 DEF Expire, requestVars, endVars
  <2> QED
    BY <2>1, EndingKept
<1> QED
  BY <1>2, <1>3, <1>4, <1>5

(* The invariant is inductive.                                             *)
THEOREM StepInv == Inv /\ [Next]_vars => Inv'
<1> SUFFICES ASSUME Inv, [Next]_vars PROVE Inv'
  OBVIOUS
<1>1. CASE UNCHANGED vars
  <2>1. UNCHANGED <<tokenVars, userVars, requestVars>>
    BY <1>1 DEF vars
  <2>2. TypeOK' /\ RequestsSound'
    BY <2>1, <1>1 DEF Inv, TokensInv, TypeOK, RequestsSound, tokenVars, userVars, requestVars,
                      endVars, vars
  <2>3. TokensInv'
    BY <2>1, <2>2, TokensUntouched DEF Inv
  <2>4. EndingInv'
    BY <1>1, EndingKept
    DEF vars, tokenVars, requestVars, endVars, Inv
  <2> QED
    BY <2>3, <2>4 DEF Inv
<1>2. ASSUME NEW p \in Requests, RequestStep(p) PROVE Inv'
  <2>1. TokensInv'
    BY <1>2, ReadInv, LeaveInv, ReuseInv, ChangeFindsInv, ChangeCommitsInv, RotateInv, IssueInv
    DEF RequestStep, Inv, EndingInv
  <2> QED
    BY <1>2, <2>1, EndingRequest DEF Inv
<1>3. ASSUME \/ \E t \in Tokens : Logout(t) \/ Expire(t)
             \/ \E u \in Users : LogoutAll(u) \/ \E f \in Families : RevokeSession(u, f)
      PROVE  Inv'
  BY <1>3, LogoutInv, ExpireInv, EndingOthers DEF Inv
<1> QED
  BY <1>1, <1>2, <1>3 DEF Next

(* The inductive invariant holds of every behaviour.                       *)
THEOREM Invariant == Spec => []Inv
BY InitInv, StepInv, PTL DEF Spec

(* Every variable of the session model keeps its type.                     *)
THEOREM TypeCorrect == Spec => []TypeOK
<1>1. Inv => TypeOK
  BY DEF Inv, TokensInv
<1> QED
  BY <1>1, Invariant, PTL

(* A session in use always has exactly one token that is not consumed,     *)
(* whatever refreshes of it race, lose or fail.                            *)
THEOREM RotationKeepsChain == Spec => []OneUnusedToken
<1>1. Inv => OneUnusedToken
  BY DEF Inv, TokensInv
<1> QED
  BY <1>1, Invariant, PTL

(* A revocation that reaches the token in circulation reached all of its   *)
(* family.                                                                 *)
THEOREM RevocationIsWhole == Spec => []RevocationCoversFamily
<1>1. Inv => RevocationCoversFamily
  BY DEF Inv, TokensInv
<1> QED
  BY <1>1, Invariant, PTL

(* A session that was ended has no live token, unless a rotation that had  *)
(* read before overtook the end.                                           *)
THEOREM EndedForGood == Spec => []EndedSessionsAreDead
<1>1. Inv => EndedSessionsAreDead
  BY DEF Inv, EndingInv
<1> QED
  BY <1>1, Invariant, PTL

-----------------------------------------------------------------------------
(* Sessions that are over                                                  *)

(* A step that gives the family no new token, unmarks none and starts no   *)
(* rotation in it leaves it over.                                          *)
LEMMA StaysOver ==
  ASSUME NEW f \in Families, Over(f),
         owner'[f] = owner[f], TokensOf(f)' = TokensOf(f),
         used \subseteq used', revoked \subseteq revoked', expired \subseteq expired',
         \A q \in Requests : op'[q] = "rotate" /\ family'[token'[q]] = f =>
                                op[q] = "rotate" /\ family[token[q]] = f
  PROVE  Over(f)'
<1>1. ~Active(f)'
  BY DEF Over, Active
<1>2. ~InFlight(f)'
  BY DEF Over, InFlight
<1> QED
  BY <1>1, <1>2 DEF Over

(* No request revives a session that is over: only a usable token starts a *)
(* rotation, and only a rotation in flight adds a token to a family.       *)
LEMMA OverStep ==
  ASSUME Inv, Next, NEW f \in Families, Over(f)
  PROVE  Over(f)'
<1> USE SessionsAssumption
<1>1. TypeOK /\ owner[f] # NoUser /\ ~InFlight(f)
      /\ TokensOf(f) \ (used \cup revoked \cup expired) = {}
  BY DEF Inv, TokensInv, Over, Active
<1>2. ASSUME NEW p \in Requests, NEW t \in Tokens, RefreshFind(p, t) PROVE Over(f)'
  <2>1. UNCHANGED tokenVars
    BY <1>2 DEF RefreshFind
  <2>2. op'[p] = "rotate" => token'[p] = t /\ IsUsable(t)
    BY <1>1, <1>2, ContinueFacts DEF RefreshFind
  <2>3. IsUsable(t) => family[t] # f
    BY <1>1 DEF IsUsable, TokensOf
  <2>4. \A q \in Requests \ {p} : op'[q] = op[q] /\ token'[q] = token[q]
    BY <1>1, <1>2, ContinueFacts DEF RefreshFind
  <2>5. \A q \in Requests : op'[q] = "rotate" /\ family'[token'[q]] = f =>
                                op[q] = "rotate" /\ family[token[q]] = f
    BY <2>1, <2>2, <2>3, <2>4 DEF tokenVars
  <2> QED
    BY <2>1, <2>5, StaysOver DEF tokenVars, TokensOf
<1>3. ASSUME NEW p \in Requests, NEW u \in Users,
             LoginVerify(p, u) \/ ChangePasswordVerify(p, u) \/ RenameRead(p, u)
      PROVE  Over(f)'
  <2>1. UNCHANGED tokenVars
    BY <1>3 DEF LoginVerify, ChangePasswordVerify, RenameRead
  <2>2. /\ op'[p] # "rotate"
        /\ \A q \in Requests \ {p} : op'[q] = op[q] /\ token'[q] = token[q]
    BY <1>1, <1>3, ContinueFacts DEF LoginVerify, ChangePasswordVerify, RenameRead
  <2> QED
    BY <2>1, <2>2, StaysOver DEF tokenVars, TokensOf
<1>4. ASSUME NEW p \in Requests,
             \/ RefreshLoses(p) \/ RenameWrite(p) \/ RequestFails(p)
             \/ RefreshReuse(p) \/ ChangePasswordCommit(p)
      PROVE  Over(f)'
  <2>1. /\ Finish(p) /\ UNCHANGED <<family, owner, used, expired>>
        /\ revoked \subseteq revoked'
    BY <1>4 DEF RefreshLoses, RenameWrite, RequestFails, RefreshReuse, RevokeFamily,
                ChangePasswordCommit, tokenVars
  <2>2. /\ op'[p] # "rotate"
        /\ \A q \in Requests \ {p} : op'[q] = op[q] /\ token'[q] = token[q]
    BY <1>1, <2>1, FinishFacts
  <2> QED
    BY <2>1, <2>2, StaysOver DEF TokensOf
<1>7. ASSUME NEW p \in Requests, ChangePasswordRevoke(p) PROVE Over(f)'
  <2>1. UNCHANGED <<tokenVars, token>>
    BY <1>7 DEF ChangePasswordRevoke
  <2>2. op'[p] # "rotate" /\ \A q \in Requests \ {p} : op'[q] = op[q]
    BY <1>1, <1>7 DEF ChangePasswordRevoke, TypeOK
  <2> QED
    BY <2>1, <2>2, StaysOver DEF tokenVars, TokensOf
<1>5. ASSUME NEW p \in Requests, RefreshRotate(p) \/ LoginIssue(p) PROVE Over(f)'
  <2>1. PICK g \in Families, new \in Tokens :
          /\ ~Issued(new) /\ family' = [family EXCEPT ![new] = g]
          /\ g # f /\ owner'[f] = owner[f]
    <3>1. CASE RefreshRotate(p)
      <4>1. family[token[p]] \in Families /\ family[token[p]] # f
        BY <3>1, <1>1 DEF RefreshRotate, InFlight, Inv, TokensInv, RequestsSound
      <4> QED
        BY <3>1, <4>1 DEF RefreshRotate
    <3>2. CASE LoginIssue(p)
      BY <3>2, <1>1 DEF LoginIssue, TypeOK
    <3> QED
      BY <1>5, <3>1, <3>2
  <2>2. Finish(p) /\ used \subseteq used' /\ UNCHANGED <<revoked, expired>>
    BY <1>5 DEF RefreshRotate, LoginIssue
  <2>3. TokensOf(f)' = TokensOf(f)
    BY <2>1, <1>1 DEF TypeOK, TokensOf, Issued
  <2>4. \A q \in Requests : op'[q] = "rotate" =>
          op[q] = "rotate" /\ token'[q] = token[q] /\ family'[token[q]] = family[token[q]]
    <3>1. \A q \in Requests \ {p} : op'[q] = op[q] /\ token'[q] = token[q]
      BY <1>1, <2>2, FinishFacts
    <3>2. op'[p] # "rotate"
      BY <1>1, <2>2, FinishFacts
    <3>3. \A q \in Requests : op[q] = "rotate" => Issued(token[q]) /\ token[q] \in Tokens
      BY DEF Inv, TokensInv, RequestsSound, Issued
    <3> QED
      BY <3>1, <3>2, <3>3, <2>1, <1>1 DEF TypeOK
  <2> QED
    BY <2>1, <2>2, <2>3, <2>4, StaysOver
<1>6. ASSUME \/ \E t \in Tokens : Logout(t) \/ Expire(t)
             \/ \E u \in Users : LogoutAll(u) \/ \E g \in Families : RevokeSession(u, g)
      PROVE  Over(f)'
  <2>1. /\ UNCHANGED <<family, owner, used, requestVars>>
        /\ revoked \subseteq revoked' /\ expired \subseteq expired'
    BY <1>6 DEF Logout, Expire, LogoutAll, RevokeSession, RevokeOnly, RevokeFamily
  <2> QED
    BY <2>1, StaysOver DEF TokensOf, requestVars
<1> QED
  BY <1>2, <1>3, <1>4, <1>5, <1>6, <1>7 DEF Next, RequestStep

(* A session without a live token, and without a rotation that read one,   *)
(* never comes back.                                                       *)
THEOREM OverForGood == Spec => OverIsFinal
<1> DEFINE Final == \A f \in Families : Over(f) => Over(f)'
<1>1. Inv /\ [Next]_vars => [Final]_vars
  BY OverStep
<1>2. Spec => [][Final]_vars
  BY <1>1, Invariant, PTL DEF Spec
<1> QED
  BY <1>2 DEF OverIsFinal
=============================================================================
