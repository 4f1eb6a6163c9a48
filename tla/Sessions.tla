------------------------------ MODULE Sessions ------------------------------
(***************************************************************************)
(* Login sessions: families of rotating refresh tokens, the requests that  *)
(* issue, rotate and revoke them, and the user row that password and       *)
(* profile changes rewrite.                                                *)
(*                                                                         *)
(* A use case reads outside any transaction, then writes.  Between the two *)
(* any other request may run, so each such use case is a read action and a *)
(* write action of a request process.  One statement, or the rotation's    *)
(* transaction, is one step: the rows a rotation locks make a concurrent   *)
(* revocation of the family end as if it had run first.  The transaction   *)
(* of a password change is two steps: revokeAllByUser finds its rows, and  *)
(* what the commit revokes is what was found (READ COMMITTED); a rotation  *)
(* that already holds a row, and any login, insert theirs in between.      *)
(***************************************************************************)
EXTENDS Naturals, FiniteSets

CONSTANTS Users, Families, Tokens,
          Requests,      (* requests in progress at the same time           *)
          NoUser, NoFamily, NoToken,
          MaxChanges     (* bound: password changes of one user             *)

ASSUME SessionsAssumption ==
    /\ NoUser \notin Users /\ NoFamily \notin Families /\ NoToken \notin Tokens
    /\ MaxChanges \in Nat

VARIABLES
    family,      (* family of each issued refresh token                     *)
    owner,       (* user of each family in use                              *)
    used,        (* tokens with usedAt set                                  *)
    revoked,     (* tokens with revokedAt set                               *)
    expired,     (* tokens past expiresAt                                   *)
    password,    (* version of the password hash in each user row           *)
    changes,     (* committed password changes of each user                 *)
    op,          (* what each request does next                             *)
    token,       (* the token row a refresh has read                        *)
    user,        (* the user row any other request has read ...             *)
    readHash,    (* ... and the password hash it found there                *)
    found,       (* token rows the open password change will revoke         *)
    doomed,      (* history: sessions an open password change will end      *)
    ended        (* history: sessions ended by logout, reuse detection or a *)
                 (* password change, no rotation having overtaken the end   *)

tokenVars == <<family, owner, used, revoked, expired>>
userVars == <<password, changes>>
requestVars == <<op, token, user, readHash, found>>
endVars == <<doomed, ended>>
vars == <<tokenVars, userVars, requestVars, endVars>>

TypeOK ==
    /\ family \in [Tokens -> Families \cup {NoFamily}]
    /\ owner \in [Families -> Users \cup {NoUser}]
    /\ used \subseteq Tokens /\ revoked \subseteq Tokens /\ expired \subseteq Tokens
    /\ password \in [Users -> 0..MaxChanges]
    /\ changes \in [Users -> 0..MaxChanges]
    /\ op \in [Requests -> {"idle", "rotate", "reuse", "login", "password", "commit", "rename"}]
    /\ token \in [Requests -> Tokens \cup {NoToken}]
    /\ user \in [Requests -> Users \cup {NoUser}]
    /\ readHash \in [Requests -> 0..MaxChanges]
    /\ found \in [Requests -> SUBSET Tokens]
    /\ doomed \subseteq Families /\ ended \subseteq Families

Init ==
    /\ family = [t \in Tokens |-> NoFamily]
    /\ owner = [f \in Families |-> NoUser]
    /\ used = {} /\ revoked = {} /\ expired = {}
    /\ password = [u \in Users |-> 0]
    /\ changes = [u \in Users |-> 0]
    /\ op = [p \in Requests |-> "idle"]
    /\ token = [p \in Requests |-> NoToken]
    /\ user = [p \in Requests |-> NoUser]
    /\ readHash = [p \in Requests |-> 0]
    /\ found = [p \in Requests |-> {}]
    /\ doomed = {} /\ ended = {}

-----------------------------------------------------------------------------

Issued(t) == family[t] # NoFamily
TokensOf(f) == {t \in Tokens : family[t] = f}
FamiliesOf(u) == {f \in Families : owner[f] = u}

(* Plausible defects, for the mutation runs.                               *)
UsableEvenRevoked(t) == Issued(t) /\ t \notin used /\ t \notin expired
CasAlwaysWins(p) == TRUE
RevokeFamilyRow(f) == revoked \cup {f}
RevokeUnusedOnly(f) == revoked \cup (TokensOf(f) \ used)
RevokeUsedOnly(f) == revoked \cup (TokensOf(f) \cap used)

(* The revokedAt column after revokeFamily, and the rows revokeAllByUser   *)
(* finds.                                                                  *)
RevokeFamily(f) == revoked \cup TokensOf(f)
TokensOfUser(u) == UNION {TokensOf(f) : f \in FamiliesOf(u)}

(* RefreshToken.isUsable *)
IsUsable(t) == Issued(t) /\ t \notin used /\ t \notin revoked /\ t \notin expired

(* The session is listed as active (findActiveFamilies).                   *)
Active(f) == TokensOf(f) \ (used \cup revoked \cup expired) # {}

(* The sessions fs are ended.  A rotation that gets through afterwards, or *)
(* inside the open transaction of a password change, had read before.      *)
End(fs) == ended' = ended \cup fs /\ UNCHANGED doomed
Overtake(f) == ended' = ended \ {f} /\ doomed' = doomed \ {f}

(* The user row is locked by a password change that has not committed.     *)
RowLocked(u) == \E q \in Requests : op[q] = "commit" /\ user[q] = u

(* Request p goes on to step o with the row it has read, or is over.       *)
Continue(p, o, t, u, h) ==
    /\ op' = [op EXCEPT ![p] = o]
    /\ token' = [token EXCEPT ![p] = t]
    /\ user' = [user EXCEPT ![p] = u]
    /\ readHash' = [readHash EXCEPT ![p] = h]

Finish(p) ==
    /\ Continue(p, "idle", NoToken, NoUser, 0)
    /\ found' = [found EXCEPT ![p] = {}]

-----------------------------------------------------------------------------
(* Refresh *)

(* The submitted token is looked up.  An unknown, expired or revoked one   *)
(* is rejected with nothing changed; a used one means a copy exists.       *)
RefreshFind(p, t) ==
    /\ op[p] = "idle"
    /\ Issued(t)
    /\ \/ t \in used /\ Continue(p, "reuse", t, NoUser, 0)
       \/ IsUsable(t) /\ Continue(p, "rotate", t, NoUser, 0)
    /\ UNCHANGED <<tokenVars, userVars, found, endVars>>

RefreshReuse(p) ==
    /\ op[p] = "reuse"
    /\ revoked' = RevokeFamily(family[token[p]])
    /\ End({family[token[p]]})
    /\ Finish(p)
    /\ UNCHANGED <<family, owner, used, expired, userVars>>

(* markUsed is a compare-and-set on usedAt alone.                          *)
MarkUsedWins(p) == token[p] \notin used

(* The rotation transaction: consume the token that was read, issue its    *)
(* successor in the same family.                                           *)
RefreshRotate(p) ==
    /\ op[p] = "rotate"
    /\ MarkUsedWins(p)
    /\ used' = used \cup {token[p]}
    /\ \E t \in Tokens :
        /\ ~Issued(t)
        /\ family' = [family EXCEPT ![t] = family[token[p]]]
    /\ Overtake(family[token[p]])
    /\ Finish(p)
    /\ UNCHANGED <<owner, revoked, expired, userVars>>

(* The loser of the compare-and-set is rejected and leaves no trace.       *)
RefreshLoses(p) ==
    /\ op[p] = "rotate"
    /\ ~MarkUsedWins(p)
    /\ Finish(p)
    /\ UNCHANGED <<tokenVars, userVars, endVars>>

-----------------------------------------------------------------------------
(* Login *)

(* The user row is read and its hash compared; only a match goes on.       *)
LoginVerify(p, u) ==
    /\ op[p] = "idle"
    /\ Continue(p, "login", NoToken, u, 0)
    /\ UNCHANGED <<tokenVars, userVars, found, endVars>>

(* IssueSessionService.issue without a familyId: a new family.             *)
LoginIssue(p) ==
    /\ op[p] = "login"
    /\ \E f \in Families, t \in Tokens :
        /\ owner[f] = NoUser /\ ~Issued(t)
        /\ owner' = [owner EXCEPT ![f] = user[p]]
        /\ family' = [family EXCEPT ![t] = f]
    /\ Finish(p)
    /\ UNCHANGED <<used, revoked, expired, userVars, endVars>>

-----------------------------------------------------------------------------
(* Revocation by the user; what is read first never changes, so each is one*)
(* step.                                                                   *)

RevokeOnly(r, fs) ==
    /\ revoked' = r
    /\ End(fs)
    /\ UNCHANGED <<family, owner, used, expired, userVars, requestVars>>

Logout(t) == Issued(t) /\ RevokeOnly(RevokeFamily(family[t]), {family[t]})

LogoutAll(u) == RevokeOnly(revoked \cup TokensOfUser(u), FamiliesOf(u))

RevokeSession(u, f) == owner[f] = u /\ RevokeOnly(RevokeFamily(f), {f})

-----------------------------------------------------------------------------
(* Password and profile: both read the user row and later write it back.   *)
(* The name, which both write too, is left out.                            *)

(* The row is read and its hash compared with the current password.        *)
ChangePasswordVerify(p, u) ==
    /\ op[p] = "idle"
    /\ changes[u] < MaxChanges
    /\ Continue(p, "password", NoToken, u, password[u])
    /\ UNCHANGED <<tokenVars, userVars, found, endVars>>

(* The transaction's statements: users.update, which locks the row, and    *)
(* revokeAllByUser, which finds the rows committed so far.                 *)
ChangePasswordRevoke(p) ==
    /\ op[p] = "password"
    /\ ~RowLocked(user[p])
    /\ changes[user[p]] < MaxChanges
    /\ found' = [found EXCEPT ![p] = TokensOfUser(user[p])]
    /\ doomed' = doomed \cup FamiliesOf(user[p])
    /\ op' = [op EXCEPT ![p] = "commit"]
    /\ UNCHANGED <<tokenVars, userVars, token, user, readHash, ended>>

(* The new hash, which differs from every earlier one, and the revocation  *)
(* become visible together.                                                *)
ChangePasswordCommit(p) ==
    /\ op[p] = "commit"
    /\ changes[user[p]] < MaxChanges
    /\ changes' = [changes EXCEPT ![user[p]] = @ + 1]
    /\ password' = [password EXCEPT ![user[p]] = changes[user[p]] + 1]
    /\ revoked' = revoked \cup found[p]
    /\ ended' = ended \cup (doomed \cap FamiliesOf(user[p]))
    /\ doomed' = doomed \ FamiliesOf(user[p])
    /\ Finish(p)
    /\ UNCHANGED <<family, owner, used, expired>>

RenameRead(p, u) ==
    /\ op[p] = "idle"
    /\ Continue(p, "rename", NoToken, u, password[u])
    /\ UNCHANGED <<tokenVars, userVars, found, endVars>>

(* users.update writes the hash that was read along with the new name.     *)
RenameWrite(p) ==
    /\ op[p] = "rename"
    /\ ~RowLocked(user[p])
    /\ password' = [password EXCEPT ![user[p]] = readHash[p]]
    /\ Finish(p)
    /\ UNCHANGED <<tokenVars, changes, endVars>>

-----------------------------------------------------------------------------

(* expiresAt passes; it matters only while the token is usable.            *)
Expire(t) ==
    /\ IsUsable(t)
    /\ expired' = expired \cup {t}
    /\ UNCHANGED <<family, owner, used, revoked, userVars, requestVars, endVars>>

(* The server dies or the database refuses: an open transaction rolls back.*)
RequestFails(p) ==
    /\ op[p] # "idle"
    /\ doomed' = IF op[p] = "commit" THEN doomed \ FamiliesOf(user[p]) ELSE doomed
    /\ Finish(p)
    /\ UNCHANGED <<tokenVars, userVars, ended>>

RequestStep(p) ==
    \/ \E t \in Tokens : RefreshFind(p, t)
    \/ RefreshReuse(p) \/ RefreshRotate(p) \/ RefreshLoses(p)
    \/ \E u \in Users : LoginVerify(p, u) \/ ChangePasswordVerify(p, u) \/ RenameRead(p, u)
    \/ LoginIssue(p) \/ ChangePasswordRevoke(p) \/ ChangePasswordCommit(p) \/ RenameWrite(p)
    \/ RequestFails(p)

Next ==
    \/ \E p \in Requests : RequestStep(p)
    \/ \E t \in Tokens : Logout(t) \/ Expire(t)
    \/ \E u \in Users : LogoutAll(u) \/ \E f \in Families : RevokeSession(u, f)

Spec == Init /\ [][Next]_vars

-----------------------------------------------------------------------------
(* Properties *)

(* Rotation keeps a chain: a family in use has exactly one token that is   *)
(* not consumed, however many refreshes of it race or fail.  None: the user*)
(* would be thrown out; two: a copy would live on undetected.              *)
OneUnusedToken ==
    \A f \in Families : owner[f] # NoUser =>
        \E t \in TokensOf(f) : TokensOf(f) \ used = {t}

(* A revocation never stops half-way: when the token in circulation is     *)
(* revoked, so is every earlier token of its family.                       *)
RevocationCoversFamily ==
    \A f \in Families :
        TokensOf(f) \ used \subseteq revoked => TokensOf(f) \subseteq revoked

InFlight(f) == \E p \in Requests : op[p] = "rotate" /\ family[token[p]] = f

Over(f) == owner[f] # NoUser /\ ~Active(f) /\ ~InFlight(f)

(* Once a session has no live token and no rotation that read one is on    *)
(* its way, it is over for good: no request revives it or starts to.       *)
OverIsFinal == [][\A f \in Families : Over(f) => Over(f)']_vars

(* A session ended by a logout, by reuse detection or by a committed       *)
(* password change has no live token, the current one included, unless a   *)
(* rotation that had read its token earlier overtook the end: the only way *)
(* out that the compare-and-set on usedAt and the open transaction leave.  *)
EndedSessionsAreDead == \A f \in ended : ~Active(f)

(* change-password.use-case.ts: updating the hash and revoking in one      *)
(* transaction leaves no window with a live old session; the design's state*)
(* diagram makes "revoked" final.  A revoked session is never active again.*)
RevocationIsFinal ==
    [][\A f \in Families :
        owner[f] # NoUser /\ TokensOf(f) \subseteq revoked => ~Active(f)']_vars

(* user.entity.ts, rename: only the name changes.  The stored hash is      *)
(* always that of the latest password change.                              *)
LatestPasswordHolds == \A u \in Users : password[u] = changes[u]
=============================================================================
