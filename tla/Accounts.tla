------------------------------ MODULE Accounts ------------------------------
(* The accounts of xcalibre-server and the requests on them. One action per
   statement (or transaction) of a handler; see AccountsCalls for the tables,
   AccountsLogin for the ways to a session and AccountsManage for the rest.   *)
EXTENDS AccountsManage

LoginStep ==
    \E c \in Calls :
       \/ \E f \in Forms : CheckRegistration(c, f)
       \/ Register(c)
       \/ \E name \in {db.user[u].name : u \in DOMAIN db.user} \cup {e.name : e \in Directory} :
             \E pw \in Passwords : FindForLogin(c, name, pw)
       \/ Unlock(c) \/ Reread(c) \/ AskDirectory(c) \/ CreateLdapUser(c)
       \/ MarkFailed(c) \/ IssuePending(c) \/ ClearLockout(c) \/ IssueSession(c)

FactorStep ==
    \E c \in Calls :
       \/ \E p \in DOMAIN db.pending :
            \/ \E valid \in BOOLEAN : TotpVerify(c, p, valid)
            \/ \E k \in DOMAIN db.code \cup {<<0, 0>>} : TotpVerifyBackup(c, p, k)
       \/ SpendPending(c) \/ SpendCode(c)
       \/ \E u \in DOMAIN db.user :
            TotpSetup(c, u) \/ TotpConfirm(c, u) \/ DisableUserTotp(c, u) \/ \E pw \in Passwords : TotpDisable(c, u, pw)
       \/ SetSecret(c) \/ EnableTotp(c) \/ DisableTotp(c)

OutsideStep ==
    \E c \in Calls :
       \/ \E e \in Identities :
            \/ FindIdentity(c, e)
            \/ \E u \in DOMAIN db.user : LinkIdentity(c, u, e) \/ Unlink(c, u, e)
       \/ CreateOauthUser(c) \/ CreateOauthAccount(c)
       \/ \E u \in DOMAIN db.user : FindByMail(c, u) \/ RevokeLinks(c, u)
       \/ InsertLink(c)
       \/ \E k \in DOMAIN db.link : FindLink(c, k)
       \/ ConsumeLink(c)
       \/ \E t \in DOMAIN db.token : FindForRefresh(c, t) \/ FindForLogout(c, t)
       \/ Revoke(c)
       \/ \E e \in ProxyUsers : FindProxyUser(c, e)
       \/ CreateProxyUser(c)

ManageStep ==
    \E c \in Calls :
       \/ \E u \in DOMAIN db.user :
            \/ \E pw, new \in Passwords : CheckPassword(c, u, pw, new)
            \/ \E change \in Profiles : PatchMe(c, u, change)
            \/ \E change \in Changes : FindUser(c, u, change)
            \/ ResetPassword(c, u) \/ DeleteUser(c, u)
            \/ \E l \in DOMAIN db.libs : FindLibrary(c, u, l)
            \/ \E scope \in {"read", "write", "admin"} : CreateToken(c, u, "name", scope)
            \/ \E k \in DOMAIN db.api : DeleteToken(c, u, k)
       \/ UpdatePassword(c) \/ EditUser(c) \/ SetDefaultLibrary(c)
       \/ \E form \in Accounts0 : CreateUser(c, form)
       \/ \E k \in DOMAIN db.api : \E writes \in BOOLEAN : UseToken(c, k, writes)
       \/ TouchToken(c)
       \/ \E form \in Forms : FindDomain(c, form.domain, TRUE) \/ FindDomain(c, form.domain, FALSE)
       \/ InsertDomain(c)
       \/ \E domain \in DOMAIN db.domain : DeleteDomain(c, domain)
       \/ \E name \in LibraryNames : CreateLibrary(c, name)
       \/ \E l \in DOMAIN db.libs : CountBooks(c, l)
       \/ DeleteLibrary(c)

Next == LoginStep \/ FactorStep \/ OutsideStep \/ ManageStep \/ TimePasses \/ \E c \in Calls : StatementFails(c)

Spec == Init /\ [][Next]_vars

-----------------------------------------------------------------------------
(* Properties *)

\* What the keys of the tables promise (References): every row that belongs to a
\* user has its user, two users differ in name and address, and default libraries
\* exist, through every interleaving of checks and insertions.
TypeOK ==
    /\ Columns(db) /\ References(db)
    /\ \A c \in Calls : InFlight(c) => {"op", "at"} \subseteq DOMAIN call[c]

\* A pending second factor, a backup code and a magic link yield at most one
\* session each, however many requests present them at once.
SpentOnce == \A s, t \in DOMAIN db.token : s # t => db.token[s].from \cap db.token[t].from = {}

\* An account that is locked has failed as often as locks need: a success, or
\* the end of a lock, clears both, and a failure that was counted from an older
\* row does not keep a lock whose failures are forgotten.
LocksHaveFailures == \A u \in DOMAIN db.user : Counted(db.user[u])

\* The backup codes of a user are of one set, the one that was shown last: also
\* when a setup that overlapped a confirmation turned the second factor off
\* and left the codes.
OneSetOfCodes == OneSet(db)
=============================================================================
