---------------------------- MODULE AccountsLogin ----------------------------
(* Ways to a session: registration, passwords with the directory behind them,
   the second factor, external identities, magic links; then refresh and
   logout. Handlers of src/backend/src/api/auth.rs and magic_link.rs.         *)
EXTENDS AccountsCalls

CONSTANTS Forms,       \* registrations: [name, mail, domain, pw]
          Passwords,   \* passwords a client tries
          Directory,   \* the directory's entries: [name, mail, pw]
          Identities,  \* users of an OAuth provider: [key, name, mail]
          Unguessable  \* a random password

-----------------------------------------------------------------------------
(* register: the users are counted, and the domain lists of a server that has
   users are asked, before the row is inserted.                              *)

Domains(d, allow) == {x \in DOMAIN d.domain : d.domain[x] = allow}

MayRegister(d, domain) ==
    \/ DOMAIN d.user = {}
    \/ domain \in Domains(d, TRUE)
    \/ Domains(d, TRUE) = {} /\ Domains(d, FALSE) # {} /\ domain \notin Domains(d, FALSE)

CheckRegistration(c, form) ==
    /\ MayRegister(db, form.domain)
    /\ Waits(c, [op |-> "register", at |-> "register", form |-> form,
                 role |-> IF DOMAIN db.user = {} THEN "admin" ELSE "user"])

Register(c) ==
    /\ At(c, "register")
    /\ LET f == call[c].form
       IN  Last(c, IF Taken(db, f.name, f.mail) THEN db ELSE InsertUser(db, c, f.name, f.mail, call[c].role, f.pw))

-----------------------------------------------------------------------------
(* login *)

\* Where a login goes with the row of its user
AfterRead(row, pw) == IF row.pw # pw THEN (IF db.ldap THEN "ldap" ELSE "mark")
                      ELSE IF row.totp THEN "pending" ELSE "clear"

\* find_user_auth_by_username. Inactive and locked users are refused; the
\* directory is asked about a name without a row.
FindForLogin(c, name, pw) ==
    LET request == [op |-> "login", name |-> name, pw |-> pw, from |-> {}]
    IN  \/ \E u \in DOMAIN db.user :
             LET row == db.user[u]
             IN  /\ row.name = name /\ row.active /\ row.lock # "until"
                 /\ Waits(c, [at |-> IF row.lock = "over" THEN "unlock" ELSE AfterRead(row, pw),
                              user |-> u, row |-> row] ++ request)
        \/ /\ db.ldap /\ \A u \in DOMAIN db.user : db.user[u].name # name
           /\ Waits(c, [at |-> "ldap"] ++ request)

\* A lock that is over is cleared, and the row read once more
Unlock(c) ==
    /\ At(c, "unlock")
    /\ db' = Unlocked(db, call[c].user)
    /\ Goto(c, "reread")
    /\ UNCHANGED faults

Reread(c) ==
    /\ At(c, "reread")
    /\ LET u == call[c].user
       IN  IF Has(db.user, u)
           THEN call' = [call EXCEPT ![c].at = AfterRead(db.user[u], call[c].pw), ![c].row = db.user[u]]
           ELSE Answer(c)
    /\ UNCHANGED <<db, faults>>

\* authenticate_ldap, then the look-ups of find_or_create_ldap_user: by name,
\* else by e-mail. A refused password counts no failure.
AskDirectory(c) ==
    /\ At(c, "ldap")
    /\ \/ \E e \in Directory :
            /\ e.name = call[c].name /\ e.pw = call[c].pw
            /\ LET named == {u \in DOMAIN db.user : db.user[u].name = e.name}
                   mailed == {u \in DOMAIN db.user : db.user[u].mail = e.mail}
                   found == IF named # {} THEN named ELSE mailed
               IN  IF found = {}
                   THEN call' = [call EXCEPT ![c] = [at |-> "ldapuser", entry |-> e] ++ @]
                   ELSE \E u \in found : call' = [call EXCEPT ![c] = [at |-> IF db.user[u].totp THEN "pending" ELSE "clear",
                                                                      user |-> u] ++ @]
       \/ /\ \A e \in Directory : e.name # call[c].name \/ e.pw # call[c].pw
          /\ Answer(c)
    /\ UNCHANGED <<db, faults>>

CreateLdapUser(c) ==
    /\ At(c, "ldapuser")
    /\ LET e == call[c].entry
       IN  IF Taken(db, e.name, e.mail)
           THEN Answer(c) /\ UNCHANGED db
           ELSE /\ db' = InsertUser(db, c, e.name, e.mail, "user", Unguessable)
                /\ call' = [call EXCEPT ![c] = [at |-> "clear", user |-> c] ++ @]
    /\ UNCHANGED faults

\* mark_failed_login, of a password and of a second factor
MarkFailed(c) == At(c, "mark") /\ Last(c, Failed(db, call[c].user, call[c].row))

IssuePending(c) == At(c, "pending") /\ Last(c, InsertPending(db, c, call[c].user))

\* clear_login_lockout; the second factor has its session already
ClearLockout(c) ==
    /\ At(c, "clear")
    /\ db' = Unlocked(db, call[c].user)
    /\ IF call[c].op = "totp" THEN Answer(c) ELSE Goto(c, "issue")
    /\ UNCHANGED faults

\* issue_session_tokens; also the last statement of the other ways in
IssueSession(c) == At(c, "issue") /\ Last(c, InsertToken(db, c, call[c].user, call[c].from))

-----------------------------------------------------------------------------
(* The second factor. require_totp_pending finds the pending session, the
   handler the user; the code is valid for the secret it read, or not.        *)

MayVerify(p) ==
    /\ db.pending[p].state = "live"
    /\ LET row == db.user[db.pending[p].user] IN row.active /\ row.totp

TotpVerify(c, p, valid) ==
    LET u == db.pending[p].user
    IN  /\ MayVerify(p)
        /\ db.user[u].lock # "until" /\ db.user[u].secret # NoSecret
        /\ Waits(c, [op |-> "totp", at |-> IF valid THEN "spend" ELSE "mark", user |-> u, row |-> db.user[u], pending |-> p])

\* Mutant: the session is issued without looking at the rows deleted.
SpendAnyPending(c) ==
    /\ At(c, "spend")
    /\ LET r == call[c]
       IN  /\ db' = InsertToken([db EXCEPT !.pending = Drop(@, {r.pending})], c, r.user, {<<"pending", r.pending>>})
           /\ Goto(c, "clear")
    /\ UNCHANGED faults

\* The transaction: the pending session is deleted and must have been there
SpendPending(c) ==
    /\ At(c, "spend")
    /\ LET r == call[c]
       IN  IF Has(db.pending, r.pending)
           THEN /\ db' = InsertToken([db EXCEPT !.pending = Drop(@, {r.pending})], c, r.user, {<<"pending", r.pending>>})
                /\ Goto(c, "clear")
           ELSE Answer(c) /\ UNCHANGED db
    /\ UNCHANGED faults

TotpVerifyBackup(c, p, k) ==
    LET u == db.pending[p].user
    IN  /\ MayVerify(p)
        /\ Waits(c, [op |-> "backup", at |-> "code", user |-> u, row |-> db.user[u], pending |-> p, code |-> k])

\* The transaction; without an unused code it is rolled back and a failure counted
SpendCode(c) ==
    /\ At(c, "code")
    /\ LET r == call[c]
           spent == [Unlocked(db, r.user) EXCEPT !.code[r.code].used = TRUE, !.pending = Drop(@, {r.pending})]
       IN  IF ~ (Has(db.code, r.code) /\ db.code[r.code] = [user |-> r.user, used |-> FALSE])
           THEN Goto(c, "mark") /\ UNCHANGED db
           ELSE /\ db' = IF Has(db.pending, r.pending)
                         THEN InsertToken(spent, c, r.user, {<<"pending", r.pending>>, <<"code", r.code>>})
                         ELSE db
                /\ Answer(c)
    /\ UNCHANGED faults

-----------------------------------------------------------------------------
(* External identities. The state token is checked and the code exchanged
   before the first query.                                                    *)

\* oauth_callback
FindIdentity(c, e) ==
    Waits(c, [op |-> "oauth", at |-> IF Has(db.oauth, e.key) THEN "issue" ELSE "oauthuser",
              user |-> IF Has(db.oauth, e.key) THEN db.oauth[e.key] ELSE c, identity |-> e, from |-> {}])

CreateOauthUser(c) ==
    /\ At(c, "oauthuser")
    /\ LET e == call[c].identity
       IN  IF Taken(db, e.name, e.mail)
           THEN Answer(c) /\ UNCHANGED db
           ELSE db' = InsertUser(db, c, e.name, e.mail, "user", Unguessable) /\ Goto(c, "account")
    /\ UNCHANGED faults

\* create_oauth_account, of a login and of a link; an account that cannot be
\* inserted ends the login
CreateOauthAccount(c) ==
    /\ At(c, "account")
    /\ db' = UpsertOauth(db, call[c].identity.key, call[c].user)
    /\ IF call[c].op = "oauth" /\ Has(db.user, call[c].user) THEN Goto(c, "issue") ELSE Answer(c)
    /\ UNCHANGED faults

\* oauth_link_callback: the state names the user who began to link, who need
\* not be there any more. An identity that has an account is left alone.
LinkIdentity(c, u, e) ==
    /\ ~ Has(db.oauth, e.key)
    /\ Waits(c, [op |-> "linkaccount", at |-> "account", user |-> u, identity |-> e])

\* me_oauth_unlink; every user has a password hash
Unlink(c, u, e) ==
    Single(c, [db EXCEPT !.oauth = Drop(@, {k \in {e.key} \cap DOMAIN @ : @[k] = u})])

-----------------------------------------------------------------------------
(* Magic links *)

\* request_magic_link
FindByMail(c, u) == Waits(c, [op |-> "asklink", at |-> "link", user |-> u])

InsertLink(c) ==
    /\ At(c, "link")
    /\ Last(c, IF Has(db.user, call[c].user)
               THEN [db EXCEPT !.link = Put(@, c, [user |-> call[c].user, state |-> "live"])]
               ELSE db)

\* verify_magic_link: used and expired links are refused; the UPDATE must still
\* find the link unused. The user's row is then looked for and the session issued.
FindLink(c, k) ==
    /\ db.link[k].state = "live"
    /\ Waits(c, [op |-> "link", at |-> "consume", user |-> db.link[k].user, link |-> k, from |-> {<<"link", k>>}])

ConsumeLink(c) ==
    /\ At(c, "consume")
    /\ LET k == call[c].link
       IN  IF Has(db.link, k) /\ db.link[k].state # "used"
           THEN db' = [db EXCEPT !.link[k].state = "used"] /\ Goto(c, "issue")
           ELSE Answer(c) /\ UNCHANGED db
    /\ UNCHANGED faults

\* revoke_user_magic_links
RevokeLinks(c, u) ==
    Single(c, [db EXCEPT !.link = Drop(@, {k \in DOMAIN @ : @[k].user = u /\ @[k].state # "used"})])

-----------------------------------------------------------------------------
(* refresh and logout look at the token, and revoke it in a second statement *)

FindForRefresh(c, t) ==
    /\ db.token[t].state = "live" /\ db.user[db.token[t].user].active
    /\ Waits(c, [op |-> "refresh", at |-> "revoke", user |-> db.token[t].user, token |-> t, from |-> {}])

FindForLogout(c, t) == Waits(c, [op |-> "logout", at |-> "revoke", token |-> t])

Revoke(c) ==
    /\ At(c, "revoke")
    /\ db' = RevokeToken(db, call[c].token)
    /\ IF call[c].op = "refresh" THEN Goto(c, "issue") ELSE Answer(c)
    /\ UNCHANGED faults
=============================================================================
