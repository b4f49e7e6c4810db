--------------------------- MODULE AccountsManage ---------------------------
(* What users and administrators do to accounts: passwords, the second factor,
   profiles, API tokens, domains, libraries. Handlers of
   src/backend/src/api/auth.rs, users.rs, admin/mod.rs, middleware/auth.rs.   *)
EXTENDS AccountsLogin

CONSTANTS Profiles,   \* what patch_me changes: functions of some of name, mail
          Changes,    \* what update_user changes: of some of role, active, reset
          Accounts0,  \* users an administrator creates: [name, mail, pw, role, active]
          ProxyUsers, \* users a trusted proxy names: [name, mail]
          LibraryNames, \* names of libraries that are created
          Stocked     \* the libraries with books

ASSUME ProfilesAssumption == \A change \in Profiles : DOMAIN change \subseteq {"name", "mail"}
ASSUME ChangesAssumption == \A change \in Changes : DOMAIN change \subseteq {"role", "active", "reset"}

\* require_auth
SignedIn(u) == db.user[u].active

-----------------------------------------------------------------------------
(* Passwords *)

\* change_password
CheckPassword(c, u, pw, new) ==
    /\ SignedIn(u) /\ db.user[u].pw = pw
    /\ Waits(c, [op |-> "password", at |-> "password", user |-> u, pw |-> new])

UpdatePassword(c) == At(c, "password") /\ Last(c, UpdateUser(db, call[c].user, [pw |-> call[c].pw, reset |-> FALSE]))

\* reset_user_password and update_user: the user is looked for, then one UPDATE
FindUser(c, u, change) == Waits(c, [op |-> "edit", at |-> "edit", user |-> u, change |-> change])

EditUser(c) == At(c, "edit") /\ Last(c, UpdateUser(db, call[c].user, call[c].change))

ResetPassword(c, u) == FindUser(c, u, [reset |-> TRUE])

-----------------------------------------------------------------------------
(* The second factor *)

TotpSetup(c, u) ==
    /\ SignedIn(u) /\ ~ db.user[u].totp
    /\ Waits(c, [op |-> "setup", at |-> "secret", user |-> u])

SetSecret(c) == At(c, "secret") /\ Last(c, WithSecret(db, call[c].user, c))

\* The code is valid for the secret that was read
TotpConfirm(c, u) ==
    /\ SignedIn(u) /\ ~ db.user[u].totp /\ db.user[u].secret # NoSecret
    /\ Waits(c, [op |-> "confirm", at |-> "enable", user |-> u])

EnableTotp(c) == At(c, "enable") /\ Last(c, Enabled(db, call[c].user, c))

\* totp_disable (with the password) and disable_user_totp
TotpDisable(c, u, pw) ==
    /\ SignedIn(u) /\ db.user[u].pw = pw
    /\ Waits(c, [op |-> "disable", at |-> "disable", user |-> u])

DisableUserTotp(c, u) == Waits(c, [op |-> "disable", at |-> "disable", user |-> u])

DisableTotp(c) == At(c, "disable") /\ Last(c, Disabled(db, call[c].user))

-----------------------------------------------------------------------------
(* Profiles and users *)

\* patch_me: one UPDATE under the UNIQUE names and addresses
PatchMe(c, u, change) ==
    /\ SignedIn(u)
    /\ LET row == change ++ db.user[u]
           rest == [db EXCEPT !.user = Drop(@, {u})]
       IN  Single(c, IF Taken(rest, row.name, row.mail) THEN db ELSE UpdateUser(db, u, change))

\* update_default_library: the library is looked for, the UPDATE has a foreign key
FindLibrary(c, u, l) ==
    /\ SignedIn(u) /\ Has(db.libs, l)
    /\ Waits(c, [op |-> "default", at |-> "default", user |-> u, lib |-> l])

SetDefaultLibrary(c) ==
    /\ At(c, "default")
    /\ Last(c, IF Has(db.libs, call[c].lib) THEN UpdateUser(db, call[c].user, [lib |-> call[c].lib]) ELSE db)

\* create_user of an administrator: a user who shall be inactive is made so by a
\* second statement
CreateUser(c, form) ==
    /\ Begin(c, IF form.active \/ Taken(db, form.name, form.mail) THEN Over
                ELSE [op |-> "create", at |-> "edit", user |-> c, change |-> [active |-> FALSE]])
    /\ db' = IF Taken(db, form.name, form.mail) THEN db ELSE InsertUser(db, c, form.name, form.mail, form.role, form.pw)
    /\ UNCHANGED faults

DeleteUser(c, u) == Single(c, DeleteUserRow(db, u))

\* authenticate_proxy_user: a name without a row gets one
FindProxyUser(c, e) ==
    /\ \A u \in DOMAIN db.user : db.user[u].name # e.name
    /\ Waits(c, [op |-> "proxy", at |-> "proxy", entry |-> e])

CreateProxyUser(c) ==
    /\ At(c, "proxy")
    /\ LET e == call[c].entry
       IN  Last(c, IF Taken(db, e.name, e.mail) THEN db ELSE InsertUser(db, c, e.name, e.mail, "user", Unguessable))

-----------------------------------------------------------------------------
(* API tokens *)

\* create_token; UNIQUE (name), and its user must be there
CreateToken(c, u, name, scope) ==
    /\ SignedIn(u) /\ db.user[u].role = "admin"
    /\ Single(c, IF \E k \in DOMAIN db.api : db.api[k].name = name THEN db
                 ELSE [db EXCEPT !.api = Put(@, c, [user |-> u, name |-> name, scope |-> scope,
                                                    state |-> "live", touched |-> FALSE])])

\* delete_token: one's own
DeleteToken(c, u, k) ==
    /\ SignedIn(u) /\ db.user[u].role = "admin"
    /\ Single(c, [db EXCEPT !.api = Drop(@, {j \in {k} : @[j].user = u})])

\* authenticate_api_token: the token, its user, the scopes, then touch_last_used
UseToken(c, k, writes) ==
    LET t == db.api[k]
    IN  /\ t.state = "live" /\ SignedIn(t.user)
        /\ t.scope = "admin" => db.user[t.user].role = "admin"
        /\ writes => t.scope \in {"write", "admin"}
        /\ Waits(c, [op |-> "use", at |-> "touch", token |-> k])

TouchToken(c) ==
    /\ At(c, "touch")
    /\ Last(c, IF Has(db.api, call[c].token) THEN [db EXCEPT !.api[call[c].token].touched = TRUE] ELSE db)

-----------------------------------------------------------------------------
(* Domains and libraries *)

\* create_domain: an existing row is returned as it is
FindDomain(c, domain, allow) ==
    /\ ~ Has(db.domain, domain)
    /\ Waits(c, [op |-> "domain", at |-> "domain", domain |-> domain, allow |-> allow])

InsertDomain(c) ==
    /\ At(c, "domain")
    /\ Last(c, IF Has(db.domain, call[c].domain) THEN db ELSE [db EXCEPT !.domain = Put(@, call[c].domain, call[c].allow)])

DeleteDomain(c, domain) == Single(c, [db EXCEPT !.domain = Drop(@, {domain})])

\* UNIQUE (name)
CreateLibrary(c, name) == Single(c, IF name \in Range(db.libs) THEN db ELSE [db EXCEPT !.libs = Put(@, c, name)])

\* delete_library: the books are counted, the DELETE has foreign keys from books
\* and users
CountBooks(c, l) ==
    /\ l # Default /\ l \notin Stocked
    /\ Waits(c, [op |-> "unlib", at |-> "unlib", lib |-> l])

DeleteLibrary(c) ==
    /\ At(c, "unlib")
    /\ LET l == call[c].lib
       IN  Last(c, IF \E u \in DOMAIN db.user : db.user[u].lib = l THEN db ELSE [db EXCEPT !.libs = Drop(@, {l})])
=============================================================================
