---------------------------- MODULE AccountsCalls ----------------------------
(* The tables of the accounts (src/backend/src/db/queries/auth.rs, oauth.rs,
   totp.rs, magic_link.rs, api_tokens.rs and the migrations) and the requests
   that are under way. As in the library, a request is begun by its first
   queries with what they returned, and waits at the stage of its next
   statement; one that is refused by its first queries is not begun. A crash of
   the process is the failure of a statement of every request under way, for
   nothing of an account is kept in memory.

     user     user    -> [name, mail, pw, role, active, reset, totp, secret,
                          attempts, lock, lib]
     token    refresh token -> [user, state, from]
     pending  session of type totp_pending -> [user, state]
     code     backup code -> [user, used]
     link     magic link  -> [user, state]
     oauth    provider's identity -> user
     api      API token   -> [user, name, scope, state, touched]
     domain   e-mail domain -> allow
     libs     library -> name
     ldap     whether a directory is configured (ldap.enabled)

   What expires is "live" and then "expired"; a lock is "none", "until" a time
   to come, or "over". "from" is history: what the session was got for.        *)
EXTENDS Integers, FiniteSets, Tables

CONSTANTS Calls,        \* requests of a behaviour, 1..n in the order they begin
          InitDbs,      \* the databases a behaviour may start with
          Codes,        \* the backup codes of a set
          MaxAttempts,  \* auth.max_login_attempts
          Default,      \* the library that cannot be deleted
          NoSecret,     \* NULL
          MaxFaults     \* failed statements

ASSUME AccountCallsAssumption == Calls = 1..Cardinality(Calls)
ASSUME AttemptsAssumption == MaxAttempts \in Nat /\ MaxFaults \in Nat

\* The columns of the tables, ...
UserColumns == {"name", "mail", "pw", "role", "active", "reset", "totp", "secret", "attempts", "lock", "lib"}
Columns(d) ==
    /\ DOMAIN d = {"user", "token", "pending", "code", "link", "oauth", "api", "domain", "libs", "ldap"}
    /\ \A u \in DOMAIN d.user : DOMAIN d.user[u] = UserColumns
    /\ \A k \in DOMAIN d.token : DOMAIN d.token[k] = {"user", "state", "from"}
    /\ \A k \in DOMAIN d.pending : DOMAIN d.pending[k] = {"user", "state"}
    /\ \A k \in DOMAIN d.code : DOMAIN d.code[k] = {"user", "used"}
    /\ \A k \in DOMAIN d.link : DOMAIN d.link[k] = {"user", "state"}
    /\ \A k \in DOMAIN d.api : DOMAIN d.api[k] = {"user", "name", "scope", "state", "touched"}

\* ... and their constraints: every row that belongs to a user has its user, two
\* users differ in name and address, and their default libraries exist.
References(d) ==
    /\ \A k \in DOMAIN d.token : Has(d.user, d.token[k].user)
    /\ \A k \in DOMAIN d.pending : Has(d.user, d.pending[k].user)
    /\ \A k \in DOMAIN d.code : Has(d.user, d.code[k].user)
    /\ \A k \in DOMAIN d.link : Has(d.user, d.link[k].user)
    /\ \A k \in DOMAIN d.api : Has(d.user, d.api[k].user)
    /\ \A k \in DOMAIN d.oauth : Has(d.user, d.oauth[k])
    /\ \A u, v \in DOMAIN d.user : u # v => d.user[u].name # d.user[v].name /\ d.user[u].mail # d.user[v].mail
    /\ \A u \in DOMAIN d.user : Has(d.libs, d.user[u].lib)
    /\ Has(d.libs, Default)

\* A row of a user whose lock has the failures it needs
Counted(row) ==
    /\ row.lock \in {"none", "until", "over"} /\ row.attempts \in Nat
    /\ row.lock # "none" => row.attempts >= MaxAttempts

\* The codes of a user are of one set.
OneSet(d) == \A j, k \in DOMAIN d.code : d.code[j].user = d.code[k].user => j[1] = k[1]

\* What a behaviour starts with is such a database; its sessions were got before
\* the behaviour, and its rows have no number a request will use.
ASSUME AccountDbsAssumption ==
    \A d \in InitDbs :
        /\ Columns(d) /\ References(d) /\ OneSet(d) /\ \A u \in DOMAIN d.user : Counted(d.user[u])
        /\ \A t \in DOMAIN d.token : d.token[t].from = {}
        /\ Calls \cap (DOMAIN d.pending \cup DOMAIN d.link \cup {k[1] : k \in DOMAIN d.code}) = {}

VARIABLES db, call, faults

vars == <<db, call, faults>>

New == [op |-> "new"]
Over == [op |-> "over"]

Init == db \in InitDbs /\ call = [c \in Calls |-> New] /\ faults = 0

-----------------------------------------------------------------------------
(* Steps of a request *)

Begin(c, request) ==
    /\ call[c] = New /\ \A e \in Calls : e < c => call[e] # New
    /\ call' = [call EXCEPT ![c] = request]

InFlight(c) == call[c] \notin {New, Over}
At(c, stage) == InFlight(c) /\ call[c].at = stage
Goto(c, stage) == call' = [call EXCEPT ![c].at = stage]
Answer(c) == call' = [call EXCEPT ![c] = Over]

\* A request that has only read so far
Waits(c, request) == Begin(c, request) /\ UNCHANGED <<db, faults>>

\* A statement on an existing user's row, or none when the user is gone
UpdateUser(d, u, change) == IF Has(d.user, u) THEN [d EXCEPT !.user[u] = change ++ @] ELSE d

\* The last statement of a request
Last(c, d) == db' = d /\ Answer(c) /\ UNCHANGED faults

\* A request of one statement
Single(c, d) == Begin(c, Over) /\ db' = d /\ UNCHANGED faults

StatementFails(c) ==
    /\ InFlight(c) /\ faults < MaxFaults
    /\ faults' = faults + 1
    /\ Answer(c)
    /\ UNCHANGED db

-----------------------------------------------------------------------------
(* Rows *)

\* UNIQUE (username), UNIQUE (email)
Taken(d, name, mail) == \E u \in DOMAIN d.user : d.user[u].name = name \/ d.user[u].mail = mail

\* create_user
InsertUser(d, u, name, mail, role, pw) ==
    [d EXCEPT !.user = Put(@, u, [name |-> name, mail |-> mail, pw |-> pw, role |-> role, active |-> TRUE,
                                  reset |-> FALSE, totp |-> FALSE, secret |-> NoSecret, attempts |-> 0,
                                  lock |-> "none", lib |-> Default])]

\* delete_user, with everything that cascades
DeleteUserRow(d, u) ==
    LET without(table) == Drop(table, {k \in DOMAIN table : table[k].user = u})
    IN  [d EXCEPT !.user = Drop(@, {u}), !.token = without(@), !.pending = without(@), !.code = without(@),
                  !.link = without(@), !.api = without(@), !.oauth = Drop(@, {k \in DOMAIN @ : @[k] = u})]

\* Mutant: the user need not be there.
InsertAnyToken(d, t, u, from) == [d EXCEPT !.token = Put(@, t, [user |-> u, state |-> "live", from |-> from])]

\* insert_refresh_token; the user must be there
InsertToken(d, t, u, from) ==
    IF Has(d.user, u) THEN [d EXCEPT !.token = Put(@, t, [user |-> u, state |-> "live", from |-> from])] ELSE d

\* revoke_refresh_token_by_id
RevokeToken(d, t) == IF Has(d.token, t) THEN [d EXCEPT !.token[t].state = "revoked"] ELSE d

\* The transaction of issue_totp_pending_login_response
InsertPending(d, p, u) ==
    IF Has(d.user, u)
    THEN [d EXCEPT !.pending = Put(Drop(@, {q \in DOMAIN @ : @[q].user = u}), p, [user |-> u, state |-> "live"])]
    ELSE d

\* create_oauth_account: an identity that has a row gets the user
UpsertOauth(d, identity, u) == IF Has(d.user, u) THEN [d EXCEPT !.oauth = Put(@, identity, u)] ELSE d

\* Mutant: the end of the lock is not reset.
Recounted(d, u) == UpdateUser(d, u, [attempts |-> 0])

\* clear_login_lockout
Unlocked(d, u) == UpdateUser(d, u, [attempts |-> 0, lock |-> "none"])

\* mark_failed_login: from the row as it was read
Failed(d, u, row) ==
    LET attempts == row.attempts + 1
    IN  UpdateUser(d, u, [attempts |-> attempts, lock |-> IF attempts >= MaxAttempts THEN "until" ELSE row.lock])

\* set_totp_setup_secret
WithSecret(d, u, secret) == UpdateUser(d, u, [secret |-> secret, totp |-> FALSE])

\* Mutant: the old set of codes stays.
EnabledWithAllCodes(d, u, c) ==
    IF Has(d.user, u)
    THEN [UpdateUser(d, u, [totp |-> TRUE, attempts |-> 0, lock |-> "none"])
             EXCEPT !.code = [k \in {<<c, i>> : i \in Codes} |-> [user |-> u, used |-> FALSE]] ++ @]
    ELSE d

\* The transaction of totp_confirm; the insertions need the user. A code is
\* named by the request that made its set.
Enabled(d, u, c) ==
    IF Has(d.user, u)
    THEN [UpdateUser(d, u, [totp |-> TRUE, attempts |-> 0, lock |-> "none"])
             EXCEPT !.code = [k \in {<<c, i>> : i \in Codes} |-> [user |-> u, used |-> FALSE]]
                             ++ Drop(@, {k \in DOMAIN @ : @[k].user = u})]
    ELSE d

\* disable_totp
Disabled(d, u) ==
    [UpdateUser(d, u, [totp |-> FALSE, secret |-> NoSecret]) EXCEPT !.code = Drop(@, {k \in DOMAIN @ : @[k].user = u})]

-----------------------------------------------------------------------------
(* Time: locks end; tokens, pending sessions and links expire. Expiry is looked
   at by the first query of a request and never again, so the rows may expire
   together.                                                                  *)

LockEnds(u) ==
    /\ db.user[u].lock = "until"
    /\ db' = UpdateUser(db, u, [lock |-> "over"])
    /\ UNCHANGED <<call, faults>>

Expire(table) == [k \in DOMAIN table |-> [table[k] EXCEPT !.state = IF @ = "live" THEN "expired" ELSE @]]

RowsExpire ==
    /\ \E table \in {"token", "pending", "link", "api"} : \E k \in DOMAIN db[table] : db[table][k].state = "live"
    /\ db' = [db EXCEPT !.token = Expire(@), !.pending = Expire(@), !.link = Expire(@), !.api = Expire(@)]
    /\ UNCHANGED <<call, faults>>

TimePasses == RowsExpire \/ \E u \in DOMAIN db.user : LockEnds(u)
=============================================================================
