--------------------------- MODULE AccountsProofs ---------------------------
(* Proofs about the accounts: the constraints of their tables, locks, sets of
   backup codes, and that what is spent yields one session.                  *)
EXTENDS Accounts, TLAPS

-----------------------------------------------------------------------------
(* What every statement leaves true of the tables.                           *)

DbOK(d) == Columns(d) /\ References(d) /\ OneSet(d) /\ \A u \in DOMAIN d.user : Counted(d.user[u])

\* Users
LEMMA InsertUserKeeps ==
    ASSUME NEW d, DbOK(d), NEW u, NEW name, NEW mail, NEW role, NEW pw, ~Taken(d, name, mail)
    PROVE  DbOK(InsertUser(d, u, name, mail, role, pw))
  BY DEF DbOK, Columns, UserColumns, References, OneSet, Counted, InsertUser, Put, Has, Taken

\* A change that neither counts failures, nor renames, nor moves to a library
LEMMA UpdateUserKeeps ==
    ASSUME NEW d, DbOK(d), NEW u, NEW change, DOMAIN change \subseteq UserColumns \ {"name", "mail", "lib", "attempts", "lock"}
    PROVE  DbOK(UpdateUser(d, u, change))
  BY DEF DbOK, Columns, UserColumns, References, OneSet, Counted, UpdateUser, ++, Has

LEMMA InsertTokenKeeps ==
    ASSUME NEW d, DbOK(d), NEW t, NEW u, NEW from
    PROVE  DbOK(InsertToken(d, t, u, from))
  BY DEF DbOK, Columns, References, OneSet, InsertToken, Put, Has

LEMMA RevokeTokenKeeps ==
    ASSUME NEW d, DbOK(d), NEW t
    PROVE  DbOK(RevokeToken(d, t))
  BY DEF DbOK, Columns, References, OneSet, RevokeToken, Has

LEMMA DeleteUserKeeps ==
    ASSUME NEW d, DbOK(d), NEW u
    PROVE  DbOK(DeleteUserRow(d, u))
  BY DEF DbOK, Columns, References, OneSet, DeleteUserRow, Drop, Restrict, Has

\* A change that clears the failures
LEMMA ClearedKeeps ==
    ASSUME NEW d, DbOK(d), NEW u, NEW change, change.attempts = 0, change.lock = "none",
           {"attempts", "lock"} \subseteq DOMAIN change, DOMAIN change \subseteq UserColumns \ {"name", "mail", "lib"}
    PROVE  DbOK(UpdateUser(d, u, change))
  BY DEF DbOK, Columns, UserColumns, References, OneSet, Counted, UpdateUser, ++, Has

LEMMA UnlockedKeeps ==
    ASSUME NEW d, DbOK(d), NEW u
    PROVE  DbOK(Unlocked(d, u))
  BY ClearedKeeps DEF Unlocked, UserColumns

\* The count of failures may come from an older row, if it is a counted one.
LEMMA FailedKeeps ==
    ASSUME NEW d, DbOK(d), NEW u, NEW row, Counted(row)
    PROVE  DbOK(Failed(d, u, row))
  <1> DEFINE attempts == row.attempts + 1
             change == [attempts |-> attempts, lock |-> IF attempts >= MaxAttempts THEN "until" ELSE row.lock]
  <1>1. /\ DOMAIN change = {"attempts", "lock"} /\ change.attempts \in Nat
        /\ change.lock \in {"none", "until", "over"} /\ (change.lock # "none" => change.attempts >= MaxAttempts)
    BY AttemptsAssumption DEF Counted
  <1> HIDE DEF change
  <1>2. DbOK(UpdateUser(d, u, change))
    BY <1>1 DEF DbOK, Columns, UserColumns, References, OneSet, Counted, UpdateUser, ++, Has
  <1> QED BY <1>2 DEF Failed, change

\* A new set of codes takes the place of the old one.
NewCodes(d, u, c) ==
    [d EXCEPT !.code = [k \in {<<c, i>> : i \in Codes} |-> [user |-> u, used |-> FALSE]]
                       ++ Drop(@, {k \in DOMAIN @ : @[k].user = u})]

LEMMA NewCodesKeep == ASSUME NEW d, DbOK(d), NEW u \in DOMAIN d.user, NEW c PROVE DbOK(NewCodes(d, u, c))
  <1> DEFINE new == {<<c, i>> : i \in Codes}
             codes == [k \in new |-> [user |-> u, used |-> FALSE]] ++ Drop(d.code, {k \in DOMAIN d.code : d.code[k].user = u})
             e == [d EXCEPT !.code = codes]
  <1>1. \A k \in new : k[1] = c
    OBVIOUS
  <1>2. /\ DOMAIN codes = new \cup {k \in DOMAIN d.code : d.code[k].user # u}
        /\ \A k \in DOMAIN codes : IF k \in new THEN codes[k] = [user |-> u, used |-> FALSE]
                                   ELSE codes[k] = d.code[k] /\ k \in DOMAIN d.code /\ codes[k].user # u
    BY DEF ++, Drop, Restrict
  <1>2a. \A k \in DOMAIN codes : DOMAIN codes[k] = {"user", "used"}
    <2>1. ASSUME NEW k \in new
          PROVE  codes[k] = [user |-> u, used |-> FALSE]
      BY DEF ++
    <2>2. ASSUME NEW k \in DOMAIN codes, k \notin new
          PROVE  DOMAIN codes[k] = {"user", "used"}
      BY <1>2, <2>2 DEF DbOK, Columns
    <2> HIDE DEF codes, new
    <2> QED BY <2>1, <2>2
  <1> HIDE DEF codes, new
  <1>3. /\ DOMAIN e = DOMAIN d /\ e.code = codes /\ e.user = d.user /\ e.token = d.token /\ e.pending = d.pending
        /\ e.link = d.link /\ e.oauth = d.oauth /\ e.api = d.api /\ e.libs = d.libs
    BY DEF DbOK, Columns
  <1> HIDE DEF e
  <1>4. Columns(e)
    BY <1>2a, <1>3 DEF DbOK, Columns
  <1>5. References(e)
    BY <1>2, <1>3 DEF DbOK, Columns, References, Has
  <1>6. OneSet(e)
    BY <1>1, <1>2, <1>3 DEF DbOK, OneSet
  <1>7. DbOK(e)
    BY <1>3, <1>4, <1>5, <1>6 DEF DbOK
  <1> QED BY <1>7 DEF NewCodes, e, codes, new

LEMMA EnabledKeeps ==
    ASSUME NEW d, DbOK(d), NEW u, NEW c
    PROVE  DbOK(Enabled(d, u, c))
  <1> DEFINE e == UpdateUser(d, u, [totp |-> TRUE, attempts |-> 0, lock |-> "none"])
  <1>1. DbOK(e)
    BY ClearedKeeps DEF UserColumns
  <1>2. Has(d.user, u) => Has(e.user, u)
    BY DEF UpdateUser, Has, DbOK, Columns
  <1> HIDE DEF e
  <1>3. Has(d.user, u) => Enabled(d, u, c) = NewCodes(e, u, c)
    BY DEF Enabled, NewCodes, e
  <1>4. ~Has(d.user, u) => Enabled(d, u, c) = d
    BY DEF Enabled
  <1> QED BY <1>1, <1>2, <1>3, <1>4, NewCodesKeep DEF Has

LEMMA DisabledKeeps ==
    ASSUME NEW d, DbOK(d), NEW u
    PROVE  DbOK(Disabled(d, u))
  BY DEF DbOK, Columns, UserColumns, References, OneSet, Counted, Disabled, UpdateUser, ++, Drop, Restrict, Has

\* Pending sessions, codes, links, identities
LEMMA InsertPendingKeeps ==
    ASSUME NEW d, DbOK(d), NEW p, NEW u
    PROVE  DbOK(InsertPending(d, p, u))
  BY DEF DbOK, Columns, References, OneSet, InsertPending, Put, Drop, Restrict, Has

LEMMA DropPendingKeeps ==
    ASSUME NEW d, DbOK(d), NEW S
    PROVE  DbOK([d EXCEPT !.pending = Drop(@, S)])
  BY DEF DbOK, Columns, References, OneSet, Drop, Restrict, Has

LEMMA UseCodeKeeps ==
    ASSUME NEW d, DbOK(d), NEW k \in DOMAIN d.code
    PROVE  DbOK([d EXCEPT !.code[k].used = TRUE])
  BY DEF DbOK, Columns, References, OneSet, Has

LEMMA UpsertOauthKeeps ==
    ASSUME NEW d, DbOK(d), NEW identity, NEW u
    PROVE  DbOK(UpsertOauth(d, identity, u))
  BY DEF DbOK, Columns, References, OneSet, UpsertOauth, Put, Has

LEMMA DropOauthKeeps ==
    ASSUME NEW d, DbOK(d), NEW S
    PROVE  DbOK([d EXCEPT !.oauth = Drop(@, S)])
  BY DEF DbOK, Columns, References, OneSet, Drop, Restrict, Has

LEMMA InsertLinkKeeps ==
    ASSUME NEW d, DbOK(d), NEW k, NEW u \in DOMAIN d.user
    PROVE  DbOK([d EXCEPT !.link = Put(@, k, [user |-> u, state |-> "live"])])
  BY DEF DbOK, Columns, References, OneSet, Put, Has

LEMMA UseLinkKeeps ==
    ASSUME NEW d, DbOK(d), NEW k \in DOMAIN d.link
    PROVE  DbOK([d EXCEPT !.link[k].state = "used"])
  BY DEF DbOK, Columns, References, OneSet, Has

LEMMA DropLinksKeeps ==
    ASSUME NEW d, DbOK(d), NEW S
    PROVE  DbOK([d EXCEPT !.link = Drop(@, S)])
  BY DEF DbOK, Columns, References, OneSet, Drop, Restrict, Has

\* API tokens, domains, libraries
LEMMA PutApiKeeps ==
    ASSUME NEW d, DbOK(d), NEW k, NEW row, row.user \in DOMAIN d.user,
           DOMAIN row = {"user", "name", "scope", "state", "touched"}
    PROVE  DbOK([d EXCEPT !.api = Put(@, k, row)])
  BY DEF DbOK, Columns, References, OneSet, Put, Has

LEMMA DropApiKeeps ==
    ASSUME NEW d, DbOK(d), NEW S
    PROVE  DbOK([d EXCEPT !.api = Drop(@, S)])
  BY DEF DbOK, Columns, References, OneSet, Drop, Restrict, Has

LEMMA TouchApiKeeps ==
    ASSUME NEW d, DbOK(d), NEW k \in DOMAIN d.api
    PROVE  DbOK([d EXCEPT !.api[k].touched = TRUE])
  BY DEF DbOK, Columns, References, OneSet, Has

LEMMA DomainKeeps ==
    ASSUME NEW d, DbOK(d), NEW table
    PROVE  DbOK([d EXCEPT !.domain = table])
  BY DEF DbOK, Columns, References, OneSet

LEMMA PutLibraryKeeps ==
    ASSUME NEW d, DbOK(d), NEW l, NEW name
    PROVE  DbOK([d EXCEPT !.libs = Put(@, l, name)])
  BY DEF DbOK, Columns, References, OneSet, Put, Has

LEMMA DropLibraryKeeps ==
    ASSUME NEW d, DbOK(d), NEW l, l # Default, \A u \in DOMAIN d.user : d.user[u].lib # l
    PROVE  DbOK([d EXCEPT !.libs = Drop(@, {l})])
  BY DEF DbOK, Columns, References, OneSet, Drop, Restrict, Has

LEMMA DefaultLibraryKeeps ==
    ASSUME NEW d, DbOK(d), NEW u, NEW l \in DOMAIN d.libs
    PROVE  DbOK(UpdateUser(d, u, [lib |-> l]))
  BY DEF DbOK, Columns, UserColumns, References, OneSet, Counted, UpdateUser, ++, Has

-----------------------------------------------------------------------------
(* What a statement leaves of the rows that are spent: new ones have a number
   of N, and what is used stays so; and of what sessions were got for: most
   statements make none that was got for anything.                           *)

Spends(d, e, N) ==
    /\ \A p \in DOMAIN e.pending : p \in DOMAIN d.pending \cup N
    /\ \A k \in DOMAIN e.code : k[1] \in N \/ (k \in DOMAIN d.code /\ (d.code[k].used = TRUE => e.code[k].used = TRUE))
    /\ \A k \in DOMAIN e.link : k \in N \/ (k \in DOMAIN d.link /\ (d.link[k].state = "used" => e.link[k].state = "used"))

Rows(d, e, N) ==
    /\ Spends(d, e, N)
    /\ \A t \in DOMAIN e.token : e.token[t].from # {} => t \in DOMAIN d.token /\ e.token[t].from = d.token[t].from

LEMMA SameRows ==
    ASSUME NEW d, NEW e, e.token = d.token, e.pending = d.pending, e.code = d.code, e.link = d.link
    PROVE  Rows(d, e, {})
  BY DEF Rows, Spends

LEMMA RowsAdd ==
    ASSUME NEW d, NEW e, NEW f, NEW N, Rows(d, e, {}), Rows(e, f, N)
    PROVE  Rows(d, f, N)
  BY DEF Rows, Spends

LEMMA UpdateUserRows == ASSUME NEW d, DbOK(d), NEW u, NEW change PROVE Rows(d, UpdateUser(d, u, change), {})
  BY DEF DbOK, Columns, UpdateUser, Rows, Spends

LEMMA InsertUserRows ==
    ASSUME NEW d, DbOK(d), NEW u, NEW name, NEW mail, NEW role, NEW pw
    PROVE  Rows(d, InsertUser(d, u, name, mail, role, pw), {})
  BY DEF DbOK, Columns, InsertUser, Rows, Spends

LEMMA RevokeTokenRows == ASSUME NEW d, DbOK(d), NEW t PROVE Rows(d, RevokeToken(d, t), {})
  BY DEF DbOK, Columns, RevokeToken, Has, Rows, Spends

LEMMA DeleteUserRows == ASSUME NEW d, DbOK(d), NEW u PROVE Rows(d, DeleteUserRow(d, u), {})
  BY DEF DbOK, Columns, DeleteUserRow, Drop, Restrict, Rows, Spends

LEMMA EnabledRows == ASSUME NEW d, DbOK(d), NEW u, NEW c PROVE Rows(d, Enabled(d, u, c), {c})
  BY DEF DbOK, Columns, Enabled, UpdateUser, ++, Drop, Restrict, Has, Rows, Spends

LEMMA DisabledRows == ASSUME NEW d, DbOK(d), NEW u PROVE Rows(d, Disabled(d, u), {})
  BY DEF DbOK, Columns, Disabled, UpdateUser, Drop, Restrict, Has, Rows, Spends

LEMMA InsertPendingRows == ASSUME NEW d, DbOK(d), NEW p, NEW u PROVE Rows(d, InsertPending(d, p, u), {p})
  BY DEF DbOK, Columns, InsertPending, Put, Drop, Restrict, Rows, Spends

LEMMA DropPendingRows == ASSUME NEW d, DbOK(d), NEW S PROVE Rows(d, [d EXCEPT !.pending = Drop(@, S)], {})
  BY DEF DbOK, Columns, Drop, Restrict, Rows, Spends

LEMMA UseCodeRows == ASSUME NEW d, DbOK(d), NEW k \in DOMAIN d.code PROVE Rows(d, [d EXCEPT !.code[k].used = TRUE], {})
  BY DEF DbOK, Columns, Rows, Spends

LEMMA InsertLinkRows ==
    ASSUME NEW d, DbOK(d), NEW k, NEW u
    PROVE  Rows(d, [d EXCEPT !.link = Put(@, k, [user |-> u, state |-> "live"])], {k})
  BY DEF DbOK, Columns, Put, Rows, Spends

LEMMA UseLinkRows == ASSUME NEW d, DbOK(d), NEW k \in DOMAIN d.link PROVE Rows(d, [d EXCEPT !.link[k].state = "used"], {})
  BY DEF DbOK, Columns, Rows, Spends

LEMMA DropLinksRows == ASSUME NEW d, DbOK(d), NEW S PROVE Rows(d, [d EXCEPT !.link = Drop(@, S)], {})
  BY DEF DbOK, Columns, Drop, Restrict, Rows, Spends

\* Statements on other tables
LEMMA OtherRows ==
    ASSUME NEW d, DbOK(d), NEW table
    PROVE  /\ Rows(d, d, {})
           /\ Rows(d, [d EXCEPT !.oauth = table], {}) /\ Rows(d, [d EXCEPT !.api = table], {})
           /\ Rows(d, [d EXCEPT !.domain = table], {}) /\ Rows(d, [d EXCEPT !.libs = table], {})
  BY DEF DbOK, Columns, Rows, Spends

-----------------------------------------------------------------------------
(* The requests under way.                                                   *)

\* What is known of a request at every stage: the copy of the user's row it
\* works from, ...
RequestOK(r) ==
    /\ {"op", "at"} \subseteq DOMAIN r /\ r.op \notin {"new", "over"}
    /\ r.at \in {"unlock", "reread", "mark", "code"} => "row" \in DOMAIN r
    /\ "row" \in DOMAIN r => Counted(r.row)
    \* ... what its session is got for: a link, or nothing that can be spent, ...
    /\ r.op \in {"login", "oauth", "refresh"} => "from" \in DOMAIN r /\ r.from = {}
    /\ r.op = "link" => /\ {"from", "link"} \subseteq DOMAIN r /\ r.from = {<<"link", r.link>>}
                        /\ r.at \in {"consume", "issue"}
    \* ... which requests come to a stage, ...
    /\ r.at = "issue" => r.op \in {"login", "oauth", "refresh", "link"}
    /\ r.at = "clear" => r.op \in {"login", "totp"}
    /\ r.at \in {"unlock", "reread", "ldap", "ldapuser"} => r.op = "login"
    /\ r.at = "oauthuser" => r.op = "oauth"
    /\ r.at = "revoke" => r.op \in {"refresh", "logout"}
    /\ r.at = "spend" => r.op = "totp"
    /\ r.at = "code" => r.op = "backup"
    /\ r.at = "consume" => r.op = "link"
    \* ... and what an administrator changes.
    /\ r.at = "edit" => "change" \in DOMAIN r /\ DOMAIN r.change \subseteq {"role", "active", "reset"}
    /\ r.at = "unlib" => r.lib # Default

CallsOK == DOMAIN call = Calls /\ \A c \in Calls : InFlight(c) => RequestOK(call[c])

\* A request that got hold of a link and has no session yet
Holding(c) == InFlight(c) /\ call[c].op = "link" /\ call[c].at = "issue"

Others(c) == DOMAIN call' = Calls /\ \A e \in Calls \ {c} : call'[e] = call[e]

\* A request that begins, and one that goes on; links are got hold of by
\* ConsumeLink only.
Starts(c) ==
    /\ call[c] = New /\ Others(c)
    /\ call'[c] = Over \/ (RequestOK(call'[c]) /\ ~(call'[c].op = "link" /\ call'[c].at = "issue"))

Goes(c) ==
    /\ InFlight(c) /\ Others(c)
    /\ \/ call'[c] = Over
       \/ RequestOK(call'[c]) /\ call'[c].op = call[c].op /\ call[c].op # "link"

LEMMA RequestsAreInFlight == ASSUME NEW r, RequestOK(r) PROVE r \notin {New, Over}
  BY DEF RequestOK, New, Over

LEMMA BeginStarts ==
    ASSUME CallsOK, NEW c \in Calls, NEW r, Begin(c, r),
           r = Over \/ (RequestOK(r) /\ ~(r.op = "link" /\ r.at = "issue"))
    PROVE  Starts(c) /\ call'[c] = r
  BY DEF CallsOK, Begin, Starts, Others

LEMMA AnswerGoes ==
    ASSUME CallsOK, NEW c \in Calls, InFlight(c), Answer(c)
    PROVE  Goes(c) /\ call'[c] = Over
  BY DEF CallsOK, Answer, Goes, Others

LEMMA GotoGoes ==
    ASSUME CallsOK, NEW c \in Calls, InFlight(c), NEW stage, Goto(c, stage),
           \/ stage \in {"issue", "account", "clear"}
           \/ stage \in {"reread", "mark"} /\ "row" \in DOMAIN call[c],
           stage = "issue" => call[c].op \in {"login", "oauth", "refresh", "link"},
           stage = "reread" => call[c].op = "login",
           stage = "clear" => call[c].op \in {"login", "totp"},
           call[c].op # "link"
    PROVE  Goes(c)
  <1> DEFINE s == [call[c] EXCEPT !.at = stage]
  <1>1. call'[c] = s /\ Others(c)
    BY DEF CallsOK, Goto, Others
  <1>2. RequestOK(call[c])
    BY DEF CallsOK
  <1>3. DOMAIN s = DOMAIN call[c] /\ s.at = stage /\ \A x \in DOMAIN call[c] \ {"at"} : s[x] = call[c][x]
    BY <1>2 DEF RequestOK
  <1> HIDE DEF s
  <1>4. RequestOK(s) /\ s.op = call[c].op
    BY <1>2, <1>3 DEF RequestOK
  <1> QED BY <1>1, <1>4 DEF Goes

-----------------------------------------------------------------------------
(* Requests that begin: with queries only, or with the one statement they have. *)

Looks(c) ==
    \/ \E f \in Forms : CheckRegistration(c, f)
    \/ \E name \in {db.user[u].name : u \in DOMAIN db.user} \cup {e.name : e \in Directory} :
          \E pw \in Passwords : FindForLogin(c, name, pw)
    \/ \E p \in DOMAIN db.pending :
         \/ \E valid \in BOOLEAN : TotpVerify(c, p, valid)
         \/ \E k \in DOMAIN db.code \cup {<<0, 0>>} : TotpVerifyBackup(c, p, k)
    \/ \E u \in DOMAIN db.user :
         \/ TotpSetup(c, u) \/ TotpConfirm(c, u) \/ DisableUserTotp(c, u) \/ \E pw \in Passwords : TotpDisable(c, u, pw)
         \/ \E e \in Identities : LinkIdentity(c, u, e)
         \/ FindByMail(c, u)
         \/ \E pw, new \in Passwords : CheckPassword(c, u, pw, new)
         \/ \E change \in Changes : FindUser(c, u, change)
         \/ ResetPassword(c, u)
         \/ \E l \in DOMAIN db.libs : FindLibrary(c, u, l)
    \/ \E e \in Identities : FindIdentity(c, e)
    \/ \E k \in DOMAIN db.link : FindLink(c, k)
    \/ \E t \in DOMAIN db.token : FindForRefresh(c, t) \/ FindForLogout(c, t)
    \/ \E e \in ProxyUsers : FindProxyUser(c, e)
    \/ \E k \in DOMAIN db.api : \E writes \in BOOLEAN : UseToken(c, k, writes)
    \/ \E form \in Forms : FindDomain(c, form.domain, TRUE) \/ FindDomain(c, form.domain, FALSE)
    \/ \E l \in DOMAIN db.libs : CountBooks(c, l)

LEMMA LookStarts == ASSUME CallsOK, DbOK(db), NEW c \in Calls, Looks(c) PROVE Starts(c) /\ db' = db
  <1>1. ASSUME NEW r, Waits(c, r), RequestOK(r), r.op # "link"
        PROVE  Starts(c) /\ db' = db
    BY <1>1, BeginStarts DEF Waits
  <1>2. ASSUME NEW u \in DOMAIN db.user
        PROVE  Counted(db.user[u])
    BY DEF DbOK
  <1>3. ASSUME NEW name, NEW pw, FindForLogin(c, name, pw)
        PROVE  Starts(c) /\ db' = db
    <2> DEFINE request == [op |-> "login", name |-> name, pw |-> pw, from |-> {}]
    <2>1. ASSUME NEW u \in DOMAIN db.user, NEW at \in {"unlock", "ldap", "mark", "pending", "clear"},
                 Waits(c, [at |-> at, user |-> u, row |-> db.user[u]] ++ request)
          PROVE  Starts(c) /\ db' = db
      <3> DEFINE r == [at |-> at, user |-> u, row |-> db.user[u]] ++ request
      <3>1. DOMAIN r = {"at", "user", "row", "op", "name", "pw", "from"} /\ r.at = at /\ r.row = db.user[u]
            /\ r.op = "login" /\ r.from = {}
        BY DEF ++
      <3> HIDE DEF r
      <3>2. RequestOK(r)
        BY <1>2, <3>1 DEF RequestOK
      <3> QED BY <1>1, <2>1, <3>1, <3>2 DEF r
    <2>2. ASSUME Waits(c, [at |-> "ldap"] ++ request)
          PROVE  Starts(c) /\ db' = db
      <3> DEFINE r == [at |-> "ldap"] ++ request
      <3>1. DOMAIN r = {"at", "op", "name", "pw", "from"} /\ r.at = "ldap" /\ r.op = "login" /\ r.from = {}
        BY DEF ++
      <3> HIDE DEF r
      <3>2. RequestOK(r)
        BY <3>1 DEF RequestOK
      <3> QED BY <1>1, <2>2, <3>1, <3>2 DEF r
    <2> HIDE DEF request
    <2> QED BY <1>3, <2>1, <2>2 DEF FindForLogin, AfterRead, request
  <1>4. ASSUME NEW p \in DOMAIN db.pending, NEW valid \in BOOLEAN, TotpVerify(c, p, valid)
        PROVE  Starts(c) /\ db' = db
    <2>1. db.pending[p].user \in DOMAIN db.user
      BY DEF DbOK, References, Has
    <2> QED BY <1>1, <1>2, <1>4, <2>1 DEF TotpVerify, RequestOK
  <1>5. ASSUME NEW p \in DOMAIN db.pending, NEW k, TotpVerifyBackup(c, p, k)
        PROVE  Starts(c) /\ db' = db
    <2>1. db.pending[p].user \in DOMAIN db.user
      BY DEF DbOK, References, Has
    <2> QED BY <1>1, <1>2, <1>5, <2>1 DEF TotpVerifyBackup, RequestOK
  <1>6. ASSUME NEW u \in DOMAIN db.user,
               \/ TotpSetup(c, u) \/ TotpConfirm(c, u) \/ DisableUserTotp(c, u) \/ (\E pw \in Passwords : TotpDisable(c, u, pw))
               \/ (\E e \in Identities : LinkIdentity(c, u, e)) \/ FindByMail(c, u)
               \/ (\E pw, new \in Passwords : CheckPassword(c, u, pw, new))
               \/ (\E l \in DOMAIN db.libs : FindLibrary(c, u, l))
        PROVE  Starts(c) /\ db' = db
    BY <1>1, <1>6 DEF TotpSetup, TotpConfirm, DisableUserTotp, TotpDisable, LinkIdentity, FindByMail, CheckPassword,
       FindLibrary, RequestOK
  <1>7. ASSUME NEW u \in DOMAIN db.user, ResetPassword(c, u) \/ \E change \in Changes : FindUser(c, u, change)
        PROVE  Starts(c) /\ db' = db
    BY <1>1, <1>7, ChangesAssumption DEF ResetPassword, FindUser, RequestOK
  <1>8. ASSUME NEW k \in DOMAIN db.link, FindLink(c, k)
        PROVE  Starts(c) /\ db' = db
    BY <1>8, BeginStarts, SMTT(40) DEF FindLink, Waits, RequestOK
  <1>9. ASSUME \/ \E f \in Forms : CheckRegistration(c, f)
               \/ \E e \in Identities : FindIdentity(c, e)
               \/ \E t \in DOMAIN db.token : FindForRefresh(c, t) \/ FindForLogout(c, t)
               \/ \E e \in ProxyUsers : FindProxyUser(c, e)
               \/ \E k \in DOMAIN db.api : \E writes \in BOOLEAN : UseToken(c, k, writes)
               \/ \E form \in Forms : FindDomain(c, form.domain, TRUE) \/ FindDomain(c, form.domain, FALSE)
               \/ \E l \in DOMAIN db.libs : CountBooks(c, l)
        PROVE  Starts(c) /\ db' = db
    BY <1>1, <1>9 DEF CheckRegistration, FindIdentity, FindForRefresh, FindForLogout, FindProxyUser, UseToken, FindDomain,
       CountBooks, RequestOK
  <1> QED BY <1>3, <1>4, <1>5, <1>6, <1>7, <1>8, <1>9 DEF Looks

-----------------------------------------------------------------------------
(* The statements of requests.                                               *)

\* What a statement of request c does to the tables; new rows of the kinds that
\* are spent come with the last one.
Keeps(c) == DbOK(db') /\ (Rows(db, db', {}) \/ (Rows(db, db', {c}) /\ call'[c] = Over))

\* Requests of one statement, and create_user's first
LEMMA SingleStarts == ASSUME CallsOK, NEW c \in Calls, NEW d, Single(c, d) PROVE Starts(c) /\ db' = d
  BY BeginStarts DEF Single

LEMMA PatchKeeps ==
    ASSUME CallsOK, DbOK(db), NEW c \in Calls, NEW u \in DOMAIN db.user, NEW change \in Profiles, PatchMe(c, u, change)
    PROVE  Starts(c) /\ Keeps(c)
  <1> DEFINE row == change ++ db.user[u]
             rest == [db EXCEPT !.user = Drop(@, {u})]
  <1>1. DOMAIN change \subseteq {"name", "mail"}
    BY ProfilesAssumption
  <1>2. CASE Taken(rest, row.name, row.mail)
    BY <1>2, SingleStarts, OtherRows DEF PatchMe, Keeps
  <1>3. CASE ~Taken(rest, row.name, row.mail)
    <2>1. \A v \in DOMAIN db.user \ {u} : db.user[v].name # row.name /\ db.user[v].mail # row.mail
      BY <1>3 DEF Taken, Drop, Restrict, DbOK, Columns
    <2>2. /\ DOMAIN row = UserColumns /\ row.attempts = db.user[u].attempts /\ row.lock = db.user[u].lock
          /\ row.lib = db.user[u].lib
      BY <1>1 DEF DbOK, Columns, UserColumns, ++
    <2> HIDE DEF row
    <2>3. DbOK([db EXCEPT !.user[u] = row])
      BY <2>1, <2>2 DEF DbOK, Columns, References, OneSet, Counted, Has
    <2>4. UpdateUser(db, u, change) = [db EXCEPT !.user[u] = row]
      BY DEF UpdateUser, Has, row, DbOK, Columns
    <2> QED BY <1>3, <2>3, <2>4, SingleStarts, UpdateUserRows DEF PatchMe, Keeps, row
  <1> QED BY <1>2, <1>3

LEMMA CreateTokenKeeps ==
    ASSUME CallsOK, DbOK(db), NEW c \in Calls, NEW u \in DOMAIN db.user, NEW scope, CreateToken(c, u, "name", scope)
    PROVE  Starts(c) /\ Keeps(c)
  <1> DEFINE row == [user |-> u, name |-> "name", scope |-> scope, state |-> "live", touched |-> FALSE]
             d == IF \E k \in DOMAIN db.api : db.api[k].name = "name" THEN db ELSE [db EXCEPT !.api = Put(@, c, row)]
  <1>1. Single(c, d)
    BY DEF CreateToken
  <1>2. DbOK([db EXCEPT !.api = Put(@, c, row)]) /\ Rows(db, [db EXCEPT !.api = Put(@, c, row)], {})
    BY PutApiKeeps, OtherRows
  <1>3. DbOK(d) /\ Rows(db, d, {})
    BY <1>2, OtherRows
  <1> QED BY <1>1, <1>3, SingleStarts DEF Keeps

LEMMA CreateUserKeeps ==
    ASSUME CallsOK, DbOK(db), NEW c \in Calls, NEW form \in Accounts0, CreateUser(c, form)
    PROVE  Starts(c) /\ Keeps(c)
  <1> DEFINE r == IF form.active \/ Taken(db, form.name, form.mail) THEN Over
                  ELSE [op |-> "create", at |-> "edit", user |-> c, change |-> [active |-> FALSE]]
  <1>1. Begin(c, r)
    BY DEF CreateUser
  <1>2. r = Over \/ (RequestOK(r) /\ r.op # "link")
    BY DEF RequestOK
  <1> HIDE DEF r
  <1>3. Starts(c)
    BY <1>1, <1>2, BeginStarts
  <1>4. Keeps(c)
    BY InsertUserKeeps, InsertUserRows, OtherRows DEF CreateUser, Keeps
  <1> QED BY <1>3, <1>4

Singles(c) ==
    \/ \E e \in Identities, u \in DOMAIN db.user : Unlink(c, u, e)
    \/ \E u \in DOMAIN db.user :
         \/ RevokeLinks(c, u)
         \/ \E change \in Profiles : PatchMe(c, u, change)
         \/ DeleteUser(c, u)
         \/ \E scope \in {"read", "write", "admin"} : CreateToken(c, u, "name", scope)
         \/ \E k \in DOMAIN db.api : DeleteToken(c, u, k)
    \/ \E form \in Accounts0 : CreateUser(c, form)
    \/ \E domain \in DOMAIN db.domain : DeleteDomain(c, domain)
    \/ \E name \in LibraryNames : CreateLibrary(c, name)

LEMMA SinglesKeep == ASSUME CallsOK, DbOK(db), NEW c \in Calls, Singles(c) PROVE Starts(c) /\ Keeps(c)
  <1>1. ASSUME NEW u, NEW e, Unlink(c, u, e)
        PROVE  Starts(c) /\ Keeps(c)
    BY <1>1, SingleStarts, DropOauthKeeps, OtherRows, ZenonT(60) DEF Unlink, Keeps
  <1>2. ASSUME NEW u, RevokeLinks(c, u)
        PROVE  Starts(c) /\ Keeps(c)
    BY <1>2, SingleStarts, DropLinksKeeps, DropLinksRows DEF RevokeLinks, Keeps
  <1>3. ASSUME NEW u, DeleteUser(c, u)
        PROVE  Starts(c) /\ Keeps(c)
    BY <1>3, SingleStarts, DeleteUserKeeps, DeleteUserRows DEF DeleteUser, Keeps
  <1>4. ASSUME NEW u, NEW k, DeleteToken(c, u, k)
        PROVE  Starts(c) /\ Keeps(c)
    BY <1>4, SingleStarts, DropApiKeeps, OtherRows DEF DeleteToken, Keeps
  <1>5. ASSUME NEW domain, DeleteDomain(c, domain)
        PROVE  Starts(c) /\ Keeps(c)
    BY <1>5, SingleStarts, DomainKeeps, OtherRows DEF DeleteDomain, Keeps
  <1>6. ASSUME NEW name, CreateLibrary(c, name)
        PROVE  Starts(c) /\ Keeps(c)
    <2>1. DbOK([db EXCEPT !.libs = Put(@, c, name)]) /\ Rows(db, [db EXCEPT !.libs = Put(@, c, name)], {}) /\ Rows(db, db, {})
      BY PutLibraryKeeps, OtherRows
    <2> QED BY <1>6, <2>1, SingleStarts DEF CreateLibrary, Keeps
  <1> QED BY <1>1, <1>2, <1>3, <1>4, <1>5, <1>6, PatchKeeps, CreateTokenKeeps, CreateUserKeeps DEF Singles

\* Last statements. Those of sessions are apart.
LEMMA LastGoes ==
    ASSUME CallsOK, NEW c \in Calls, NEW stage, At(c, stage), NEW d, Last(c, d)
    PROVE  Goes(c) /\ call'[c] = Over /\ db' = d
  BY AnswerGoes DEF At, Last

Lasts(c) ==
    \/ Register(c) \/ MarkFailed(c) \/ IssuePending(c)
    \/ SetSecret(c) \/ EnableTotp(c) \/ DisableTotp(c)
    \/ InsertLink(c) \/ CreateProxyUser(c)
    \/ UpdatePassword(c) \/ EditUser(c) \/ SetDefaultLibrary(c)
    \/ TouchToken(c) \/ InsertDomain(c) \/ DeleteLibrary(c)

LEMMA LastsKeep == ASSUME CallsOK, DbOK(db), NEW c \in Calls, Lasts(c) PROVE Goes(c) /\ Keeps(c)
  <1>1. ASSUME NEW stage, At(c, stage), NEW d, Last(c, d), DbOK(d), Rows(db, d, {}) \/ Rows(db, d, {c})
        PROVE  Goes(c) /\ Keeps(c)
    BY <1>1, LastGoes DEF Keeps
  <1>2. Rows(db, db, {})
    BY OtherRows
  <1>3. ASSUME NEW stage, At(c, stage)
        PROVE  RequestOK(call[c]) /\ call[c].at = stage
    BY <1>3 DEF At, CallsOK
  <1>4. ASSUME Register(c)
        PROVE  Goes(c) /\ Keeps(c)
    BY <1>1, <1>2, <1>4, InsertUserKeeps, InsertUserRows DEF Register
  <1>5. ASSUME MarkFailed(c)
        PROVE  Goes(c) /\ Keeps(c)
    <2>1. At(c, "mark") /\ Counted(call[c].row) /\ Last(c, Failed(db, call[c].user, call[c].row))
      BY <1>3, <1>5 DEF MarkFailed, RequestOK
    <2>2. Rows(db, Failed(db, call[c].user, call[c].row), {})
      BY UpdateUserRows DEF Failed
    <2> QED BY <1>1, <2>1, <2>2, FailedKeeps
  <1>6. ASSUME IssuePending(c)
        PROVE  Goes(c) /\ Keeps(c)
    BY <1>1, <1>6, InsertPendingKeeps, InsertPendingRows DEF IssuePending
  <1>7. ASSUME SetSecret(c)
        PROVE  Goes(c) /\ Keeps(c)
    <2>1. DbOK(WithSecret(db, call[c].user, c))
      BY UpdateUserKeeps DEF WithSecret, UserColumns
    <2>2. Rows(db, WithSecret(db, call[c].user, c), {})
      BY UpdateUserRows DEF WithSecret
    <2> QED BY <1>1, <1>7, <2>1, <2>2 DEF SetSecret
  <1>8. ASSUME EnableTotp(c)
        PROVE  Goes(c) /\ Keeps(c)
    BY <1>1, <1>8, EnabledKeeps, EnabledRows DEF EnableTotp
  <1>9. ASSUME DisableTotp(c)
        PROVE  Goes(c) /\ Keeps(c)
    BY <1>1, <1>9, DisabledKeeps, DisabledRows DEF DisableTotp
  <1>10. ASSUME InsertLink(c)
         PROVE  Goes(c) /\ Keeps(c)
    <2> DEFINE d == [db EXCEPT !.link = Put(@, c, [user |-> call[c].user, state |-> "live"])]
    <2>1. Rows(db, d, {c}) /\ (Has(db.user, call[c].user) => DbOK(d))
      BY InsertLinkKeeps, InsertLinkRows DEF Has
    <2> QED BY <1>1, <1>2, <1>10, <2>1 DEF InsertLink
  <1>11. ASSUME CreateProxyUser(c)
         PROVE  Goes(c) /\ Keeps(c)
    BY <1>1, <1>2, <1>11, InsertUserKeeps, InsertUserRows DEF CreateProxyUser
  <1>12. ASSUME UpdatePassword(c)
         PROVE  Goes(c) /\ Keeps(c)
    <2>1. DbOK(UpdateUser(db, call[c].user, [pw |-> call[c].pw, reset |-> FALSE]))
      BY UpdateUserKeeps DEF UserColumns
    <2> QED BY <1>1, <1>12, <2>1, UpdateUserRows DEF UpdatePassword
  <1>13. ASSUME EditUser(c)
         PROVE  Goes(c) /\ Keeps(c)
    <2>1. DOMAIN call[c].change \subseteq {"role", "active", "reset"}
      BY <1>3, <1>13 DEF EditUser, RequestOK
    <2>2. DbOK(UpdateUser(db, call[c].user, call[c].change))
      BY <2>1, UpdateUserKeeps DEF UserColumns
    <2> QED BY <1>1, <1>13, <2>2, UpdateUserRows DEF EditUser
  <1>14. ASSUME SetDefaultLibrary(c)
         PROVE  Goes(c) /\ Keeps(c)
    BY <1>1, <1>2, <1>14, DefaultLibraryKeeps, UpdateUserRows DEF SetDefaultLibrary, Has
  <1>15. ASSUME TouchToken(c)
         PROVE  Goes(c) /\ Keeps(c)
    <2> DEFINE d == [db EXCEPT !.api[call[c].token].touched = TRUE]
    <2>1. Rows(db, d, {})
      BY SameRows DEF DbOK, Columns
    <2>2. Has(db.api, call[c].token) => DbOK(d)
      BY TouchApiKeeps DEF Has
    <2> QED BY <1>1, <1>2, <1>15, <2>1, <2>2 DEF TouchToken
  <1>16. ASSUME InsertDomain(c)
         PROVE  Goes(c) /\ Keeps(c)
    <2> DEFINE d == [db EXCEPT !.domain = Put(@, call[c].domain, call[c].allow)]
    <2>1. Rows(db, d, {}) /\ DbOK(d)
      BY DomainKeeps, OtherRows
    <2> QED BY <1>1, <1>2, <1>16, <2>1 DEF InsertDomain
  <1>17. ASSUME DeleteLibrary(c)
         PROVE  Goes(c) /\ Keeps(c)
    <2> DEFINE l == call[c].lib
               d == [db EXCEPT !.libs = Drop(@, {l})]
    <2>1. l # Default /\ At(c, "unlib")
      BY <1>3, <1>17 DEF DeleteLibrary, RequestOK
    <2>2. Rows(db, d, {})
      BY OtherRows
    <2>3. (\A u \in DOMAIN db.user : db.user[u].lib # l) => DbOK(d)
      BY <2>1, DropLibraryKeeps
    <2>4. Last(c, IF \E u \in DOMAIN db.user : db.user[u].lib = l THEN db ELSE d)
      BY <1>17 DEF DeleteLibrary
    <2> HIDE DEF l, d
    <2> QED BY <1>1, <1>2, <2>1, <2>2, <2>3, <2>4
  <1> QED BY <1>4, <1>5, <1>6, <1>7, <1>8, <1>9, <1>10, <1>11, <1>12, <1>13, <1>14, <1>15, <1>16, <1>17 DEF Lasts

\* Statements after which a request may go on
Moves(c) ==
    \/ Unlock(c) \/ Reread(c) \/ AskDirectory(c) \/ CreateLdapUser(c) \/ ClearLockout(c)
    \/ CreateOauthUser(c) \/ CreateOauthAccount(c)
    \/ Revoke(c)
    \/ StatementFails(c)

\* A login that learns more about its user
LEMMA LoginGoes ==
    ASSUME CallsOK, NEW c \in Calls, InFlight(c), call[c].op = "login", NEW more, "at" \in DOMAIN more,
           DOMAIN more \subseteq {"at", "user", "entry"}, more.at \in {"ldapuser", "pending", "clear"},
           call' = [call EXCEPT ![c] = more ++ @]
    PROVE  Goes(c)
  <1> DEFINE s == more ++ call[c]
  <1>1. call'[c] = s /\ Others(c)
    BY DEF CallsOK, Others
  <1>2. RequestOK(call[c])
    BY DEF CallsOK
  <1>3. /\ DOMAIN s = DOMAIN call[c] \cup DOMAIN more /\ s.at = more.at
        /\ \A x \in DOMAIN call[c] \ {"at", "user", "entry"} : s[x] = call[c][x]
    BY DEF ++
  <1> HIDE DEF s
  <1>4. RequestOK(s) /\ s.op = call[c].op
    BY <1>2, <1>3 DEF RequestOK
  <1> QED BY <1>1, <1>4 DEF Goes

LEMMA RereadGoes == ASSUME CallsOK, DbOK(db), NEW c \in Calls, Reread(c) PROVE Goes(c) /\ db' = db
  <1> DEFINE u == call[c].user
             at == AfterRead(db.user[u], call[c].pw)
             s == [call[c] EXCEPT !.at = at, !.row = db.user[u]]
  <1>1. InFlight(c) /\ RequestOK(call[c]) /\ call[c].op = "login" /\ "row" \in DOMAIN call[c] /\ db' = db
    BY DEF CallsOK, RequestOK, Reread, At
  <1>2. CASE u \in DOMAIN db.user
    <2>1. call'[c] = s /\ Others(c)
      BY <1>2 DEF CallsOK, Others, Reread, Has
    <2>2. Counted(db.user[u])
      BY <1>2 DEF DbOK
    <2>3. at \in {"ldap", "mark", "pending", "clear"}
      BY DEF AfterRead
    <2> HIDE DEF at
    <2>4. /\ DOMAIN s = DOMAIN call[c] /\ s.at = at /\ s.row = db.user[u]
          /\ \A x \in DOMAIN call[c] \ {"at", "row"} : s[x] = call[c][x]
      BY <1>1 DEF RequestOK
    <2> HIDE DEF s
    <2>5. RequestOK(s) /\ s.op = call[c].op
      BY <1>1, <2>2, <2>3, <2>4 DEF RequestOK
    <2> QED BY <1>1, <2>1, <2>5 DEF Goes
  <1>3. CASE u \notin DOMAIN db.user
    BY <1>1, <1>3, AnswerGoes DEF Reread, Has
  <1> QED BY <1>2, <1>3

LEMMA MovesKeep == ASSUME CallsOK, DbOK(db), NEW c \in Calls, Moves(c) PROVE Goes(c) /\ Keeps(c)
  <1>1. ASSUME NEW stage, At(c, stage)
        PROVE  InFlight(c) /\ RequestOK(call[c]) /\ call[c].at = stage
    BY <1>1 DEF At, CallsOK
  <1>2. db' = db => Keeps(c)
    BY OtherRows DEF Keeps
  <1>3. ASSUME Unlock(c)
        PROVE  Goes(c) /\ Keeps(c)
    <2>1. InFlight(c) /\ RequestOK(call[c]) /\ call[c].at = "unlock"
      BY <1>1, <1>3 DEF Unlock
    <2>2. call[c].op = "login" /\ "row" \in DOMAIN call[c]
      BY <2>1 DEF RequestOK
    <2>3. Goes(c)
      BY <1>3, <2>1, <2>2, GotoGoes DEF Unlock
    <2>4. Keeps(c)
      BY <1>3, UnlockedKeeps, UpdateUserRows DEF Unlock, Unlocked, Keeps
    <2> QED BY <2>3, <2>4
  <1>4. ASSUME Reread(c)
        PROVE  Goes(c) /\ Keeps(c)
    BY <1>2, <1>4, RereadGoes
  <1>5. ASSUME AskDirectory(c)
        PROVE  Goes(c) /\ Keeps(c)
    <2>1. InFlight(c) /\ RequestOK(call[c]) /\ call[c].at = "ldap"
      BY <1>1, <1>5 DEF AskDirectory
    <2>2. call[c].op = "login"
      BY <2>1 DEF RequestOK
    <2>3. ASSUME NEW e, call' = [call EXCEPT ![c] = [at |-> "ldapuser", entry |-> e] ++ @]
          PROVE  Goes(c)
      <3> DEFINE more == [at |-> "ldapuser", entry |-> e]
      <3>1. DOMAIN more = {"at", "entry"} /\ more.at = "ldapuser" /\ call' = [call EXCEPT ![c] = more ++ @]
        BY <2>3
      <3> HIDE DEF more
      <3> QED BY <2>1, <2>2, <3>1, LoginGoes
    <2>4. ASSUME NEW u, NEW at \in {"pending", "clear"}, call' = [call EXCEPT ![c] = [at |-> at, user |-> u] ++ @]
          PROVE  Goes(c)
      <3> DEFINE more == [at |-> at, user |-> u]
      <3>1. DOMAIN more = {"at", "user"} /\ more.at = at /\ call' = [call EXCEPT ![c] = more ++ @]
        BY <2>4
      <3> HIDE DEF more
      <3> QED BY <2>1, <2>2, <3>1, LoginGoes
    <2>5. Goes(c)
      BY <1>5, <2>1, <2>3, <2>4, AnswerGoes DEF AskDirectory
    <2> QED BY <1>2, <1>5, <2>5 DEF AskDirectory
  <1>6. ASSUME CreateLdapUser(c)
        PROVE  Goes(c) /\ Keeps(c)
    <2> DEFINE e == call[c].entry
    <2>1. InFlight(c) /\ RequestOK(call[c]) /\ call[c].at = "ldapuser"
      BY <1>1, <1>6 DEF CreateLdapUser
    <2>2. call[c].op = "login"
      BY <2>1 DEF RequestOK
    <2>3. CASE Taken(db, e.name, e.mail)
      BY <1>2, <1>6, <2>1, <2>3, AnswerGoes DEF CreateLdapUser
    <2>4. CASE ~Taken(db, e.name, e.mail)
      <3>1. db' = InsertUser(db, c, e.name, e.mail, "user", Unguessable)
            /\ call' = [call EXCEPT ![c] = [at |-> "clear", user |-> c] ++ @]
        BY <1>6, <2>4 DEF CreateLdapUser
      <3>2. Goes(c)
        <4> DEFINE more == [at |-> "clear", user |-> c]
        <4>1. DOMAIN more = {"at", "user"} /\ more.at = "clear" /\ call' = [call EXCEPT ![c] = more ++ @]
          BY <3>1
        <4> HIDE DEF more
        <4> QED BY <2>1, <2>2, <4>1, LoginGoes
      <3>3. Keeps(c)
        BY <2>4, <3>1, InsertUserKeeps, InsertUserRows DEF Keeps
      <3> QED BY <3>2, <3>3
    <2> QED BY <2>3, <2>4
  <1>7. ASSUME ClearLockout(c)
        PROVE  Goes(c) /\ Keeps(c)
    <2>1. InFlight(c) /\ RequestOK(call[c]) /\ call[c].at = "clear"
      BY <1>1, <1>7 DEF ClearLockout
    <2>2. call[c].op \in {"login", "totp"}
      BY <2>1 DEF RequestOK
    <2>3. Goes(c)
      BY <1>7, <2>1, <2>2, GotoGoes, AnswerGoes DEF ClearLockout
    <2>4. Keeps(c)
      BY <1>7, UnlockedKeeps, UpdateUserRows DEF ClearLockout, Unlocked, Keeps
    <2> QED BY <2>3, <2>4
  <1>8. ASSUME CreateOauthUser(c)
        PROVE  Goes(c) /\ Keeps(c)
    <2> DEFINE e == call[c].identity
    <2>1. InFlight(c) /\ RequestOK(call[c]) /\ call[c].at = "oauthuser"
      BY <1>1, <1>8 DEF CreateOauthUser
    <2>2. call[c].op = "oauth"
      BY <2>1 DEF RequestOK
    <2>3. CASE Taken(db, e.name, e.mail)
      BY <1>2, <1>8, <2>1, <2>3, AnswerGoes DEF CreateOauthUser
    <2>4. CASE ~Taken(db, e.name, e.mail)
      <3>1. db' = InsertUser(db, c, e.name, e.mail, "user", Unguessable) /\ Goto(c, "account")
        BY <1>8, <2>4 DEF CreateOauthUser
      <3>2. Goes(c)
        BY <2>1, <2>2, <3>1, GotoGoes
      <3>3. Keeps(c)
        BY <2>4, <3>1, InsertUserKeeps, InsertUserRows DEF Keeps
      <3> QED BY <3>2, <3>3
    <2> QED BY <2>3, <2>4
  <1>9. ASSUME CreateOauthAccount(c)
        PROVE  Goes(c) /\ Keeps(c)
    <2>1. InFlight(c) /\ RequestOK(call[c]) /\ call[c].at = "account"
      BY <1>1, <1>9 DEF CreateOauthAccount
    <2>2. Goes(c)
      BY <1>9, <2>1, GotoGoes, AnswerGoes DEF CreateOauthAccount
    <2>3. Rows(db, UpsertOauth(db, call[c].identity.key, call[c].user), {})
      BY OtherRows DEF UpsertOauth
    <2>4. Keeps(c)
      BY <1>9, <2>3, UpsertOauthKeeps DEF CreateOauthAccount, Keeps
    <2> QED BY <2>2, <2>4
  <1>10. ASSUME Revoke(c)
         PROVE  Goes(c) /\ Keeps(c)
    <2>1. InFlight(c) /\ RequestOK(call[c]) /\ call[c].at = "revoke"
      BY <1>1, <1>10 DEF Revoke
    <2>2. call[c].op \in {"refresh", "logout"}
      BY <2>1 DEF RequestOK
    <2>3. Goes(c)
      BY <1>10, <2>1, <2>2, GotoGoes, AnswerGoes DEF Revoke
    <2>4. Keeps(c)
      BY <1>10, RevokeTokenKeeps, RevokeTokenRows DEF Revoke, Keeps
    <2> QED BY <2>3, <2>4
  <1>11. ASSUME StatementFails(c)
         PROVE  Goes(c) /\ Keeps(c)
    BY <1>2, <1>11, AnswerGoes DEF StatementFails
  <1> QED BY <1>3, <1>4, <1>5, <1>6, <1>7, <1>8, <1>9, <1>10, <1>11 DEF Moves

-----------------------------------------------------------------------------
(* What is spent yields one session.                                         *)

\* A number that no later row will have
Done(n) == n \in Calls => call[n] = Over

\* The rows that can be spent have such numbers.
Made ==
    /\ \A p \in DOMAIN db.pending : Done(p)
    /\ \A k \in DOMAIN db.code : Done(k[1])
    /\ \A k \in DOMAIN db.link : Done(k)

\* What cannot be spent (again)
Spent(x) ==
    /\ x[1] = "pending" => x[2] \notin DOMAIN db.pending /\ Done(x[2])
    /\ x[1] = "code" => (x[2] \in DOMAIN db.code => db.code[x[2]].used = TRUE) /\ Done(x[2][1])
    /\ x[1] = "link" => (x[2] \in DOMAIN db.link => db.link[x[2]].state = "used") /\ Done(x[2])

\* What the sessions were got for is spent, and so is what a request got hold of:
\* that is of no session, and of no other request.
Got(k) == <<"link", k>>
SessionsSpent == \A t \in DOMAIN db.token : \A x \in db.token[t].from : Spent(x)
HoldersSpent ==
    \A c \in Calls : Holding(c) =>
        /\ Spent(Got(call[c].link))
        /\ \A t \in DOMAIN db.token : Got(call[c].link) \notin db.token[t].from
        /\ \A e \in Calls \ {c} : Holding(e) => call[e].link # call[c].link

Claims == Made /\ SessionsSpent /\ SpentOnce /\ HoldersSpent

LEMMA DoneStays ==
    ASSUME NEW c \in Calls, Others(c), call[c] # Over, NEW n, Done(n)
    PROVE  Done(n)' /\ n # c
  BY DEF Done, Others

LEMMA MadeStays ==
    ASSUME NEW c \in Calls, Others(c), call[c] # Over, Made,
           Spends(db, db', {}) \/ (Spends(db, db', {c}) /\ call'[c] = Over)
    PROVE  Made'
  <1>1. ASSUME NEW n, Done(n) \/ (n = c /\ call'[c] = Over)
        PROVE  Done(n)'
    BY <1>1, DoneStays DEF Done
  <1>2. ASSUME NEW p \in DOMAIN db'.pending
        PROVE  Done(p)'
    BY <1>1, <1>2 DEF Made, Spends
  <1>3. ASSUME NEW k \in DOMAIN db'.code
        PROVE  Done(k[1])'
    BY <1>1, <1>3 DEF Made, Spends
  <1>4. ASSUME NEW k \in DOMAIN db'.link
        PROVE  Done(k)'
    BY <1>1, <1>4 DEF Made, Spends
  <1> QED BY <1>2, <1>3, <1>4 DEF Made

LEMMA SpentStays ==
    ASSUME NEW c \in Calls, Others(c), call[c] # Over, NEW x, Spent(x),
           Spends(db, db', {}) \/ Spends(db, db', {c})
    PROVE  Spent(x)'
  <1>1. ASSUME x[1] = "pending"
        PROVE  x[2] \notin DOMAIN db'.pending /\ Done(x[2])'
    BY <1>1, DoneStays DEF Spent, Spends
  <1>2. ASSUME x[1] = "code"
        PROVE  (x[2] \in DOMAIN db'.code => db'.code[x[2]].used = TRUE) /\ Done(x[2][1])'
    BY <1>2, DoneStays DEF Spent, Spends
  <1>3. ASSUME x[1] = "link"
        PROVE  (x[2] \in DOMAIN db'.link => db'.link[x[2]].state = "used") /\ Done(x[2])'
    BY <1>3, DoneStays DEF Spent, Spends
  <1> QED BY <1>1, <1>2, <1>3 DEF Spent

\* A step of request c that gets hold of no link, and whose session (if it gets
\* one) is got for things that are spent by now and were nobody else's.
LEMMA ClaimsStay ==
    ASSUME NEW c \in Calls, Others(c), call[c] # Over, ~Holding(c)', Claims,
           Spends(db, db', {}) \/ (Spends(db, db', {c}) /\ call'[c] = Over),
           NEW got,
           \A t \in DOMAIN db'.token : \/ db'.token[t].from = {}
                                       \/ t \in DOMAIN db.token /\ db'.token[t].from = db.token[t].from
                                       \/ t = c /\ db'.token[t].from = got,
           \A x \in got : /\ Spent(x)'
                          /\ \A t \in DOMAIN db.token : x \notin db.token[t].from
                          /\ \A e \in Calls \ {c} : Holding(e) => x # Got(call[e].link)
    PROVE  Claims'
  <1>1. Made'
    BY MadeStays DEF Claims
  <1>2. ASSUME NEW x, Spent(x)
        PROVE  Spent(x)'
    BY <1>2, SpentStays
  <1>3. ASSUME NEW t \in DOMAIN db'.token, NEW x \in db'.token[t].from
        PROVE  Spent(x)'
    BY <1>2, <1>3 DEF Claims, SessionsSpent
  <1>4. ASSUME NEW s \in DOMAIN db'.token, NEW t \in DOMAIN db'.token, s # t, NEW x \in db'.token[s].from, x \in db'.token[t].from
        PROVE  FALSE
    BY <1>4 DEF Claims, SpentOnce
  <1>5. \A e \in Calls : Holding(e)' => e # c /\ Holding(e) /\ call'[e] = call[e]
    BY DEF Holding, InFlight, Others
  <1>6. ASSUME NEW e \in Calls, Holding(e)'
        PROVE  /\ Spent(Got(call[e].link))'
               /\ \A t \in DOMAIN db'.token : Got(call[e].link) \notin db'.token[t].from
    BY <1>2, <1>5, <1>6 DEF Claims, HoldersSpent
  <1>7. HoldersSpent'
    BY <1>5, <1>6 DEF Claims, HoldersSpent, Got
  <1> QED BY <1>1, <1>3, <1>4, <1>7 DEF Claims, SessionsSpent, SpentOnce

LEMMA QuietClaims ==
    ASSUME NEW c \in Calls, Claims, Starts(c) \/ Goes(c), Keeps(c)
    PROVE  Claims'
  <1>1. call[c] # Over /\ Others(c)
    BY DEF Starts, Goes, InFlight, New, Over
  <1>2. ~Holding(c)'
    BY DEF Starts, Goes, Holding, InFlight
  <1>3. Spends(db, db', {}) \/ (Spends(db, db', {c}) /\ call'[c] = Over)
    BY DEF Keeps, Rows
  <1>4. \A t \in DOMAIN db'.token : db'.token[t].from = {} \/ (t \in DOMAIN db.token /\ db'.token[t].from = db.token[t].from)
    BY DEF Keeps, Rows
  <1>5. \A x \in {} : FALSE
    OBVIOUS
  <1> QED BY <1>1, <1>2, <1>3, <1>4, <1>5, ClaimsStay

\* The statements that get sessions, or hold of a link
Sessions(c) == SpendPending(c) \/ SpendCode(c) \/ IssueSession(c)

LEMMA InsertTokenSpends ==
    ASSUME NEW d, DbOK(d), NEW t, NEW u, NEW from
    PROVE  /\ Spends(d, InsertToken(d, t, u, from), {})
           /\ \A s \in DOMAIN InsertToken(d, t, u, from).token :
                 \/ s \in DOMAIN d.token /\ InsertToken(d, t, u, from).token[s].from = d.token[s].from
                 \/ s = t /\ InsertToken(d, t, u, from).token[s].from = from
  BY DEF DbOK, Columns, InsertToken, Put, Spends

LEMMA SpendPendingKeeps ==
    ASSUME CallsOK, DbOK(db), Claims, NEW c \in Calls, SpendPending(c)
    PROVE  Goes(c) /\ DbOK(db') /\ Claims'
  <1>0. PICK p : p = call[c].pending
    OBVIOUS
  <1> DEFINE d == [db EXCEPT !.pending = Drop(@, {p})]
             got == {<<"pending", p>>}
  <1>1. InFlight(c) /\ RequestOK(call[c]) /\ call[c].op = "totp"
    BY DEF SpendPending, At, CallsOK, RequestOK
  <1>2. CASE ~Has(db.pending, p)
    <2>1. Goes(c) /\ Keeps(c)
      BY <1>0, <1>1, <1>2, AnswerGoes, OtherRows DEF SpendPending, Keeps
    <2> QED BY <2>1, QuietClaims DEF Keeps
  <1>3. CASE Has(db.pending, p)
    <2>1. db' = InsertToken(d, c, call[c].user, got) /\ Goto(c, "clear")
      BY <1>0, <1>3 DEF SpendPending
    <2>2. Goes(c)
      BY <1>1, <2>1, GotoGoes
    <2>3. /\ DbOK(d) /\ Rows(db, d, {}) /\ DOMAIN d.pending = DOMAIN db.pending \ {p} /\ d.token = db.token
      BY DropPendingKeeps, DropPendingRows DEF DbOK, Columns, Drop, Restrict
    <2> HIDE DEF d, got
    <2>4. DbOK(db')
      BY <2>1, <2>3, InsertTokenKeeps
    <2>5. /\ Spends(d, db', {})
          /\ \A t \in DOMAIN db'.token : \/ t \in DOMAIN d.token /\ db'.token[t].from = d.token[t].from
                                         \/ t = c /\ db'.token[t].from = got
      BY <2>1, <2>3, InsertTokenSpends
    <2>5a. Spends(db, db', {})
      BY <2>5, <2>3 DEF Spends, Rows
    <2>5b. \A t \in DOMAIN db'.token : \/ db'.token[t].from = {}
                                       \/ t \in DOMAIN db.token /\ db'.token[t].from = db.token[t].from
                                       \/ t = c /\ db'.token[t].from = got
      BY <2>5, <2>3
    <2>6. p \notin DOMAIN db'.pending
      BY <2>1, <2>3 DEF InsertToken, DbOK, Columns
    <2>7. Done(p)'
      BY <1>1, <1>3, <2>2, DoneStays DEF Claims, Made, Has, Goes, InFlight
    <2>8. Spent(<<"pending", p>>)'
      BY <2>6, <2>7 DEF Spent
    <2>9. ~Spent(<<"pending", p>>)
      BY <1>3 DEF Spent, Has
    <2>10. \A x \in got : /\ Spent(x)'
                          /\ \A t \in DOMAIN db.token : x \notin db.token[t].from
                          /\ \A e \in Calls \ {c} : Holding(e) => x # Got(call[e].link)
      BY <2>8, <2>9 DEF Claims, SessionsSpent, Got, got
    <2>11. Others(c) /\ call[c] # Over /\ ~Holding(c)'
      BY <1>1, <2>2 DEF Goes, Holding, InFlight
    <2> QED BY <2>2, <2>4, <2>5a, <2>5b, <2>10, <2>11, ClaimsStay
  <1> QED BY <1>2, <1>3

LEMMA SpendCodeKeeps ==
    ASSUME CallsOK, DbOK(db), Claims, NEW c \in Calls, SpendCode(c)
    PROVE  Goes(c) /\ DbOK(db') /\ Claims'
  <1>0. PICK r : r = call[c]
    OBVIOUS
  <1> DEFINE cleared == Unlocked(db, r.user)
             marked == [cleared EXCEPT !.code[r.code].used = TRUE]
             d == [marked EXCEPT !.pending = Drop(@, {r.pending})]
             got == {<<"pending", r.pending>>, <<"code", r.code>>}
             valid == Has(db.code, r.code) /\ db.code[r.code] = [user |-> r.user, used |-> FALSE]
  <1>1. InFlight(c) /\ RequestOK(r) /\ r.op = "backup" /\ "row" \in DOMAIN r
    BY <1>0 DEF SpendCode, At, CallsOK, RequestOK
  <1>2. CASE ~valid
    <2>1. Goes(c)
      BY <1>0, <1>1, <1>2, GotoGoes DEF SpendCode
    <2>2. Keeps(c)
      BY <1>0, <1>2, OtherRows DEF SpendCode, Keeps
    <2> QED BY <2>1, <2>2, QuietClaims DEF Keeps
  <1>3. CASE valid /\ ~Has(db.pending, r.pending)
    <2>1. Goes(c) /\ Keeps(c)
      BY <1>0, <1>1, <1>3, AnswerGoes, OtherRows DEF SpendCode, Keeps
    <2> QED BY <2>1, QuietClaims DEF Keeps
  <1>4. CASE valid /\ Has(db.pending, r.pending)
    <2>1. cleared.code = db.code /\ cleared.pending = db.pending /\ cleared.token = db.token /\ DbOK(cleared) /\ Rows(db, cleared, {})
      BY UnlockedKeeps, UpdateUserRows DEF Unlocked, UpdateUser, DbOK, Columns
    <2>2. db' = InsertToken(d, c, r.user, got) /\ Answer(c)
      <3>1. d = [cleared EXCEPT !.code[r.code].used = TRUE, !.pending = Drop(@, {r.pending})]
        OBVIOUS
      <3> HIDE DEF d, cleared
      <3> QED BY <1>0, <1>4, <3>1 DEF SpendCode, cleared
    <2> HIDE DEF cleared
    <2>3. /\ DbOK(marked) /\ Rows(cleared, marked, {}) /\ marked.pending = cleared.pending /\ marked.token = cleared.token
          /\ DOMAIN marked.code = DOMAIN db.code /\ marked.code[r.code].used = TRUE
      BY <1>4, <2>1, UseCodeKeeps, UseCodeRows, SMTT(40) DEF Has, DbOK, Columns
    <2> HIDE DEF marked
    <2>4. /\ DbOK(d) /\ Rows(marked, d, {}) /\ DOMAIN d.pending = DOMAIN db.pending \ {r.pending} /\ d.token = db.token
          /\ d.code = marked.code
      BY <2>1, <2>3, DropPendingKeeps, DropPendingRows, ZenonT(80) DEF DbOK, Columns, Drop, Restrict
    <2> HIDE DEF d, got
    <2>5. Goes(c)
      BY <1>1, <2>2, AnswerGoes
    <2>6. DbOK(db')
      BY <2>2, <2>4, InsertTokenKeeps
    <2>7. Spends(db, d, {})
      BY <2>1, <2>3, <2>4, RowsAdd DEF Rows
    <2>8. /\ Spends(d, db', {})
          /\ \A t \in DOMAIN db'.token : \/ t \in DOMAIN d.token /\ db'.token[t].from = d.token[t].from
                                         \/ t = c /\ db'.token[t].from = got
      BY <2>2, <2>4, InsertTokenSpends
    <2>8a. Spends(db, db', {})
      BY <2>8, <2>7 DEF Spends
    <2>8b. \A t \in DOMAIN db'.token : \/ db'.token[t].from = {}
                                       \/ t \in DOMAIN db.token /\ db'.token[t].from = db.token[t].from
                                       \/ t = c /\ db'.token[t].from = got
      BY <2>8, <2>4
    <2>9. r.pending \notin DOMAIN db'.pending /\ db'.code = d.code
      BY <2>2, <2>4 DEF InsertToken, DbOK, Columns
    <2>10. Done(r.pending)' /\ Done(r.code[1])'
      BY <1>1, <1>4, <2>5, DoneStays DEF Claims, Made, Has, Goes, InFlight
    <2>11. Spent(<<"pending", r.pending>>)'
      BY <2>9, <2>10 DEF Spent
    <2>12. Spent(<<"code", r.code>>)'
      BY <2>3, <2>4, <2>9, <2>10 DEF Spent
    <2>13. ~Spent(<<"pending", r.pending>>) /\ ~Spent(<<"code", r.code>>)
      BY <1>4 DEF Spent, Has
    <2>14. \A x \in got : /\ Spent(x)'
                          /\ \A t \in DOMAIN db.token : x \notin db.token[t].from
                          /\ \A e \in Calls \ {c} : Holding(e) => x # Got(call[e].link)
      BY <2>11, <2>12, <2>13 DEF Claims, SessionsSpent, Got, got
    <2>15. Others(c) /\ call[c] # Over /\ ~Holding(c)'
      BY <1>1, <2>5 DEF Goes, Holding, InFlight
    <2> QED BY <2>5, <2>6, <2>8a, <2>8b, <2>14, <2>15, ClaimsStay
  <1> QED BY <1>2, <1>3, <1>4

LEMMA IssueSessionKeeps ==
    ASSUME CallsOK, DbOK(db), Claims, NEW c \in Calls, IssueSession(c)
    PROVE  Goes(c) /\ DbOK(db') /\ Claims'
  <1> DEFINE got == call[c].from
  <1>1. InFlight(c) /\ RequestOK(call[c]) /\ call[c].at = "issue"
    BY DEF IssueSession, At, CallsOK
  <1>2. db' = InsertToken(db, c, call[c].user, got) /\ Goes(c) /\ call'[c] = Over
    BY LastGoes DEF IssueSession
  <1>3. DbOK(db')
    BY <1>2, InsertTokenKeeps
  <1>4. /\ Spends(db, db', {})
        /\ \A t \in DOMAIN db'.token : \/ t \in DOMAIN db.token /\ db'.token[t].from = db.token[t].from
                                       \/ t = c /\ db'.token[t].from = got
    BY <1>2, InsertTokenSpends
  <1>5. Others(c) /\ call[c] # Over /\ ~Holding(c)'
    BY <1>1, <1>2 DEF Goes, Holding, InFlight
  <1>6. got = {} \/ (got = {Got(call[c].link)} /\ Holding(c))
    BY <1>1 DEF RequestOK, Got, Holding
  <1>7. ASSUME NEW x \in got
        PROVE  /\ Spent(x)'
               /\ \A t \in DOMAIN db.token : x \notin db.token[t].from
               /\ \A e \in Calls \ {c} : Holding(e) => x # Got(call[e].link)
    <2>1. x = Got(call[c].link) /\ Holding(c)
      BY <1>6, <1>7
    <2>2. Spent(x) /\ \A t \in DOMAIN db.token : x \notin db.token[t].from
      BY <2>1 DEF Claims, HoldersSpent
    <2>3. \A e \in Calls \ {c} : Holding(e) => x # Got(call[e].link)
      BY <2>1 DEF Claims, HoldersSpent, Got
    <2> QED BY <1>4, <1>5, <2>2, <2>3, SpentStays
  <1> HIDE DEF got
  <1>8. Claims'
    BY <1>4, <1>5, <1>7, ClaimsStay, ZenonT(60)
  <1> QED BY <1>2, <1>3, <1>8

\* A link is got hold of: it was not spent before.
LEMMA ConsumeLinkKeeps ==
    ASSUME CallsOK, DbOK(db), Claims, NEW c \in Calls, ConsumeLink(c)
    PROVE  CallsOK' /\ DbOK(db') /\ Claims'
  <1>0. PICK k : k = call[c].link
    OBVIOUS
  <1> DEFINE d == [db EXCEPT !.link[k].state = "used"]
             s == [call[c] EXCEPT !.at = "issue"]
  <1>1. InFlight(c) /\ RequestOK(call[c]) /\ call[c].op = "link"
    BY DEF ConsumeLink, At, CallsOK, RequestOK
  <1>2. CASE ~(Has(db.link, k) /\ db.link[k].state # "used")
    <2>1. Goes(c) /\ Keeps(c)
      BY <1>0, <1>1, <1>2, AnswerGoes, OtherRows DEF ConsumeLink, Keeps
    <2>2. CallsOK'
      BY <2>1 DEF CallsOK, Goes, Others, InFlight
    <2> QED BY <2>1, <2>2, QuietClaims DEF Keeps
  <1>3. CASE Has(db.link, k) /\ db.link[k].state # "used"
    <2>1. db' = d /\ Others(c) /\ call'[c] = s
      BY <1>0, <1>3 DEF ConsumeLink, Goto, CallsOK, Others
    <2>2. DOMAIN s = DOMAIN call[c] /\ s.at = "issue" /\ \A x \in DOMAIN call[c] \ {"at"} : s[x] = call[c][x]
      BY <1>1 DEF RequestOK
    <2> HIDE DEF s
    <2>3. RequestOK(s) /\ s.op = "link" /\ s.link = k
      BY <1>0, <1>1, <2>2 DEF RequestOK
    <2>4. CallsOK'
      BY <2>1, <2>3 DEF CallsOK, Others, InFlight
    <2>5. DbOK(d) /\ Spends(db, d, {}) /\ d.token = db.token /\ d.link[k].state = "used"
      BY <1>3, UseLinkKeeps, UseLinkRows DEF Has, Rows, DbOK, Columns
    <2> HIDE DEF d
    <2>6. call[c] # Over
      BY <1>1 DEF InFlight
    <2>7. Made'
      BY <2>1, <2>5, <2>6, MadeStays DEF Claims
    <2>8. ASSUME NEW x, Spent(x)
          PROVE  Spent(x)'
      BY <2>1, <2>5, <2>6, <2>8, SpentStays
    <2>9. SessionsSpent' /\ SpentOnce'
      BY <2>1, <2>5, <2>8 DEF Claims, SessionsSpent, SpentOnce
    <2>10. ~Spent(Got(k))
      BY <1>3 DEF Spent, Got, Has
    <2>11. Done(k)'
      BY <1>3, <2>1, <2>6, DoneStays DEF Claims, Made, Has
    <2>12. Spent(Got(k))'
      BY <2>1, <2>5, <2>11 DEF Spent, Got
    <2>13. ASSUME NEW e \in Calls \ {c}, Holding(e)'
           PROVE  /\ Holding(e) /\ call'[e] = call[e] /\ call[e].link # k
                  /\ Spent(Got(call[e].link))'
                  /\ \A t \in DOMAIN db'.token : Got(call[e].link) \notin db'.token[t].from
      <3>1. Holding(e) /\ call'[e] = call[e]
        BY <2>1, <2>13 DEF Holding, InFlight, Others
      <3>2. Spent(Got(call[e].link)) /\ \A t \in DOMAIN db.token : Got(call[e].link) \notin db.token[t].from
        BY <3>1 DEF Claims, HoldersSpent
      <3> QED BY <2>1, <2>5, <2>8, <2>10, <3>1, <3>2
    <2>14. \A t \in DOMAIN db'.token : Got(k) \notin db'.token[t].from
      BY <2>1, <2>5, <2>10 DEF Claims, SessionsSpent
    <2>15. call'[c].link = k
      BY <2>1, <2>3
    <2>16. HoldersSpent'
      BY <2>12, <2>13, <2>14, <2>15 DEF Claims, HoldersSpent
    <2> QED BY <2>1, <2>4, <2>5, <2>7, <2>9, <2>16 DEF Claims
  <1> QED BY <1>2, <1>3

-----------------------------------------------------------------------------
(* Time                                                                      *)

LEMMA ExpireRows ==
    ASSUME NEW table, \A k \in DOMAIN table : "state" \in DOMAIN table[k]
    PROVE  /\ DOMAIN Expire(table) = DOMAIN table
           /\ \A k \in DOMAIN table : /\ DOMAIN Expire(table)[k] = DOMAIN table[k]
                                      /\ \A x \in DOMAIN table[k] \ {"state"} : Expire(table)[k][x] = table[k][x]
                                      /\ table[k].state = "used" => Expire(table)[k].state = "used"
  <1>1. ASSUME NEW k \in DOMAIN table
        PROVE  Expire(table)[k] = [table[k] EXCEPT !.state = IF @ = "live" THEN "expired" ELSE @]
    BY DEF Expire
  <1>2. DOMAIN Expire(table) = DOMAIN table
    BY DEF Expire
  <1> QED BY <1>1, <1>2

\* Locks end, and rows expire.
LEMMA LockEndsKeeps == ASSUME DbOK(db), NEW u \in DOMAIN db.user, LockEnds(u) PROVE DbOK(db') /\ Rows(db, db', {})
  <1> DEFINE change == [lock |-> "over"]
  <1>1. db' = UpdateUser(db, u, change) /\ db.user[u].lock = "until"
    BY DEF LockEnds
  <1>2. DOMAIN change = {"lock"} /\ change.lock = "over"
    OBVIOUS
  <1> HIDE DEF change
  <1>3. DbOK(UpdateUser(db, u, change))
    BY <1>1, <1>2 DEF DbOK, Columns, UserColumns, References, OneSet, Counted, UpdateUser, ++, Has
  <1> QED BY <1>1, <1>3, UpdateUserRows

LEMMA RowsExpireKeeps == ASSUME DbOK(db), RowsExpire PROVE DbOK(db') /\ Rows(db, db', {})
  <1> DEFINE token == Expire(db.token)
             pending == Expire(db.pending)
             link == Expire(db.link)
             api == Expire(db.api)
  <1>1. db' = [db EXCEPT !.token = token, !.pending = pending, !.link = link, !.api = api]
    BY DEF RowsExpire
  <1>2. /\ DOMAIN token = DOMAIN db.token
        /\ \A k \in DOMAIN token : DOMAIN token[k] = DOMAIN db.token[k] /\ token[k].user = db.token[k].user
                                   /\ token[k].from = db.token[k].from
    BY ExpireRows DEF DbOK, Columns
  <1>3. /\ DOMAIN pending = DOMAIN db.pending
        /\ \A k \in DOMAIN pending : DOMAIN pending[k] = DOMAIN db.pending[k] /\ pending[k].user = db.pending[k].user
    BY ExpireRows DEF DbOK, Columns
  <1>4. /\ DOMAIN link = DOMAIN db.link
        /\ \A k \in DOMAIN link : /\ DOMAIN link[k] = DOMAIN db.link[k] /\ link[k].user = db.link[k].user
                                  /\ db.link[k].state = "used" => link[k].state = "used"
    BY ExpireRows DEF DbOK, Columns
  <1>5. /\ DOMAIN api = DOMAIN db.api
        /\ \A k \in DOMAIN api : DOMAIN api[k] = DOMAIN db.api[k] /\ api[k].user = db.api[k].user
    BY ExpireRows DEF DbOK, Columns
  <1> HIDE DEF token, pending, link, api
  <1>6. /\ DOMAIN db' = DOMAIN db /\ db'.user = db.user /\ db'.code = db.code /\ db'.oauth = db.oauth
        /\ db'.domain = db.domain /\ db'.libs = db.libs
        /\ db'.token = token /\ db'.pending = pending /\ db'.link = link /\ db'.api = api
    BY <1>1 DEF DbOK, Columns
  <1>7. Columns(db')
    <2>1. Columns(db)
      BY DEF DbOK
    <2>2. \A k \in DOMAIN token : DOMAIN token[k] = {"user", "state", "from"}
      BY <1>2, <2>1 DEF Columns
    <2>3. \A k \in DOMAIN pending : DOMAIN pending[k] = {"user", "state"}
      BY <1>3, <2>1 DEF Columns
    <2>4. \A k \in DOMAIN link : DOMAIN link[k] = {"user", "state"}
      BY <1>4, <2>1 DEF Columns
    <2>5. \A k \in DOMAIN api : DOMAIN api[k] = {"user", "name", "scope", "state", "touched"}
      BY <1>5, <2>1 DEF Columns
    <2> QED BY <1>6, <2>1, <2>2, <2>3, <2>4, <2>5 DEF Columns
  <1>8. References(db')
    BY <1>2, <1>3, <1>4, <1>5, <1>6 DEF DbOK, References, Has
  <1>9. DbOK(db')
    BY <1>6, <1>7, <1>8 DEF DbOK, OneSet
  <1>10. Rows(db, db', {})
    BY <1>2, <1>3, <1>4, <1>6 DEF Rows, Spends
  <1> QED BY <1>9, <1>10

LEMMA TimeKeeps ==
    ASSUME CallsOK, DbOK(db), Claims, TimePasses
    PROVE  CallsOK' /\ DbOK(db') /\ Claims'
  <1>1. DbOK(db') /\ Rows(db, db', {}) /\ call' = call
    BY LockEndsKeeps, RowsExpireKeeps DEF TimePasses, LockEnds, RowsExpire
  <1>2. CallsOK' /\ Made'
    BY <1>1 DEF CallsOK, InFlight, Claims, Made, Done, Rows, Spends
  <1>3. ASSUME NEW x, Spent(x)
        PROVE  Spent(x)'
    BY <1>1, <1>3 DEF Spent, Done, Rows, Spends
  <1>4. \A t \in DOMAIN db'.token : db'.token[t].from = {} \/ (t \in DOMAIN db.token /\ db'.token[t].from = db.token[t].from)
    BY <1>1 DEF Rows
  <1>5. SessionsSpent' /\ SpentOnce'
    BY <1>3, <1>4 DEF Claims, SessionsSpent, SpentOnce
  <1>6. HoldersSpent'
    BY <1>1, <1>3, <1>4 DEF Claims, HoldersSpent, Holding, InFlight
  <1> QED BY <1>1, <1>2, <1>5, <1>6 DEF Claims

-----------------------------------------------------------------------------
(* The invariant                                                             *)

Inv == CallsOK /\ DbOK(db) /\ Claims

LEMMA InitOK == ASSUME Init PROVE Inv
  <1>1. DbOK(db) /\ \A t \in DOMAIN db.token : db.token[t].from = {}
    BY AccountDbsAssumption DEF Init, DbOK
  <1>2. DOMAIN call = Calls /\ \A c \in Calls : ~InFlight(c)
    BY DEF Init, InFlight
  <1>3. Calls \cap (DOMAIN db.pending \cup DOMAIN db.link \cup {k[1] : k \in DOMAIN db.code}) = {}
    BY AccountDbsAssumption DEF Init
  <1>4. Made
    BY <1>3 DEF Made, Done
  <1>5. SessionsSpent /\ SpentOnce /\ HoldersSpent
    BY <1>1, <1>2 DEF SessionsSpent, SpentOnce, HoldersSpent, Holding
  <1> QED BY <1>1, <1>2, <1>4, <1>5 DEF Inv, CallsOK, Claims

\* What a request may do
LEMMA RequestSteps ==
    ASSUME LoginStep \/ FactorStep \/ OutsideStep \/ ManageStep \/ \E c \in Calls : StatementFails(c)
    PROVE  \E c \in Calls : Looks(c) \/ Singles(c) \/ Lasts(c) \/ Moves(c) \/ Sessions(c) \/ ConsumeLink(c)
  <1>1. CASE LoginStep
    BY <1>1 DEF LoginStep, Looks, Lasts, Moves, Sessions
  <1>2. CASE FactorStep
    BY <1>2 DEF FactorStep, Looks, Lasts, Moves, Sessions
  <1>3. CASE OutsideStep
    BY <1>3 DEF OutsideStep, Looks, Singles, Lasts, Moves, Sessions
  <1>4. CASE ManageStep
    BY <1>4, ZenonT(60) DEF ManageStep, Looks, Singles, Lasts, Moves, Sessions
  <1>5. CASE \E c \in Calls : StatementFails(c)
    BY <1>5 DEF Moves
  <1> QED BY <1>1, <1>2, <1>3, <1>4, <1>5

LEMMA InvStep == ASSUME Inv, [Next]_vars PROVE Inv'
  <1>1. CallsOK /\ DbOK(db) /\ Claims
    BY DEF Inv
  <1>2. ASSUME NEW c \in Calls, Starts(c) \/ Goes(c)
        PROVE  CallsOK'
    BY <1>1, <1>2 DEF CallsOK, Starts, Goes, Others, InFlight
  <1>3. ASSUME NEW c \in Calls, Starts(c) \/ Goes(c), Keeps(c)
        PROVE  Inv'
    BY <1>1, <1>2, <1>3, QuietClaims DEF Inv, Keeps
  <1>4. ASSUME NEW c \in Calls, Looks(c)
        PROVE  Inv'
    BY <1>1, <1>3, <1>4, LookStarts, OtherRows DEF Keeps
  <1>5. ASSUME NEW c \in Calls, Singles(c) \/ Lasts(c) \/ Moves(c)
        PROVE  Inv'
    BY <1>1, <1>3, <1>5, SinglesKeep, LastsKeep, MovesKeep
  <1>6. ASSUME NEW c \in Calls, Sessions(c)
        PROVE  Inv'
    BY <1>1, <1>2, <1>6, SpendPendingKeeps, SpendCodeKeeps, IssueSessionKeeps DEF Sessions, Inv
  <1>7. ASSUME NEW c \in Calls, ConsumeLink(c)
        PROVE  Inv'
    BY <1>1, <1>7, ConsumeLinkKeeps DEF Inv
  <1>8. CASE TimePasses
    BY <1>1, <1>8, TimeKeeps DEF Inv
  <1>9. CASE UNCHANGED vars
    BY <1>1, <1>9 DEF Inv, vars, CallsOK, InFlight, Claims, Made, Done, SessionsSpent, Spent, SpentOnce, HoldersSpent, Holding
  <1> QED BY <1>4, <1>5, <1>6, <1>7, <1>8, <1>9, RequestSteps DEF Next

LEMMA Invariant == Spec => []Inv
  <1> QED BY InitOK, InvStep, PTL DEF Spec

-----------------------------------------------------------------------------
(* The theorems                                                              *)

\* The keys of the tables hold (TypeOK): every row of a user has its user, names
\* and addresses are unique, default libraries exist, however the checks and
\* insertions of requests interleave and wherever one fails.
THEOREM TypeCorrect == Spec => []TypeOK
  <1>1. Inv => TypeOK
    BY DEF Inv, CallsOK, DbOK, RequestOK, TypeOK
  <1> QED BY <1>1, Invariant, PTL

\* An account that is locked has the failures a lock needs (LocksHaveFailures),
\* also when mark_failed_login counts from a row that others changed since.
THEOREM LocksCorrect == Spec => []LocksHaveFailures
  <1>1. Inv => LocksHaveFailures
    BY DEF Inv, DbOK, LocksHaveFailures
  <1> QED BY <1>1, Invariant, PTL

\* The backup codes of a user are of one set (OneSetOfCodes), whatever setups,
\* confirmations and removals of the second factor overlap.
THEOREM OneSetCorrect == Spec => []OneSetOfCodes
  <1>1. Inv => OneSetOfCodes
    BY DEF Inv, DbOK, OneSetOfCodes
  <1> QED BY <1>1, Invariant, PTL

\* A pending second factor, a backup code and a magic link yield one session at
\* most (SpentOnce), however many requests present them at once.
THEOREM SpentOnceCorrect == Spec => []SpentOnce
  <1>1. Inv => SpentOnce
    BY DEF Inv, Claims
  <1> QED BY <1>1, Invariant, PTL
=============================================================================
