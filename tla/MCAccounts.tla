----------------------------- MODULE MCAccounts -----------------------------
(* A server without users, and one with an administrator, a user with a second
   factor (a pending session, a set of two codes, one of them used) and a user
   with a lock that is over, a secret not yet confirmed, a refresh token and a magic link.               *)
EXTENDS Accounts, Sequences

MCCalls == 1..2
MCCodes == 1..2
MCForms == {[name |-> "new", mail |-> "new@a", domain |-> "a", pw |-> "p1"],
            [name |-> "reader", mail |-> "other@b", domain |-> "b", pw |-> "p1"]}
MCPasswords == {"p1", "p2"}
MCDirectory == {[name |-> "staff", mail |-> "staff@a", pw |-> "p1"], [name |-> "lector", mail |-> "reader@a", pw |-> "p2"]}
MCIdentities == {[key |-> "g1", name |-> "new", mail |-> "new@a"]}
MCProfiles == {[name |-> "new"]}
MCChanges == {[active |-> FALSE], [role |-> "admin"]}
MCAccounts0 == {[name |-> "made", mail |-> "new@a", pw |-> "p1", role |-> "user", active |-> FALSE]}
MCProxyUsers == {[name |-> "new", mail |-> "proxy@a"]}
MCLibraryNames == {"second"}

User(name, role, totp, attempts, lock) ==
    [name |-> name, mail |-> name \o "@a", pw |-> "p1", role |-> role, active |-> TRUE, reset |-> FALSE, totp |-> totp,
     secret |-> IF totp THEN 0 ELSE NoSecret, attempts |-> attempts, lock |-> lock, lib |-> Default]
Empty == [user |-> << >>, token |-> << >>, pending |-> << >>, code |-> << >>, link |-> << >>, oauth |-> << >>,
          api |-> << >>, domain |-> << >>, libs |-> (Default :> "Default Library"), ldap |-> TRUE]
Inhabited ==
    [Empty EXCEPT
       !.user = (11 :> User("admin", "admin", FALSE, 0, "none")) @@ (12 :> User("reader", "user", TRUE, 1, "none"))
                @@ (13 :> [User("late", "user", FALSE, 2, "over") EXCEPT !.secret = 0]),
       !.token = (20 :> [user |-> 13, state |-> "live", from |-> {}]),
       !.pending = (21 :> [user |-> 12, state |-> "live"]),
       !.code = (<<0, 1>> :> [user |-> 12, used |-> TRUE]) @@ (<<0, 2>> :> [user |-> 12, used |-> FALSE]),
       !.link = (22 :> [user |-> 13, state |-> "live"]),
       !.api = (23 :> [user |-> 11, name |-> "token", scope |-> "read", state |-> "live", touched |-> FALSE]),
       !.domain = ("a" :> TRUE),
       !.libs = (Default :> "Default Library") @@ (24 :> "first")]
MCInitDbs == {Empty, Inhabited, [Inhabited EXCEPT !.ldap = FALSE]}
=============================================================================
