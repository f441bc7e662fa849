------------------------------ MODULE Accounts ------------------------------
(***************************************************************************)
(* Local accounts, sessions and password resets.  A request reads and      *)
(* checks first and writes in a transaction later; between the two other   *)
(* requests may change the accounts it decided on.                         *)
(***************************************************************************)
EXTENDS Naturals, FiniteSets

CONSTANTS
    User,          \* ids; an id is given to one account only
    Client,        \* browsers
    Email, Guest, AdminEmail,
    Password, DefaultPassword,
    Item,          \* projects and tasks, which have an owner or an assignee
    Nobody, Unset,
    FirstUsers,    \* the accounts there are at the start: id -> account
    MaxOtp, MaxRequests,
    Activities     \* the requests that are sent

ASSUME ConstantsAssumption ==
    /\ {Guest, AdminEmail} \subseteq Email /\ Guest # AdminEmail
    /\ DefaultPassword \in Password
    /\ IsFiniteSet(User) /\ IsFiniteSet(Email)
    /\ Nobody \notin User /\ Unset \notin User \cup {Nobody}
    /\ MaxOtp \in Nat /\ MaxRequests \in Nat
    /\ DOMAIN FirstUsers \subseteq User
    /\ \A u \in DOMAIN FirstUsers :
          FirstUsers[u] \in [role: {"admin", "editor", "viewer"}, email: Email,
                             password: Password, otp: {0}]
    /\ \A u, v \in DOMAIN FirstUsers : FirstUsers[u].email = FirstUsers[v].email => u = v

VARIABLES
    accounts,   \* the rows of User and RoleAssignment, by id
    born,       \* the ids given out
    session,    \* the id in each client's cookie
    holder,     \* the owner or assignee of an item
    op,         \* op[c]: the request in flight of a client
    requests,   \* requests so far
    expired,    \* one-time passwords whose ten minutes are over
    issued,     \* history: the account each one-time password was made for
    mailed,     \* history: one-time passwords that were delivered
    closed,     \* history: those that must not work any more
    wiped       \* history: those that somebody else's failure cleared

row  == <<accounts, born>>
otps == <<issued, mailed, closed, wiped>>
vars == <<row, session, holder, op, requests, expired, otps>>

Role == {"admin", "editor", "viewer"}
Otp  == 1..MaxOtp

Account   == [role: Role, email: Email, password: Password, otp: 0..MaxOtp]
NoAccount == [role |-> "none", email |-> Guest, password |-> DefaultPassword, otp |-> 0]

Present(table) == {u \in User : table[u] # NoAccount}
AdminsOf(table) == {u \in User : table[u].role = "admin"}
WithEmail(table, e) == {u \in Present(table) : table[u].email = e}

Kind == {"idle", "update", "create", "import", "profile", "password", "delete",
         "clear", "mail", "reset", "expire"}

Idle == [kind |-> "idle", target |-> Nobody, email |-> Guest, role |-> "none",
         password |-> Unset, otp |-> 0, heir |-> Unset, held |-> {}, read |-> <<>>]

TypeOK ==
    /\ accounts \in [User -> Account \cup {NoAccount}]
    /\ Present(accounts) \subseteq born /\ born \subseteq User
    /\ session \in [Client -> User \cup {Nobody}]
    /\ holder \in [Item -> Present(accounts) \cup {Nobody}]
    /\ \A c \in Client : op[c].kind \in Kind /\ op[c].target \in User \cup {Nobody}
    /\ \A u, v \in Present(accounts) : accounts[u].email = accounts[v].email => u = v
    /\ requests \in 0..MaxRequests
    /\ expired \subseteq Otp /\ mailed \subseteq Otp
    /\ closed \subseteq Otp /\ wiped \subseteq Otp

Init ==
    /\ accounts = [u \in User |-> IF u \in DOMAIN FirstUsers THEN FirstUsers[u] ELSE NoAccount]
    /\ born = DOMAIN FirstUsers
    /\ session \in [Client -> DOMAIN FirstUsers]
    /\ holder = [i \in Item |-> Nobody]
    /\ op = [c \in Client |-> Idle]
    /\ requests = 0
    /\ expired = {} /\ mailed = {} /\ closed = {} /\ wiped = {}
    /\ issued = [o \in Otp |-> Nobody]

-----------------------------------------------------------------------------
(* Beginning and ending a request.                                         *)

\* A request of an idle client.
Sends(c, activity) ==
    /\ op[c] = Idle /\ activity \in Activities
    /\ requests < MaxRequests /\ requests' = requests + 1

\* getSessionUser: a cookie counts while its account exists; the role is the
\* one the account has when the request arrives.
LoggedIn(c) == session[c] \in Present(accounts)
AsAdmin(c)  == session[c] \in AdminsOf(accounts)
IsGuest(c)  == accounts[session[c]].email = Guest

Set(c, o)   == op' = [op EXCEPT ![c] = o]
Pending(c, kind) == op[c].kind = kind

\* The request goes on with what it has read.
Goes(c, o) ==
    /\ Set(c, [o EXCEPT !.read = accounts])
    /\ UNCHANGED <<row, session, holder, expired, otps>>

\* The audit event of a transaction refers to the actor.
Audited(c) == LoggedIn(c)

\* The next id.
NewId(u) == u \in User \ born

\* All one-time passwords made for an account so far.
IssuedTo(u) == {o \in Otp : issued[o] = u}

\* mutant: the one-time password survives the change.
KeepsOtp(account, password) == [account EXCEPT !.password = password]

\* A change of the password clears the one-time password.
WithPassword(account, password) == [account EXCEPT !.password = password, !.otp = 0]

\* Accounts that are deleted take their ownership with them.
Disowned(table) ==
    holder' = [i \in Item |-> IF holder[i] \in Present(table) THEN holder[i] ELSE Nobody]

\* A constraint of the database, or the database itself, ends a request.
Abort(c) ==
    /\ op[c] # Idle /\ op[c].kind # "mail"
    /\ Set(c, Idle)
    /\ UNCHANGED <<row, session, holder, requests, expired, otps>>

-----------------------------------------------------------------------------
(* Sessions.                                                               *)

Login(c) ==
    /\ Sends(c, "login")
    /\ \E u \in Present(accounts) : session' = [session EXCEPT ![c] = u]
    /\ UNCHANGED <<row, holder, op, expired, otps>>

\* loginGuest: the account of the guest is made, or made a viewer again.
LoginGuest(c) ==
    /\ Sends(c, "guest")
    /\ \/ \E u \in WithEmail(accounts, Guest) :
            /\ accounts' = [accounts EXCEPT ![u].role = "viewer"]
            /\ session' = [session EXCEPT ![c] = u]
            /\ UNCHANGED born
       \/ /\ WithEmail(accounts, Guest) = {}
          /\ \E u \in User, p \in Password :
                /\ NewId(u)
                /\ accounts' = [accounts EXCEPT ![u] =
                        [role |-> "viewer", email |-> Guest, password |-> p, otp |-> 0]]
                /\ born' = born \cup {u}
                /\ session' = [session EXCEPT ![c] = u]
    /\ UNCHANGED <<holder, op, expired, otps>>

Logout(c) ==
    /\ op[c] = Idle /\ session[c] # Nobody
    /\ session' = [session EXCEPT ![c] = Nobody]
    /\ UNCHANGED <<row, holder, op, requests, expired, otps>>

\* onApplicationBootstrap: an API that starts on an empty table.
Bootstrap ==
    /\ Present(accounts) = {}
    /\ \E u \in User, p \in Password :
        /\ NewId(u)
        /\ accounts' = [accounts EXCEPT ![u] =
                [role |-> "admin", email |-> AdminEmail, password |-> p, otp |-> 0]]
        /\ born' = born \cup {u}
    /\ UNCHANGED <<session, holder, op, requests, expired, otps>>

-----------------------------------------------------------------------------
(* An administrator changes accounts.                                      *)

\* mutant: the count of administrators is not looked at.
AnyoneCanBeRemoved == TRUE

\* assertAdminRoleCanBeRemoved
AdminCanBeRemoved == Cardinality(AdminsOf(accounts)) > 1

EmailIsFree(e, u) == WithEmail(accounts, e) \subseteq {u}

UpdateAccount(c) ==
    /\ Sends(c, "update") /\ AsAdmin(c)
    /\ \E u \in Present(accounts), e \in Email, r \in Role :
        /\ EmailIsFree(e, u)
        /\ <<e, r>> # <<accounts[u].email, accounts[u].role>>
        /\ accounts[u].role = "admin" /\ r # "admin" => AdminCanBeRemoved
        /\ Goes(c, [Idle EXCEPT !.kind = "update", !.target = u, !.email = e, !.role = r])

\* mutant: the update also forgets the one-time password.
CommitUpdateAndReset(c) ==
    /\ Pending(c, "update") /\ Audited(c)
    /\ op[c].target \in Present(accounts) /\ EmailIsFree(op[c].email, op[c].target)
    /\ accounts' = [accounts EXCEPT ![op[c].target].email = op[c].email,
                                    ![op[c].target].role  = op[c].role,
                                    ![op[c].target].otp   = 0]
    /\ Set(c, Idle)
    /\ UNCHANGED <<born, session, holder, requests, expired, otps>>

\* Both fields are written, the one that was not to be changed as it was read.
CommitUpdate(c) ==
    /\ Pending(c, "update") /\ Audited(c)
    /\ op[c].target \in Present(accounts) /\ EmailIsFree(op[c].email, op[c].target)
    /\ accounts' = [accounts EXCEPT ![op[c].target].email = op[c].email,
                                    ![op[c].target].role  = op[c].role]
    /\ Set(c, Idle)
    /\ UNCHANGED <<born, session, holder, requests, expired, otps>>

CreateAccount(c) ==
    /\ Sends(c, "create") /\ AsAdmin(c)
    /\ \E e \in Email, r \in Role, p \in Password :
        /\ WithEmail(accounts, e) = {}
        /\ Goes(c, [Idle EXCEPT !.kind = "create", !.email = e, !.role = r, !.password = p])

CommitCreate(c) ==
    /\ Pending(c, "create") /\ Audited(c)
    /\ WithEmail(accounts, op[c].email) = {}
    /\ \E u \in User :
        /\ NewId(u)
        /\ accounts' = [accounts EXCEPT ![u] = [role |-> op[c].role, email |-> op[c].email,
                                                password |-> op[c].password, otp |-> 0]]
        /\ born' = born \cup {u}
    /\ Set(c, Idle)
    /\ UNCHANGED <<session, holder, requests, expired, otps>>

\* What an import makes of the table it has read: "input" gives the roles of
\* some e-mail addresses, and all of them the password "password".
Imported(table, input, password) ==
    [u \in User |->
        IF u \in Present(table) /\ table[u].email \in DOMAIN input
        THEN [(IF password = Unset THEN table[u] ELSE WithPassword(table[u], password))
                EXCEPT !.role = input[table[u].email]]
        ELSE table[u]]

NewEmails(table, input) == {e \in DOMAIN input : WithEmail(table, e) = {}}

\* assertImportKeepsAdminAccount: the administrators there will be.
ProjectedAdmins(input) ==
    Cardinality(AdminsOf(Imported(accounts, input, Unset)))
        + Cardinality({e \in NewEmails(accounts, input) : input[e] = "admin"})

\* The transaction of the import reads, and decides, before it writes.
ImportAccounts(c) ==
    /\ Sends(c, "import") /\ AsAdmin(c)
    /\ \E S \in SUBSET Email \ {{}} : \E input \in [S -> Role], p \in Password \cup {Unset} :
        /\ NewEmails(accounts, input) # {} => p # Unset
        /\ Cardinality(NewEmails(accounts, input)) <= 1
        /\ ProjectedAdmins(input) >= 1
        /\ Goes(c, [Idle EXCEPT !.kind = "import", !.password = p, !.heir = input])

\* Roles that were as wanted when read are not written; the accounts that
\* were read must still be there, those that were not must still be missing.
CommitImport(c) ==
    /\ Pending(c, "import") /\ Audited(c)
    /\ LET input   == op[c].heir
           read    == op[c].read
           known   == {u \in Present(read) : read[u].email \in DOMAIN input}
           changed == {u \in known : input[read[u].email] # read[u].role}
           written == IF op[c].password = Unset THEN changed ELSE known
           missing == NewEmails(read, input)
       IN  /\ written \subseteq Present(accounts)
           /\ missing \subseteq NewEmails(accounts, input)
           /\ \E make \in [missing -> {u \in User : NewId(u)}] :
                /\ accounts' = [u \in User |->
                      IF u \in written
                      THEN [(IF op[c].password = Unset THEN accounts[u]
                             ELSE WithPassword(accounts[u], op[c].password))
                               EXCEPT !.role = IF u \in changed THEN input[read[u].email] ELSE @]
                      ELSE IF \E e \in missing : make[e] = u
                      THEN LET e == CHOOSE e \in missing : make[e] = u
                           IN  [role |-> input[e], email |-> e,
                                password |-> op[c].password, otp |-> 0]
                      ELSE accounts[u]]
                /\ born' = born \cup {make[e] : e \in missing}
           /\ closed' = closed \cup (IF op[c].password = Unset THEN {}
                                     ELSE UNION {IssuedTo(u) : u \in written})
    /\ Set(c, Idle)
    /\ UNCHANGED <<session, holder, requests, expired, issued, mailed, wiped>>

\* resetDefaultAccounts, for the default administrator.
ResetDefaultAccounts(c) ==
    /\ Sends(c, "defaults") /\ AsAdmin(c)
    /\ \/ \E u \in WithEmail(accounts, AdminEmail) :
            /\ accounts' = [accounts EXCEPT ![u] =
                    [WithPassword(@, DefaultPassword) EXCEPT !.role = "admin"]]
            /\ closed' = closed \cup IssuedTo(u)
            /\ UNCHANGED born
       \/ /\ WithEmail(accounts, AdminEmail) = {}
          /\ \E u \in User :
                /\ NewId(u)
                /\ accounts' = [accounts EXCEPT ![u] = [role |-> "admin", email |-> AdminEmail,
                                     password |-> DefaultPassword, otp |-> 0]]
                /\ born' = born \cup {u}
          /\ UNCHANGED closed
    /\ UNCHANGED <<session, holder, op, expired, issued, mailed, wiped>>

\* What the account holds is handed to an heir, or to nobody; the choice has
\* to be made only when there is something to hand over.
DeleteAccount(c) ==
    /\ Sends(c, "delete") /\ AsAdmin(c)
    /\ \E u \in Present(accounts), heir \in User \cup {Nobody, Unset} :
        LET held == {i \in Item : holder[i] = u}
        IN  /\ accounts[u].role = "admin" => AdminCanBeRemoved
            /\ heir \in User => heir # u /\ heir \in Present(accounts)
            /\ held # {} => heir # Unset
            /\ Goes(c, [Idle EXCEPT !.kind = "delete", !.target = u, !.heir = heir,
                                    !.held = held])

CommitDelete(c) ==
    /\ Pending(c, "delete") /\ Audited(c)
    /\ op[c].target \in Present(accounts)
    /\ op[c].held # {} => op[c].heir \in Present(accounts) \cup {Nobody}
    /\ accounts' = [accounts EXCEPT ![op[c].target] = NoAccount]
    /\ holder' = [i \in Item |-> IF holder[i] # op[c].target THEN holder[i]
                                 ELSE IF op[c].held # {} THEN op[c].heir ELSE Nobody]
    /\ Set(c, Idle)
    /\ UNCHANGED <<born, session, requests, expired, otps>>

ClearAllAccounts(c) ==
    /\ Sends(c, "clear") /\ AsAdmin(c)
    /\ Goes(c, [Idle EXCEPT !.kind = "clear"])

\* Every account but the actor's and the guest's; the actor need not be an
\* administrator any more.
CommitClear(c) ==
    /\ Pending(c, "clear") /\ Audited(c)
    /\ accounts' = [u \in User |-> IF u = session[c] \/ u \in WithEmail(accounts, Guest)
                                   THEN accounts[u] ELSE NoAccount]
    /\ Disowned(accounts')
    /\ Set(c, Idle)
    /\ UNCHANGED <<born, session, requests, expired, otps>>

\* A project or task is given to somebody.
Assign(c) ==
    /\ Sends(c, "assign") /\ LoggedIn(c) /\ accounts[session[c]].role # "viewer"
    /\ \E i \in Item, u \in Present(accounts) \cup {Nobody} :
            holder' = [holder EXCEPT ![i] = u]
    /\ UNCHANGED <<row, session, op, expired, otps>>

-----------------------------------------------------------------------------
(* Profiles, passwords and one-time passwords.                             *)

UpdateOwnProfile(c) ==
    /\ Sends(c, "profile") /\ LoggedIn(c) /\ ~IsGuest(c)
    /\ \E e \in Email, p \in Password \cup {Unset} :
        /\ EmailIsFree(e, session[c])
        /\ e # accounts[session[c]].email \/ p # Unset
        /\ Goes(c, [Idle EXCEPT !.kind = "profile", !.target = session[c], !.email = e,
                                !.password = p])

\* The address is written only if it was to be changed.
CommitProfile(c) ==
    /\ Pending(c, "profile") /\ Audited(c)
    /\ LET u == op[c].target
           e == IF op[c].email = op[c].read[u].email THEN accounts[u].email ELSE op[c].email
       IN  /\ u \in Present(accounts) /\ EmailIsFree(e, u)
           /\ accounts' = [accounts EXCEPT ![u] =
                    [(IF op[c].password = Unset THEN @ ELSE WithPassword(@, op[c].password))
                        EXCEPT !.email = e]]
           /\ closed' = IF op[c].password = Unset THEN closed ELSE closed \cup IssuedTo(u)
    /\ Set(c, Idle)
    /\ UNCHANGED <<born, session, holder, requests, expired, issued, mailed, wiped>>

\* setAccountPassword, by an administrator, or setOwnPassword.
SetPassword(c) ==
    /\ Sends(c, "password") /\ LoggedIn(c)
    /\ \E u \in Present(accounts), p \in Password :
        /\ AsAdmin(c) \/ (u = session[c] /\ ~IsGuest(c))
        /\ p # accounts[u].password
        /\ Goes(c, [Idle EXCEPT !.kind = "password", !.target = u, !.password = p])

CommitPassword(c) ==
    /\ Pending(c, "password") /\ Audited(c)
    /\ op[c].target \in Present(accounts)
    /\ accounts' = [accounts EXCEPT ![op[c].target] = WithPassword(@, op[c].password)]
    /\ closed' = closed \cup IssuedTo(op[c].target)
    /\ Set(c, Idle)
    /\ UNCHANGED <<born, session, holder, requests, expired, issued, mailed, wiped>>

\* A one-time password replaces the one before; then it is mailed.
RequestPasswordReset(c) ==
    /\ Sends(c, "forgot")
    /\ \E u \in Present(accounts), o \in Otp :
        /\ issued[o] = Nobody /\ \A q \in Otp : q < o => issued[q] # Nobody
        /\ accounts' = [accounts EXCEPT ![u].otp = o]
        /\ issued' = [issued EXCEPT ![o] = u]
        /\ closed' = closed \cup IssuedTo(u)
        /\ Set(c, [Idle EXCEPT !.kind = "mail", !.target = u, !.otp = o])
    /\ UNCHANGED <<born, session, holder, expired, mailed, wiped>>

MailOtp(c) ==
    /\ Pending(c, "mail")
    /\ mailed' = mailed \cup {op[c].otp}
    /\ Set(c, Idle)
    /\ UNCHANGED <<row, session, holder, requests, expired, issued, closed, wiped>>

\* clearPasswordResetOtp clears whatever one-time password the account has.
ClearOtp(c) ==
    /\ op[c].target \in Present(accounts)
    /\ accounts' = [accounts EXCEPT ![op[c].target].otp = 0]
    /\ wiped' = wiped \cup ({accounts[op[c].target].otp} \ {0})
    /\ Set(c, Idle)
    /\ UNCHANGED <<born, session, holder, requests, expired, issued, mailed, closed>>

MailFails(c) == Pending(c, "mail") /\ ClearOtp(c)

Expire(o) ==
    /\ "expiry" \in Activities /\ issued[o] # Nobody
    /\ expired' = expired \cup {o}
    /\ UNCHANGED <<row, session, holder, op, requests, otps>>

\* Everything is verified before the transaction begins.
ResetPassword(c) ==
    /\ Sends(c, "reset")
    /\ \E u \in Present(accounts) :
        /\ accounts[u].otp # 0
        /\ \/ /\ accounts[u].otp \in expired
              /\ Goes(c, [Idle EXCEPT !.kind = "expire", !.target = u])
           \/ /\ accounts[u].otp \in mailed \ expired
              /\ \E p \in Password \ {accounts[u].password} :
                    Goes(c, [Idle EXCEPT !.kind = "reset", !.target = u, !.password = p,
                                         !.otp = accounts[u].otp])

ClearExpired(c) == Pending(c, "expire") /\ ClearOtp(c)

\* The session cookie of the browser is cleared, too.
CommitReset(c) ==
    /\ Pending(c, "reset")
    /\ op[c].target \in Present(accounts)
    /\ accounts' = [accounts EXCEPT ![op[c].target] = WithPassword(@, op[c].password)]
    /\ closed' = closed \cup IssuedTo(op[c].target)
    /\ session' = [session EXCEPT ![c] = Nobody]
    /\ Set(c, Idle)
    /\ UNCHANGED <<born, holder, requests, expired, issued, mailed, wiped>>

-----------------------------------------------------------------------------
Administers(c) ==
    \/ UpdateAccount(c) \/ CommitUpdate(c) \/ CreateAccount(c) \/ CommitCreate(c)
    \/ ImportAccounts(c) \/ CommitImport(c) \/ ResetDefaultAccounts(c)
    \/ DeleteAccount(c) \/ CommitDelete(c) \/ ClearAllAccounts(c) \/ CommitClear(c)
    \/ Assign(c)

Authenticates(c) ==
    \/ Login(c) \/ LoginGuest(c) \/ Logout(c)
    \/ UpdateOwnProfile(c) \/ CommitProfile(c) \/ SetPassword(c) \/ CommitPassword(c)
    \/ RequestPasswordReset(c) \/ MailOtp(c) \/ MailFails(c)
    \/ ResetPassword(c) \/ ClearExpired(c) \/ CommitReset(c)

Next ==
    \/ \E c \in Client : Administers(c) \/ Authenticates(c) \/ Abort(c)
    \/ \E o \in Otp : Expire(o)
    \/ Bootstrap

Spec == Init /\ [][Next]_vars

-----------------------------------------------------------------------------
(* Properties.                                                             *)

\* The last administrator goes only when the guest, who had been made one,
\* logs in, or when a request commits that counted other administrators than
\* there are now.
LastAdminStays ==
    [][AdminsOf(accounts) # {} /\ AdminsOf(accounts') = {}
        => \/ \E u \in WithEmail(accounts, Guest) : AdminsOf(accounts) = {u}
           \/ \E c \in Client : /\ op[c] # Idle /\ op'[c] = Idle
                                 /\ AdminsOf(op[c].read) # AdminsOf(accounts)]_vars

\* A one-time password that was used or replaced, or whose account has got
\* another password since, never works again.
OtpsStayClosed == \A u \in User : accounts[u].otp \notin closed

\* Until then the one that was mailed last works, unless the failure of
\* another request of the account has cleared it.
MailedOtpWorks ==
    \A o \in mailed \ (closed \cup wiped) :
        issued[o] \in Present(accounts) => accounts[issued[o]].otp = o

=============================================================================
