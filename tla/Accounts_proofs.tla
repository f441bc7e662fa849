---------------------------- MODULE Accounts_proofs ----------------------------
(* Theorems about Accounts, for any number of users, browsers, e-mail       *)
(* addresses and one-time passwords and any sequence of requests.           *)
EXTENDS Accounts, TLAPS, FiniteSetTheorems

Table == [User -> Account \cup {NoAccount}]
Keeps(o) == o.target \in AdminsOf(o.read) => Cardinality(AdminsOf(o.read)) > 1

(* What a request in flight has been checked for, by its kind; s is the id   *)
(* in the cookie of the browser that waits for it.                           *)
RequestOK(o, s) ==
    /\ o.kind \in Kind
    /\ o.target \in User \cup {Nobody}
    /\ o.kind \notin {"idle", "mail"} => o.read \in Table
    /\ o.kind = "mail" => o.otp \in Otp
    /\ o.kind \in {"password", "reset"} => o.password \in Password
    /\ o.kind = "update" => /\ o.email \in Email /\ o.role \in Role
                            /\ o.role # "admin" => Keeps(o)
    /\ o.kind = "create" => o.email \in Email /\ o.role \in Role /\ o.password \in Password
    /\ o.kind = "profile" => o.email \in Email /\ o.password \in Password \cup {Unset}
    /\ o.kind = "delete" => /\ o.heir \in User \cup {Nobody, Unset} /\ o.heir # o.target
                            /\ Keeps(o)
    /\ o.kind = "clear" => s \in AdminsOf(o.read)
    /\ o.kind = "import" =>
          /\ \E S \in SUBSET Email : o.heir \in [S -> Role]
          /\ o.password \in Password \cup {Unset}
          /\ NewEmails(o.read, o.heir) # {} => o.password # Unset
          /\ Cardinality(NewEmails(o.read, o.heir)) <= 1
          /\ Cardinality(AdminsOf(Imported(o.read, o.heir, Unset)))
               + Cardinality({e \in NewEmails(o.read, o.heir) : o.heir[e] = "admin"}) >= 1

RequestsOK ==
    /\ op = [c \in Client |-> op[c]]
    /\ session \in [Client -> User \cup {Nobody}]
    /\ \A c \in Client : RequestOK(op[c], session[c])

(* A request is a new one that was checked now, or ended, or as it was; only *)
(* a browser that has none in flight changes its cookie.                     *)
Turns(c, o) ==
    /\ op' = [op EXCEPT ![c] = o]
    /\ session' = [session EXCEPT ![c] = session'[c]]
    /\ session'[c] \in User \cup {Nobody}
    /\ RequestOK(o, session'[c])

LEMMA TurnsKeep ==
    ASSUME RequestsOK, NEW c \in Client, NEW o, Turns(c, o)
    PROVE  RequestsOK'
<1>1. \A d \in Client : d # c => op'[d] = op[d] /\ session'[d] = session[d]
  BY DEF RequestsOK, Turns
<1>2. op'[c] = o
  BY DEF RequestsOK, Turns
<1>3. op' = [d \in Client |-> op'[d]]
  BY DEF RequestsOK, Turns
<1>4. session' \in [Client -> User \cup {Nobody}]
  BY DEF RequestsOK, Turns
<1>5. ASSUME NEW d \in Client PROVE RequestOK(op'[d], session'[d])
  BY <1>1, <1>2 DEF RequestsOK, Turns
<1> QED
  BY <1>3, <1>4, <1>5 DEF RequestsOK

LEMMA IdleOK == \A s : RequestOK(Idle, s)
BY DEF RequestOK, Idle, Kind

RowsOK ==
    /\ accounts \in Table
    /\ Present(accounts) \subseteq born /\ born \subseteq User
    /\ \A u, v \in Present(accounts) : accounts[u].email = accounts[v].email => u = v

(* A request that has read the accounts as they are now and was checked      *)
(* against them.                                                             *)
LEMMA GoesOn ==
    ASSUME RowsOK, RequestsOK, NEW c \in Client, NEW o, op' = [op EXCEPT ![c] = o],
           UNCHANGED session, RequestOK(o, session[c])
    PROVE  RequestsOK'
<1>1. Turns(c, o)
  BY DEF Turns, RequestsOK
<1> QED
  BY <1>1, TurnsKeep

(* The requests that only begin: what they have checked is what RequestOK    *)
(* says of them.                                                             *)
LEMMA Begins ==
    ASSUME RowsOK, RequestsOK, NEW c \in Client,
           \/ UpdateAccount(c) \/ CreateAccount(c) \/ ImportAccounts(c) \/ DeleteAccount(c)
           \/ ClearAllAccounts(c) \/ UpdateOwnProfile(c) \/ SetPassword(c) \/ ResetPassword(c)
    PROVE  RequestsOK'
<1> USE DEF RowsOK, Goes, Set
<1>0. session[c] \in User \cup {Nobody}
  BY DEF RequestsOK
<1>1. CASE UpdateAccount(c)
  <2>1. PICK u \in Present(accounts), e \in Email, r \in Role :
          /\ accounts[u].role = "admin" /\ r # "admin" => AdminCanBeRemoved
          /\ Goes(c, [Idle EXCEPT !.kind = "update", !.target = u, !.email = e, !.role = r])
    BY <1>1 DEF UpdateAccount
  <2> DEFINE o == [[Idle EXCEPT !.kind = "update", !.target = u, !.email = e, !.role = r]
                      EXCEPT !.read = accounts]
  <2>2. /\ o.kind = "update" /\ o.target = u /\ o.email = e /\ o.role = r
        /\ o.read = accounts
    BY DEF Idle
  <2>3. RequestOK(o, session[c])
    BY <2>1, <2>2 DEF RequestOK, Kind, Keeps, AdminsOf, AdminCanBeRemoved, Present
  <2> QED
    BY <2>1, <2>3, GoesOn
<1>2. CASE CreateAccount(c)
  <2>1. PICK e \in Email, r \in Role, p \in Password :
          Goes(c, [Idle EXCEPT !.kind = "create", !.email = e, !.role = r, !.password = p])
    BY <1>2 DEF CreateAccount
  <2> DEFINE o == [[Idle EXCEPT !.kind = "create", !.email = e, !.role = r, !.password = p]
                      EXCEPT !.read = accounts]
  <2>2. /\ o.kind = "create" /\ o.target = Nobody /\ o.email = e /\ o.role = r
        /\ o.password = p /\ o.read = accounts
    BY DEF Idle
  <2>3. RequestOK(o, session[c])
    BY <2>1, <2>2 DEF RequestOK, Kind
  <2> QED
    BY <2>1, <2>3, GoesOn
<1>3. CASE ImportAccounts(c)
  <2>0. PICK S \in SUBSET Email : \E input \in [S -> Role], p \in Password \cup {Unset} :
          /\ NewEmails(accounts, input) # {} => p # Unset
          /\ Cardinality(NewEmails(accounts, input)) <= 1
          /\ ProjectedAdmins(input) >= 1
          /\ Goes(c, [Idle EXCEPT !.kind = "import", !.password = p, !.heir = input])
    BY <1>3 DEF ImportAccounts
  <2>1. PICK input \in [S -> Role], p \in Password \cup {Unset} :
          /\ NewEmails(accounts, input) # {} => p # Unset
          /\ Cardinality(NewEmails(accounts, input)) <= 1
          /\ ProjectedAdmins(input) >= 1
          /\ Goes(c, [Idle EXCEPT !.kind = "import", !.password = p, !.heir = input])
    BY <2>0
  <2> DEFINE o == [[Idle EXCEPT !.kind = "import", !.password = p, !.heir = input]
                      EXCEPT !.read = accounts]
  <2>2. /\ o.kind = "import" /\ o.target = Nobody /\ o.password = p /\ o.heir = input
        /\ o.read = accounts
    BY DEF Idle
  <2>3. RequestOK(o, session[c])
    BY <2>1, <2>2 DEF RequestOK, Kind, ProjectedAdmins
  <2> QED
    BY <2>1, <2>3, GoesOn
<1>4. CASE DeleteAccount(c)
  <2>1. PICK u \in Present(accounts), heir \in User \cup {Nobody, Unset} :
          /\ accounts[u].role = "admin" => AdminCanBeRemoved
          /\ heir \in User => heir # u
          /\ Goes(c, [Idle EXCEPT !.kind = "delete", !.target = u, !.heir = heir,
                                  !.held = {i \in Item : holder[i] = u}])
    BY <1>4 DEF DeleteAccount
  <2> DEFINE o == [[Idle EXCEPT !.kind = "delete", !.target = u, !.heir = heir,
                                !.held = {i \in Item : holder[i] = u}] EXCEPT !.read = accounts]
  <2>2. /\ o.kind = "delete" /\ o.target = u /\ o.heir = heir /\ o.read = accounts
    BY DEF Idle
  <2>3. RequestOK(o, session[c])
    BY <2>1, <2>2, ConstantsAssumption
       DEF RequestOK, Kind, Keeps, AdminsOf, AdminCanBeRemoved, Present
  <2> QED
    BY <2>1, <2>3, GoesOn
<1>5. CASE ClearAllAccounts(c)
  <2> DEFINE o == [[Idle EXCEPT !.kind = "clear"] EXCEPT !.read = accounts]
  <2>2. o.kind = "clear" /\ o.target = Nobody /\ o.read = accounts
    BY DEF Idle
  <2>3. RequestOK(o, session[c])
    BY <1>5, <2>2 DEF RequestOK, Kind, ClearAllAccounts, AsAdmin
  <2> QED
    BY <1>5, <2>3, GoesOn DEF ClearAllAccounts
<1>6. CASE UpdateOwnProfile(c)
  <2>1. PICK e \in Email, p \in Password \cup {Unset} :
          Goes(c, [Idle EXCEPT !.kind = "profile", !.target = session[c], !.email = e,
                               !.password = p])
    BY <1>6 DEF UpdateOwnProfile
  <2> DEFINE o == [[Idle EXCEPT !.kind = "profile", !.target = session[c], !.email = e,
                                !.password = p] EXCEPT !.read = accounts]
  <2>2. /\ o.kind = "profile" /\ o.target = session[c] /\ o.email = e /\ o.password = p
        /\ o.read = accounts
    BY DEF Idle
  <2>3. RequestOK(o, session[c])
    BY <1>0, <2>1, <2>2 DEF RequestOK, Kind
  <2> QED
    BY <2>1, <2>3, GoesOn
<1>7. CASE SetPassword(c)
  <2>1. PICK u \in Present(accounts), p \in Password :
          Goes(c, [Idle EXCEPT !.kind = "password", !.target = u, !.password = p])
    BY <1>7 DEF SetPassword
  <2> DEFINE o == [[Idle EXCEPT !.kind = "password", !.target = u, !.password = p]
                      EXCEPT !.read = accounts]
  <2>2. o.kind = "password" /\ o.target = u /\ o.password = p /\ o.read = accounts
    BY DEF Idle
  <2>3. RequestOK(o, session[c])
    BY <2>1, <2>2 DEF RequestOK, Kind, Present
  <2> QED
    BY <2>1, <2>3, GoesOn
<1>8. CASE ResetPassword(c)
  <2>1. PICK u \in Present(accounts) :
          \/ Goes(c, [Idle EXCEPT !.kind = "expire", !.target = u])
          \/ \E p \in Password : Goes(c, [Idle EXCEPT !.kind = "reset", !.target = u,
                                                !.password = p, !.otp = accounts[u].otp])
    BY <1>8 DEF ResetPassword
  <2>2. CASE Goes(c, [Idle EXCEPT !.kind = "expire", !.target = u])
    <3> DEFINE o == [[Idle EXCEPT !.kind = "expire", !.target = u] EXCEPT !.read = accounts]
    <3>1. o.kind = "expire" /\ o.target = u /\ o.read = accounts
      BY DEF Idle
    <3>2. RequestOK(o, session[c])
      BY <3>1 DEF RequestOK, Kind, Present
    <3> QED
      BY <2>2, <3>2, GoesOn
  <2>3. ASSUME NEW p \in Password,
               Goes(c, [Idle EXCEPT !.kind = "reset", !.target = u, !.password = p,
                                    !.otp = accounts[u].otp])
        PROVE  RequestsOK'
    <3> DEFINE o == [[Idle EXCEPT !.kind = "reset", !.target = u, !.password = p,
                                  !.otp = accounts[u].otp] EXCEPT !.read = accounts]
    <3>1. o.kind = "reset" /\ o.target = u /\ o.password = p /\ o.read = accounts
      BY DEF Idle
    <3>2. RequestOK(o, session[c])
      BY <3>1 DEF RequestOK, Kind, Present
    <3> QED
      BY <2>3, <3>2, GoesOn
  <2> QED
    BY <2>1, <2>2, <2>3
<1> QED
  BY <1>1, <1>2, <1>3, <1>4, <1>5, <1>6, <1>7, <1>8

(* The requests that end, and those that are one step.                       *)
LEMMA Ends ==
    ASSUME RequestsOK, NEW c \in Client,
           op' = op \/ op' = [op EXCEPT ![c] = Idle],
           op[c].kind # "clear" \/ op' = [op EXCEPT ![c] = Idle] \/ UNCHANGED session,
           \/ UNCHANGED session
           \/ \E u \in User \cup {Nobody} : session' = [session EXCEPT ![c] = u]
    PROVE  RequestsOK'
<1>1. CASE op' = [op EXCEPT ![c] = Idle]
  <2>1. Turns(c, Idle)
    BY <1>1, IdleOK DEF Turns, RequestsOK
  <2> QED
    BY <2>1, TurnsKeep
<1>2. CASE op' = op /\ UNCHANGED session
  BY <1>2 DEF RequestsOK
<1>3. CASE op' = op /\ op[c].kind # "clear"
  <2>1. session' \in [Client -> User \cup {Nobody}]
    BY DEF RequestsOK
  <2>2. \A d \in Client : d # c => session'[d] = session[d]
    BY DEF RequestsOK
  <2>3. \A d \in Client : RequestOK(op[d], session'[d])
    BY <1>3, <2>2 DEF RequestsOK, RequestOK
  <2> QED
    BY <1>3, <2>1, <2>3 DEF RequestsOK
<1> QED
  BY <1>1, <1>2, <1>3

LEMMA RequestsStep ==
    ASSUME RowsOK, RequestsOK, [Next]_vars
    PROVE  RequestsOK'
<1>1. CASE UNCHANGED vars
  BY <1>1 DEF vars, row, RequestsOK
<1>2. CASE Bootstrap \/ \E o \in Otp : Expire(o)
  BY <1>2 DEF Bootstrap, Expire, RequestsOK
<1>3. ASSUME NEW c \in Client, Administers(c)
      PROVE  RequestsOK'
  <2>1. CASE UpdateAccount(c) \/ CreateAccount(c) \/ ImportAccounts(c) \/ DeleteAccount(c)
               \/ ClearAllAccounts(c)
    BY <2>1, Begins
  <2>2. CASE CommitUpdate(c)
    BY <2>2, Ends DEF CommitUpdate, Set
  <2>3. CASE CommitCreate(c)
    BY <2>3, Ends DEF CommitCreate, Set
  <2>4. CASE CommitImport(c)
    BY <2>4, Ends DEF CommitImport, Set
  <2>5. CASE ResetDefaultAccounts(c) \/ Assign(c)
    BY <2>5, Ends DEF ResetDefaultAccounts, Assign
  <2>6. CASE CommitDelete(c) \/ CommitClear(c)
    BY <2>6, Ends DEF CommitDelete, CommitClear, Set
  <2> QED
    BY <1>3, <2>1, <2>2, <2>3, <2>4, <2>5, <2>6 DEF Administers
<1>4. ASSUME NEW c \in Client, Authenticates(c)
      PROVE  RequestsOK'
  <2>1. CASE UpdateOwnProfile(c) \/ SetPassword(c) \/ ResetPassword(c)
    BY <2>1, Begins
  <2>2. CASE Login(c) \/ LoginGuest(c) \/ Logout(c)
    <3>1. op' = op /\ op[c].kind # "clear"
      BY <2>2 DEF Login, LoginGuest, Logout, Sends, Idle
    <3>2. \E u \in User \cup {Nobody} : session' = [session EXCEPT ![c] = u]
      BY <2>2 DEF Login, LoginGuest, Logout, Present, WithEmail
    <3> QED
      BY <3>1, <3>2, Ends
  <2>3. CASE CommitProfile(c) \/ CommitPassword(c)
    BY <2>3, Ends DEF CommitProfile, CommitPassword, Set
  <2>4. CASE RequestPasswordReset(c)
    <3>1. PICK u \in Present(accounts), o \in Otp :
            Set(c, [Idle EXCEPT !.kind = "mail", !.target = u, !.otp = o])
      BY <2>4 DEF RequestPasswordReset
    <3> DEFINE r == [Idle EXCEPT !.kind = "mail", !.target = u, !.otp = o]
    <3>2. r.kind = "mail" /\ r.target = u /\ r.otp = o
      BY DEF Idle
    <3>3. RequestOK(r, session[c])
      BY <3>2 DEF RequestOK, Kind, Present
    <3> QED
      BY <2>4, <3>1, <3>3, GoesOn DEF RequestPasswordReset, Set
  <2>5. CASE MailOtp(c) \/ MailFails(c) \/ ClearExpired(c)
    BY <2>5, Ends DEF MailOtp, MailFails, ClearExpired, ClearOtp, Set
  <2>6. CASE CommitReset(c)
    BY <2>6, Ends DEF CommitReset, Set
  <2> QED
    BY <1>4, <2>1, <2>2, <2>3, <2>4, <2>5, <2>6 DEF Authenticates
<1>5. ASSUME NEW c \in Client, Abort(c)
      PROVE  RequestsOK'
  BY <1>5, Ends DEF Abort, Set
<1> QED
  BY <1>1, <1>2, <1>3, <1>4, <1>5 DEF Next

-----------------------------------------------------------------------------
(* The rows.                                                                 *)

LEMMA AccountIsSomebody == \A r \in Account : r # NoAccount
BY DEF Account, NoAccount, Role

LEMMA WithPasswordRow ==
    ASSUME NEW r \in Account, NEW p \in Password
    PROVE  /\ WithPassword(r, p) \in Account
           /\ WithPassword(r, p).email = r.email /\ WithPassword(r, p).role = r.role
           /\ WithPassword(r, p).otp = 0
<1>1. 0 \in 0..MaxOtp
  BY ConstantsAssumption
<1> QED
  BY <1>1 DEF WithPassword, Account

LEMMA PresentRow ==
    ASSUME NEW table \in Table, NEW u \in Present(table)
    PROVE  u \in User /\ table[u] \in Account
BY DEF Table, Present

LEMMA RowsUpdated ==
    ASSUME RowsOK, NEW u \in Present(accounts), NEW r \in Account, EmailIsFree(r.email, u),
           accounts' = [accounts EXCEPT ![u] = r], born' = born
    PROVE  RowsOK' /\ Present(accounts') = Present(accounts)
<1>1. accounts' \in Table
  BY DEF RowsOK, Table
<1>2. \A v \in User : accounts'[v] = IF v = u THEN r ELSE accounts[v]
  BY DEF RowsOK, Table
<1>3. Present(accounts') = Present(accounts)
  BY <1>2, AccountIsSomebody DEF Present
<1>4. \A v \in Present(accounts) : accounts[v].email = r.email => v = u
  BY DEF EmailIsFree, WithEmail
<1>5. \A v, w \in Present(accounts) : accounts'[v].email = accounts'[w].email => v = w
  BY <1>2, <1>4, PresentRow DEF RowsOK, Present
<1> QED
  BY <1>1, <1>3, <1>5 DEF RowsOK

LEMMA RowsAdded ==
    ASSUME RowsOK, NEW u \in User, u \notin born, NEW r \in Account,
           WithEmail(accounts, r.email) = {},
           accounts' = [accounts EXCEPT ![u] = r], born' = born \cup {u}
    PROVE  RowsOK' /\ Present(accounts') = Present(accounts) \cup {u}
<1>1. accounts' \in Table
  BY DEF RowsOK, Table
<1>2. \A v \in User : accounts'[v] = IF v = u THEN r ELSE accounts[v]
  BY DEF RowsOK, Table
<1>3. Present(accounts') = Present(accounts) \cup {u}
  BY <1>2, AccountIsSomebody DEF Present
<1>4. \A v \in Present(accounts) : accounts[v].email # r.email /\ v # u
  BY DEF WithEmail, RowsOK
<1>5. \A v, w \in Present(accounts') : accounts'[v].email = accounts'[w].email => v = w
  BY <1>2, <1>3, <1>4 DEF RowsOK, Present
<1> QED
  BY <1>1, <1>3, <1>5 DEF RowsOK

LEMMA RowsRemoved ==
    ASSUME RowsOK, accounts' \in Table, born' = born,
           \A u \in User : accounts'[u] \in {accounts[u], NoAccount}
    PROVE  RowsOK'
<1>1. \A u \in Present(accounts') : u \in Present(accounts) /\ accounts'[u] = accounts[u]
  BY DEF Present
<1> QED
  BY <1>1 DEF RowsOK

(* What an import does to each row.                                          *)
LEMMA ImportRows ==
    ASSUME RowsOK, RequestsOK, NEW c \in Client, CommitImport(c)
    PROVE  /\ accounts' \in Table
           /\ born \subseteq born' /\ born' \subseteq User
           /\ \A u \in User :
                \/ accounts'[u] = accounts[u]
                \/ /\ u \in Present(accounts) /\ accounts'[u] \in Account
                   /\ accounts'[u].email = accounts[u].email
                   /\ \/ accounts'[u].otp = accounts[u].otp
                      \/ accounts'[u].otp = 0 /\ IssuedTo(u) \subseteq closed'
                \/ /\ u \in born' \ born /\ accounts'[u] \in Account
                   /\ accounts'[u].otp = 0
                   /\ WithEmail(accounts, accounts'[u].email) = {}
           /\ \A u, v \in born' \ born : accounts'[u] # NoAccount /\ accounts'[v] # NoAccount
                /\ accounts'[u].email = accounts'[v].email => u = v
           /\ \A o \in closed' \ closed : \E u \in Present(accounts) :
                o \in IssuedTo(u) /\ accounts'[u].otp = 0
<1> DEFINE input   == op[c].heir
           read    == op[c].read
           known   == {u \in Present(read) : read[u].email \in DOMAIN input}
           changed == {u \in known : input[read[u].email] # read[u].role}
           written == IF op[c].password = Unset THEN changed ELSE known
           missing == NewEmails(read, input)
           Written(u) == [(IF op[c].password = Unset THEN accounts[u]
                           ELSE WithPassword(accounts[u], op[c].password))
                             EXCEPT !.role = IF u \in changed THEN input[read[u].email] ELSE @]
           New(e)  == [role |-> input[e], email |-> e, password |-> op[c].password, otp |-> 0]
<1>1. /\ read \in Table /\ input \in [DOMAIN input -> Role] /\ DOMAIN input \subseteq Email
      /\ op[c].password \in Password \cup {Unset}
      /\ missing # {} => op[c].password # Unset
  BY DEF CommitImport, Pending, RequestsOK, RequestOK
<1>2. /\ written \subseteq Present(accounts)
      /\ missing \subseteq NewEmails(accounts, input)
  BY DEF CommitImport
<1>3. PICK make \in [missing -> {u \in User : NewId(u)}] :
        /\ accounts' = [u \in User |->
              IF u \in written THEN Written(u)
              ELSE IF \E e \in missing : make[e] = u
              THEN New(CHOOSE e \in missing : make[e] = u)
              ELSE accounts[u]]
        /\ born' = born \cup {make[e] : e \in missing}
  BY DEF CommitImport
<1>4. closed' = closed \cup (IF op[c].password = Unset THEN {}
                             ELSE UNION {IssuedTo(u) : u \in written})
  BY DEF CommitImport
<1> HIDE DEF missing, written, Written, New
<1>5. ASSUME NEW u \in written
      PROVE  /\ u \in Present(accounts) /\ accounts'[u] \in Account
             /\ accounts'[u].email = accounts[u].email
             /\ op[c].password = Unset => accounts'[u].otp = accounts[u].otp
             /\ op[c].password # Unset => accounts'[u].otp = 0 /\ IssuedTo(u) \subseteq closed'
  <2>1. u \in User /\ accounts[u] \in Account
    BY <1>2, PresentRow DEF RowsOK
  <2>2. accounts'[u] = Written(u)
    BY <1>3, <2>1
  <2>3. u \in changed => input[read[u].email] \in Role
    BY <1>1
  <2>4. /\ Written(u) \in Account /\ Written(u).email = accounts[u].email
        /\ op[c].password = Unset => Written(u).otp = accounts[u].otp
        /\ op[c].password # Unset => Written(u).otp = 0
    <3> DEFINE base == IF op[c].password = Unset THEN accounts[u]
                       ELSE WithPassword(accounts[u], op[c].password)
    <3>1. /\ base \in Account /\ base.email = accounts[u].email
          /\ op[c].password = Unset => base.otp = accounts[u].otp
          /\ op[c].password # Unset => base.otp = 0
      BY <1>1, <2>1, WithPasswordRow
    <3>2. PICK r : /\ Written(u) = [base EXCEPT !.role = r]
                   /\ r = IF u \in changed THEN input[read[u].email] ELSE base.role
      BY DEF Written
    <3> HIDE DEF base, changed
    <3>3. r \in Role
      BY <2>3, <3>1, <3>2 DEF Account
    <3> QED
      BY <3>1, <3>2, <3>3 DEF Account
  <2> QED
    BY <1>2, <1>4, <2>2, <2>4
<1>6. ASSUME NEW u \in User \ written, NEW e \in missing, make[e] = u
      PROVE  \E f \in missing : /\ make[f] = u /\ accounts'[u] = New(f) /\ New(f) \in Account
                                /\ New(f).email = f /\ New(f).otp = 0
                                /\ WithEmail(accounts, f) = {}
                                /\ u \in born' \ born
  <2>1. PICK f \in missing : make[f] = u /\ accounts'[u] = New(f)
    BY <1>3, <1>6
  <2>2. f \in DOMAIN input /\ WithEmail(accounts, f) = {}
    BY <1>2 DEF NewEmails
  <2>3. New(f) \in Account /\ New(f).email = f /\ New(f).otp = 0
    BY <1>1, <2>2, ConstantsAssumption DEF New, Account
  <2>4. u \in born' \ born
    BY <1>3, <2>1 DEF NewId
  <2> QED
    BY <2>1, <2>2, <2>3, <2>4
<1>7. \A u \in User \ written : (\A e \in missing : make[e] # u) => accounts'[u] = accounts[u]
  BY <1>3
<1>8. accounts' \in Table
  <2>1. \A u \in User : accounts'[u] \in Account \cup {NoAccount}
    BY <1>5, <1>6, <1>7 DEF RowsOK, Table
  <2> QED
    BY <1>3, <2>1 DEF Table
<1>9. born \subseteq born' /\ born' \subseteq User
  BY <1>3 DEF RowsOK
<1>10. ASSUME NEW u \in born' \ born, NEW v \in born' \ born, accounts'[u] # NoAccount,
              accounts'[v] # NoAccount, accounts'[u].email = accounts'[v].email
       PROVE  u = v
  <2>1. u \notin written /\ v \notin written /\ u \in User /\ v \in User
    BY <1>2, <1>9 DEF RowsOK
  <2>2. (\E e \in missing : make[e] = u) /\ (\E e \in missing : make[e] = v)
    BY <1>3
  <2> QED
    BY <1>6, <1>10, <2>1, <2>2
<1>11. ASSUME NEW o \in closed' \ closed
       PROVE  \E u \in Present(accounts) : o \in IssuedTo(u) /\ accounts'[u].otp = 0
  BY <1>4, <1>5
<1>12. ASSUME NEW u \in User
       PROVE  \/ accounts'[u] = accounts[u]
              \/ /\ u \in Present(accounts) /\ accounts'[u] \in Account
                 /\ accounts'[u].email = accounts[u].email
                 /\ \/ accounts'[u].otp = accounts[u].otp
                    \/ accounts'[u].otp = 0 /\ IssuedTo(u) \subseteq closed'
              \/ /\ u \in born' \ born /\ accounts'[u] \in Account
                 /\ accounts'[u].otp = 0
                 /\ WithEmail(accounts, accounts'[u].email) = {}
  <2>1. CASE u \in written
    BY <1>5, <2>1
  <2>2. CASE u \notin written /\ \A e \in missing : make[e] # u
    BY <1>7, <2>2
  <2>3. CASE u \notin written /\ \E e \in missing : make[e] = u
    BY <1>6, <2>3
  <2> QED
    BY <2>1, <2>2, <2>3
<1> QED
  BY <1>8, <1>9, <1>10, <1>11, <1>12

LEMMA RowsImported ==
    ASSUME RowsOK, RequestsOK, NEW c \in Client, CommitImport(c)
    PROVE  RowsOK' /\ Present(accounts) \subseteq Present(accounts')
<1>1. Present(accounts) \subseteq Present(accounts')
  BY ImportRows, AccountIsSomebody DEF Present
<1>2. Present(accounts') \subseteq born' /\ born' \subseteq User
  BY ImportRows DEF RowsOK, Present
<1>3. ASSUME NEW u \in Present(accounts'), NEW v \in Present(accounts'),
             accounts'[u].email = accounts'[v].email
      PROVE  u = v
  <2>1. \A w \in Present(accounts') : 
           \/ w \in Present(accounts) /\ accounts'[w].email = accounts[w].email
           \/ w \in born' \ born /\ WithEmail(accounts, accounts'[w].email) = {}
    BY ImportRows DEF Present
  <2>2. CASE u \in Present(accounts) /\ v \in Present(accounts)
    BY <1>3, <2>1, <2>2 DEF RowsOK
  <2>3. CASE u \notin Present(accounts) /\ v \notin Present(accounts)
    BY <1>3, <2>1, <2>3, ImportRows DEF Present
  <2> QED
    BY <1>3, <2>1, <2>2, <2>3 DEF WithEmail, RowsOK
<1> QED
  BY <1>1, <1>2, <1>3, ImportRows DEF RowsOK

-----------------------------------------------------------------------------
(* Rows, owners and one-time passwords.                                      *)

HolderOK == holder \in [Item -> Present(accounts) \cup {Nobody}]

(* A one-time password on a row was made for that account; those made for it *)
(* and not closed or wiped are on its row.                                   *)
OtpsOK ==
    /\ issued \in [Otp -> User \cup {Nobody}]
    /\ closed \subseteq Otp /\ wiped \subseteq Otp
    /\ \A o \in closed : issued[o] # Nobody
    /\ \A o \in Otp : issued[o] # Nobody => issued[o] \in born
    /\ \A u \in Present(accounts) :
          accounts[u].otp # 0 => accounts[u].otp \in Otp /\ issued[accounts[u].otp] = u
    /\ OtpsStayClosed
    /\ \A o \in Otp \ (closed \cup wiped) :
          issued[o] \in Present(accounts) => accounts[issued[o]].otp = o

DataOK == RowsOK /\ HolderOK /\ OtpsOK

(* An account that is not there has no one-time password.                    *)
LEMMA NoRowNoOtp ==
    ASSUME NEW table \in Table, NEW u \in User, u \notin Present(table)
    PROVE  table[u].otp = 0
BY DEF Present, NoAccount

(* Steps that make no one-time password: what they do to each row decides    *)
(* what they have to close or to wipe.                                       *)
LEMMA OtpsKeep ==
    ASSUME RowsOK, OtpsOK, accounts' \in Table, issued' = issued, born \subseteq born',
           closed \subseteq closed', closed' \subseteq Otp,
           wiped \subseteq wiped', wiped' \subseteq Otp,
           \A o \in closed' \ closed :
                \E u \in Present(accounts) : o \in IssuedTo(u) /\ accounts'[u].otp = 0,
           \A u \in Present(accounts') :
                \/ accounts'[u].otp = 0 /\ IssuedTo(u) \subseteq closed'
                \/ /\ u \in Present(accounts)
                   /\ accounts'[u].otp = accounts[u].otp
                \/ /\ u \in Present(accounts)
                   /\ accounts'[u].otp = 0
                   /\ {accounts[u].otp} \ {0} \subseteq wiped'
    PROVE  OtpsOK'
<1>1. Nobody \notin User /\ 0 \notin Otp
  BY ConstantsAssumption DEF Otp
<1>2. \A o \in closed' : issued[o] # Nobody
  BY <1>1 DEF OtpsOK, IssuedTo, Present
<1>3. ASSUME NEW u \in Present(accounts'), accounts'[u].otp # 0
      PROVE  /\ u \in Present(accounts) /\ accounts'[u].otp = accounts[u].otp
             /\ accounts'[u].otp \in Otp /\ issued[accounts'[u].otp] = u
  BY <1>3 DEF OtpsOK
<1>4. ASSUME NEW u \in User
      PROVE  accounts'[u].otp \notin closed'
  <2>1. CASE accounts'[u].otp = 0
    BY <1>1, <2>1
  <2>2. CASE u \in Present(accounts') /\ accounts'[u].otp # 0
    <3>1. accounts'[u].otp \notin closed
      BY <1>3, <2>2 DEF OtpsOK, OtpsStayClosed
    <3>2. ASSUME accounts'[u].otp \in closed' \ closed
          PROVE  FALSE
      BY <1>3, <2>2, <3>2 DEF IssuedTo
    <3> QED
      BY <3>1, <3>2
  <2> QED
    BY <2>1, <2>2, NoRowNoOtp
<1>5. ASSUME NEW o \in Otp \ (closed' \cup wiped'), issued[o] \in Present(accounts')
      PROVE  accounts'[issued[o]].otp = o
  <2> DEFINE u == issued[o]
  <2>1. o \in IssuedTo(u) /\ o # 0
    BY <1>1 DEF IssuedTo
  <2>2. u \in Present(accounts) => accounts[u].otp = o
    BY DEF OtpsOK
  <2> QED
    BY <1>5, <2>1, <2>2
<1>6. \A o \in Otp : issued[o] # Nobody => issued[o] \in born'
  BY DEF OtpsOK
<1> HIDE DEF Otp
<1> QED
  BY <1>2, <1>3, <1>4, <1>5, <1>6 DEF OtpsOK, OtpsStayClosed

(* The row of one account changes.                                           *)
LEMMA Updated ==
    ASSUME DataOK, NEW u \in Present(accounts), NEW r \in Account, EmailIsFree(r.email, u),
           accounts' = [accounts EXCEPT ![u] = r], UNCHANGED <<born, holder, issued>>,
           \/ r.otp = accounts[u].otp /\ UNCHANGED <<closed, wiped>>
           \/ r.otp = 0 /\ closed' = closed \cup IssuedTo(u) /\ UNCHANGED wiped
           \/ r.otp = 0 /\ wiped' = wiped \cup ({accounts[u].otp} \ {0}) /\ UNCHANGED closed
    PROVE  DataOK'
<1>1. RowsOK' /\ Present(accounts') = Present(accounts)
  BY RowsUpdated DEF DataOK
<1>2. HolderOK'
  BY <1>1 DEF DataOK, HolderOK
<1>3. u \in User /\ accounts' \in Table /\ \A v \in User : accounts'[v] = IF v = u THEN r ELSE accounts[v]
  BY <1>1 DEF DataOK, RowsOK, Table, Present
<1>4. closed \subseteq closed' /\ closed' \subseteq Otp
  BY DEF DataOK, OtpsOK, IssuedTo
<1>5. wiped \subseteq wiped' /\ wiped' \subseteq Otp
  BY DEF DataOK, OtpsOK
<1>6. \A o \in closed' \ closed : o \in IssuedTo(u) /\ accounts'[u].otp = 0
  BY <1>3
<1>7. ASSUME NEW v \in Present(accounts')
      PROVE  \/ accounts'[v].otp = 0 /\ IssuedTo(v) \subseteq closed'
             \/ /\ v \in Present(accounts)
                /\ accounts'[v].otp = accounts[v].otp
             \/ /\ v \in Present(accounts)
                /\ accounts'[v].otp = 0
                /\ {accounts[v].otp} \ {0} \subseteq wiped'
  BY <1>1, <1>3 DEF Present
<1>8. OtpsOK'
  BY <1>3, <1>4, <1>5, <1>6, <1>7, OtpsKeep DEF DataOK
<1> QED
  BY <1>1, <1>2, <1>8 DEF DataOK

(* An account is made.                                                       *)
LEMMA Added ==
    ASSUME DataOK, NEW u \in User, NewId(u), NEW r \in Account, r.otp = 0,
           WithEmail(accounts, r.email) = {},
           accounts' = [accounts EXCEPT ![u] = r], born' = born \cup {u},
           UNCHANGED <<holder, issued, closed, wiped>>
    PROVE  DataOK'
<1>1. RowsOK' /\ Present(accounts') = Present(accounts) \cup {u}
  BY RowsAdded DEF DataOK, NewId
<1>2. HolderOK'
  BY <1>1 DEF DataOK, HolderOK
<1>3. IssuedTo(u) = {}
  BY ConstantsAssumption DEF IssuedTo, DataOK, OtpsOK, NewId
<1>4. accounts' \in Table /\ \A v \in User : accounts'[v] = IF v = u THEN r ELSE accounts[v]
  BY <1>1 DEF DataOK, RowsOK, Table
<1>5. ASSUME NEW v \in Present(accounts')
      PROVE  \/ accounts'[v].otp = 0 /\ IssuedTo(v) \subseteq closed'
             \/ v \in Present(accounts) /\ accounts'[v].otp = accounts[v].otp
  BY <1>1, <1>3, <1>4 DEF Present
<1>6. OtpsOK'
  BY <1>4, <1>5, OtpsKeep DEF DataOK, OtpsOK
<1> QED
  BY <1>1, <1>2, <1>6 DEF DataOK

(* Accounts are deleted.                                                     *)
LEMMA Removed ==
    ASSUME DataOK, accounts' \in Table, UNCHANGED <<born, issued, closed, wiped>>,
           \A u \in User : accounts'[u] \in {accounts[u], NoAccount},
           HolderOK'
    PROVE  DataOK'
<1>1. RowsOK'
  BY RowsRemoved DEF DataOK
<1>2. \A u \in Present(accounts') : u \in Present(accounts) /\ accounts'[u] = accounts[u]
  BY DEF Present
<1>3. OtpsOK'
  BY <1>2, OtpsKeep DEF DataOK, OtpsOK
<1> QED
  BY <1>1, <1>3 DEF DataOK

LEMMA AdministersKeepsData ==
    ASSUME DataOK, RequestsOK, NEW c \in Client, Administers(c)
    PROVE  DataOK'
<1> USE DEF Set
<1>0. RequestOK(op[c], session[c])
  BY DEF RequestsOK
<1>1. CASE UpdateAccount(c) \/ CreateAccount(c) \/ ImportAccounts(c) \/ DeleteAccount(c)
             \/ ClearAllAccounts(c)
  <2>1. UNCHANGED <<row, holder, otps>>
    BY <1>1 DEF UpdateAccount, CreateAccount, ImportAccounts, DeleteAccount, ClearAllAccounts,
                Goes
  <2> QED
    BY <2>1 DEF row, otps, DataOK, RowsOK, HolderOK, OtpsOK, OtpsStayClosed
<1>2. CASE CommitUpdate(c)
  <2> DEFINE u == op[c].target
             r == [accounts[u] EXCEPT !.email = op[c].email, !.role = op[c].role]
  <2>1. u \in Present(accounts) /\ EmailIsFree(op[c].email, u)
    BY <1>2 DEF CommitUpdate
  <2>2. op[c].email \in Email /\ op[c].role \in Role
    BY <1>0, <1>2 DEF CommitUpdate, Pending, RequestOK
  <2>3. accounts[u] \in Account /\ u \in User
    BY <2>1, PresentRow DEF DataOK, RowsOK
  <2>4. r \in Account /\ r.email = op[c].email /\ r.otp = accounts[u].otp
    BY <2>2, <2>3 DEF Account
  <2>5. accounts' = [accounts EXCEPT ![u] = r]
    BY <1>2, <2>3 DEF CommitUpdate, DataOK, RowsOK, Table
  <2>6. UNCHANGED <<born, holder, issued, closed, wiped>>
    BY <1>2 DEF CommitUpdate, otps
  <2> HIDE DEF r
  <2> QED
    BY <2>1, <2>4, <2>5, <2>6, Updated
<1>3. CASE CommitCreate(c)
  <2> DEFINE r == [role |-> op[c].role, email |-> op[c].email,
                   password |-> op[c].password, otp |-> 0]
  <2>1. op[c].email \in Email /\ op[c].role \in Role /\ op[c].password \in Password
    BY <1>0, <1>3 DEF CommitCreate, Pending, RequestOK
  <2>2. 0 \in 0..MaxOtp
    BY ConstantsAssumption
  <2>3. r \in Account /\ r.email = op[c].email /\ r.otp = 0
    BY <2>1, <2>2 DEF Account
  <2>4. PICK u \in User : /\ NewId(u) /\ accounts' = [accounts EXCEPT ![u] = r]
                          /\ born' = born \cup {u}
    BY <1>3 DEF CommitCreate
  <2>5. WithEmail(accounts, op[c].email) = {} /\ UNCHANGED <<holder, issued, closed, wiped>>
    BY <1>3 DEF CommitCreate, otps
  <2> HIDE DEF r
  <2> QED
    BY <2>3, <2>4, <2>5, Added
<1>4. CASE CommitImport(c)
  <2>1. RowsOK' /\ Present(accounts) \subseteq Present(accounts')
    BY <1>4, RowsImported DEF DataOK
  <2>2. HolderOK'
    BY <1>4, <2>1 DEF DataOK, HolderOK, CommitImport
  <2>3. UNCHANGED <<issued, wiped>> /\ closed \subseteq closed'
    BY <1>4 DEF CommitImport
  <2>4. /\ accounts' \in Table /\ born \subseteq born'
        /\ \A o \in closed' \ closed :
              \E u \in Present(accounts) : o \in IssuedTo(u) /\ accounts'[u].otp = 0
    BY <1>4, ImportRows DEF DataOK
  <2>5. closed' \subseteq Otp
    BY <2>4 DEF DataOK, OtpsOK, IssuedTo
  <2>6. ASSUME NEW u \in Present(accounts')
        PROVE  \/ accounts'[u].otp = 0 /\ IssuedTo(u) \subseteq closed'
               \/ u \in Present(accounts) /\ accounts'[u].otp = accounts[u].otp
    <3>1. CASE accounts'[u] = accounts[u]
      BY <3>1 DEF Present
    <3>2. CASE u \in born' \ born /\ accounts'[u].otp = 0
      <4>1. IssuedTo(u) = {}
        BY <3>2, ConstantsAssumption DEF IssuedTo, DataOK, OtpsOK, Present
      <4> QED
        BY <3>2, <4>1
    <3> QED
      BY <1>4, <3>1, <3>2, ImportRows DEF DataOK, Present
  <2>7. OtpsOK'
    BY <2>3, <2>4, <2>5, <2>6, OtpsKeep DEF DataOK, OtpsOK
  <2> QED
    BY <2>1, <2>2, <2>7 DEF DataOK
<1>5. CASE ResetDefaultAccounts(c)
  <2>1. UNCHANGED <<holder, issued, wiped>> /\ DefaultPassword \in Password /\ AdminEmail \in Email
    BY <1>5, ConstantsAssumption DEF ResetDefaultAccounts
  <2>2. ASSUME NEW u \in WithEmail(accounts, AdminEmail),
               accounts' = [accounts EXCEPT ![u] =
                              [WithPassword(@, DefaultPassword) EXCEPT !.role = "admin"]],
               closed' = closed \cup IssuedTo(u), UNCHANGED born
        PROVE  DataOK'
    <3> DEFINE w == WithPassword(accounts[u], DefaultPassword)
               r == [w EXCEPT !.role = "admin"]
    <3>1. u \in Present(accounts) /\ accounts[u].email = AdminEmail
      BY DEF WithEmail
    <3>2. u \in User /\ accounts[u] \in Account
      BY <3>1, PresentRow DEF DataOK, RowsOK
    <3>3. w \in Account /\ w.email = AdminEmail /\ w.otp = 0
      BY <2>1, <3>1, <3>2, WithPasswordRow
    <3> HIDE DEF w
    <3>4. r \in Account /\ r.email = AdminEmail /\ r.otp = 0
      BY <3>3 DEF Account, Role
    <3>5. EmailIsFree(AdminEmail, u)
      BY <3>1 DEF EmailIsFree, WithEmail, DataOK, RowsOK
    <3>6. accounts' = [accounts EXCEPT ![u] = r]
      BY <2>2, <3>2 DEF DataOK, RowsOK, Table, w
    <3> HIDE DEF r
    <3> QED
      BY <2>1, <2>2, <3>1, <3>4, <3>5, <3>6, Updated
  <2>3. ASSUME NEW u \in User, NewId(u), WithEmail(accounts, AdminEmail) = {},
               accounts' = [accounts EXCEPT ![u] = [role |-> "admin", email |-> AdminEmail,
                                                    password |-> DefaultPassword, otp |-> 0]],
               born' = born \cup {u}, UNCHANGED closed
        PROVE  DataOK'
    <3> DEFINE r == [role |-> "admin", email |-> AdminEmail, password |-> DefaultPassword,
                     otp |-> 0]
    <3>1. 0 \in 0..MaxOtp
      BY ConstantsAssumption
    <3>2. r \in Account /\ r.email = AdminEmail /\ r.otp = 0
      BY <2>1, <3>1 DEF Account, Role
    <3> HIDE DEF r
    <3>3. accounts' = [accounts EXCEPT ![u] = r]
      BY <2>3 DEF r
    <3> QED
      BY <2>1, <2>3, <3>2, <3>3, Added
  <2> QED
    BY <1>5, <2>2, <2>3 DEF ResetDefaultAccounts
<1>6. CASE CommitDelete(c)
  <2> DEFINE t == op[c].target
  <2>1. /\ t \in Present(accounts) /\ t \in User
        /\ accounts' = [accounts EXCEPT ![t] = NoAccount]
        /\ UNCHANGED <<born, issued, closed, wiped>>
    BY <1>6 DEF CommitDelete, Present, otps
  <2>2. accounts' \in Table /\ \A u \in User : accounts'[u] = IF u = t THEN NoAccount ELSE accounts[u]
    BY <2>1 DEF DataOK, RowsOK, Table
  <2>3. Present(accounts') = Present(accounts) \ {t}
    BY <2>2 DEF Present
  <2>4. op[c].held # {} => op[c].heir \in (Present(accounts) \ {t}) \cup {Nobody}
    BY <1>0, <1>6 DEF CommitDelete, Pending, RequestOK
  <2>5. holder' = [i \in Item |-> IF holder[i] # t THEN holder[i]
                                  ELSE IF op[c].held # {} THEN op[c].heir ELSE Nobody]
    BY <1>6 DEF CommitDelete
  <2>6. HolderOK'
    BY <2>3, <2>4, <2>5 DEF DataOK, HolderOK
  <2> QED
    BY <2>1, <2>2, <2>6, Removed
<1>7. CASE CommitClear(c)
  <2>1. /\ \A u \in User : accounts'[u] \in {accounts[u], NoAccount}
        /\ UNCHANGED <<born, issued, closed, wiped>>
        /\ Disowned(accounts')
    BY <1>7 DEF CommitClear, otps
  <2>2. accounts' \in Table
    BY <1>7 DEF CommitClear, DataOK, RowsOK, Table
  <2>3. HolderOK'
    BY <2>1 DEF Disowned, HolderOK
  <2> QED
    BY <2>1, <2>2, <2>3, Removed
<1>8. CASE Assign(c)
  <2>1. UNCHANGED <<row, otps>>
    BY <1>8 DEF Assign
  <2>2. HolderOK'
    BY <1>8, <2>1 DEF Assign, HolderOK, DataOK, row
  <2> QED
    BY <2>1, <2>2 DEF row, otps, DataOK, RowsOK, OtpsOK, OtpsStayClosed
<1> QED
  BY <1>1, <1>2, <1>3, <1>4, <1>5, <1>6, <1>7, <1>8 DEF Administers

(* A password is written, with or without a new address.                     *)
LEMMA PasswordWritten ==
    ASSUME DataOK, NEW u \in Present(accounts), NEW p \in Password,
           accounts' = [accounts EXCEPT ![u] = WithPassword(@, p)],
           closed' = closed \cup IssuedTo(u), UNCHANGED <<born, holder, issued, wiped>>
    PROVE  DataOK'
<1> DEFINE r == WithPassword(accounts[u], p)
<1>1. u \in User /\ accounts[u] \in Account
  BY PresentRow DEF DataOK, RowsOK
<1>2. r \in Account /\ r.email = accounts[u].email /\ r.otp = 0
  BY <1>1, WithPasswordRow
<1>3. EmailIsFree(r.email, u)
  BY <1>2 DEF EmailIsFree, WithEmail, DataOK, RowsOK
<1>4. accounts' = [accounts EXCEPT ![u] = r]
  OBVIOUS
<1> HIDE DEF r
<1> QED
  BY <1>2, <1>3, <1>4, Updated

LEMMA OtpCleared ==
    ASSUME DataOK, NEW c \in Client, ClearOtp(c)
    PROVE  DataOK'
<1> DEFINE u == op[c].target
           r == [accounts[u] EXCEPT !.otp = 0]
<1>1. u \in Present(accounts) /\ u \in User /\ accounts[u] \in Account
  BY PresentRow DEF ClearOtp, DataOK, RowsOK
<1>2. 0 \in 0..MaxOtp
  BY ConstantsAssumption
<1>3. r \in Account /\ r.email = accounts[u].email /\ r.otp = 0
  BY <1>1, <1>2 DEF Account
<1>4. EmailIsFree(r.email, u)
  BY <1>1, <1>3 DEF EmailIsFree, WithEmail, DataOK, RowsOK
<1>5. /\ accounts' = [accounts EXCEPT ![u] = r]
      /\ wiped' = wiped \cup ({accounts[u].otp} \ {0})
      /\ UNCHANGED <<born, holder, issued, closed>>
  BY <1>1 DEF ClearOtp, DataOK, RowsOK, Table
<1> HIDE DEF r
<1> QED
  BY <1>1, <1>3, <1>4, <1>5, Updated

(* A new one-time password replaces the one on the row and closes all that   *)
(* were made for the account before.                                         *)
LEMMA OtpReplaced ==
    ASSUME DataOK, NEW u \in Present(accounts), NEW o \in Otp, issued[o] = Nobody,
           accounts' = [accounts EXCEPT ![u].otp = o],
           issued' = [issued EXCEPT ![o] = u], closed' = closed \cup IssuedTo(u),
           UNCHANGED <<born, holder, wiped>>
    PROVE  DataOK'
<1> DEFINE r == [accounts[u] EXCEPT !.otp = o]
<1>1. u \in User /\ accounts[u] \in Account /\ u \in born
  BY PresentRow DEF DataOK, RowsOK
<1>2. o \in 0..MaxOtp /\ o # 0
  BY ConstantsAssumption DEF Otp
<1>3. r \in Account /\ r.email = accounts[u].email /\ r.otp = o
  BY <1>1, <1>2 DEF Account
<1>4. EmailIsFree(r.email, u)
  BY <1>1, <1>3 DEF EmailIsFree, WithEmail, DataOK, RowsOK
<1>5. accounts' = [accounts EXCEPT ![u] = r]
  BY <1>1 DEF DataOK, RowsOK, Table
<1> HIDE DEF r
<1>6. RowsOK' /\ Present(accounts') = Present(accounts)
  BY <1>3, <1>4, <1>5, RowsUpdated DEF DataOK
<1>7. \A v \in User : accounts'[v] = IF v = u THEN r ELSE accounts[v]
  BY <1>5 DEF DataOK, RowsOK, Table
<1>8. Nobody \notin User /\ 0 \notin Otp
  BY ConstantsAssumption DEF Otp
<1>9. \A q \in Otp : issued'[q] = IF q = o THEN u ELSE issued[q]
  BY DEF DataOK, OtpsOK
<1>10. issued' \in [Otp -> User \cup {Nobody}]
  BY <1>1 DEF DataOK, OtpsOK
<1>11. closed' \subseteq Otp /\ o \notin closed' /\ \A q \in closed' : issued'[q] # Nobody
  BY <1>1, <1>8, <1>9 DEF DataOK, OtpsOK, IssuedTo
<1>12. \A q \in Otp : issued'[q] # Nobody => issued'[q] \in born'
  BY <1>1, <1>9 DEF DataOK, OtpsOK
<1>13. ASSUME NEW v \in Present(accounts'), accounts'[v].otp # 0
       PROVE  accounts'[v].otp \in Otp /\ issued'[accounts'[v].otp] = v
  <2>1. CASE v = u
    BY <1>1, <1>3, <1>7, <1>9, <2>1
  <2>2. CASE v # u
    <3>1. v \in User /\ v \in Present(accounts) /\ accounts'[v] = accounts[v]
      BY <1>6, <1>7, <2>2 DEF Present
    <3>2. accounts[v].otp \in Otp /\ issued[accounts[v].otp] = v
      BY <1>13, <3>1 DEF DataOK, OtpsOK
    <3> QED
      BY <1>8, <1>9, <3>1, <3>2
  <2> QED
    BY <2>1, <2>2
<1>14. ASSUME NEW v \in User
       PROVE  accounts'[v].otp \notin closed'
  <2>1. CASE v = u
    BY <1>3, <1>7, <1>11, <2>1
  <2>2. CASE v # u
    <3>1. accounts'[v] = accounts[v] /\ accounts[v].otp \notin closed
      BY <1>7, <2>2 DEF DataOK, OtpsOK, OtpsStayClosed
    <3>2. accounts[v].otp # 0 => issued[accounts[v].otp] = v
      BY NoRowNoOtp DEF DataOK, RowsOK, OtpsOK
    <3> QED
      BY <1>8, <2>2, <3>1, <3>2 DEF IssuedTo
  <2> QED
    BY <2>1, <2>2
<1>15. ASSUME NEW q \in Otp \ (closed' \cup wiped), issued'[q] \in Present(accounts')
       PROVE  accounts'[issued'[q]].otp = q
  <2>1. CASE q = o
    BY <1>1, <1>3, <1>7, <1>9, <2>1
  <2>2. CASE q # o
    <3>1. issued'[q] = issued[q] /\ issued[q] # u
      BY <1>9, <2>2 DEF IssuedTo
    <3>2. accounts[issued[q]].otp = q
      BY <1>6, <1>15, <3>1 DEF DataOK, OtpsOK
    <3> QED
      BY <1>6, <1>7, <1>15, <3>1, <3>2 DEF Present
  <2> QED
    BY <2>1, <2>2
<1>16. HolderOK'
  BY <1>6 DEF DataOK, HolderOK
<1>17. wiped' \subseteq Otp
  BY DEF DataOK, OtpsOK
<1> HIDE DEF Otp
<1>18. OtpsStayClosed'
  BY <1>14 DEF OtpsStayClosed
<1>19. OtpsOK'
  BY <1>10, <1>11, <1>12, <1>13, <1>15, <1>17, <1>18 DEF OtpsOK
<1> QED
  BY <1>6, <1>16, <1>19 DEF DataOK

LEMMA AuthenticatesKeepsData ==
    ASSUME DataOK, RequestsOK, NEW c \in Client, Authenticates(c)
    PROVE  DataOK'
<1> USE DEF Set
<1>0. RequestOK(op[c], session[c])
  BY DEF RequestsOK
<1>1. CASE Login(c) \/ Logout(c) \/ UpdateOwnProfile(c) \/ SetPassword(c) \/ ResetPassword(c)
  <2>1. UNCHANGED <<row, holder, otps>>
    BY <1>1 DEF Login, Logout, UpdateOwnProfile, SetPassword, ResetPassword, Goes
  <2> QED
    BY <2>1 DEF row, otps, DataOK, RowsOK, HolderOK, OtpsOK, OtpsStayClosed
<1>2. CASE LoginGuest(c)
  <2>1. UNCHANGED <<holder, issued, closed, wiped>> /\ Guest \in Email
    BY <1>2, ConstantsAssumption DEF LoginGuest, otps
  <2>2. ASSUME NEW u \in WithEmail(accounts, Guest),
               accounts' = [accounts EXCEPT ![u].role = "viewer"], UNCHANGED born
        PROVE  DataOK'
    <3> DEFINE r == [accounts[u] EXCEPT !.role = "viewer"]
    <3>1. u \in Present(accounts) /\ u \in User /\ accounts[u] \in Account
      BY PresentRow DEF WithEmail, DataOK, RowsOK
    <3>2. r \in Account /\ r.email = accounts[u].email /\ r.otp = accounts[u].otp
      BY <3>1 DEF Account, Role
    <3>3. EmailIsFree(r.email, u)
      BY <3>1, <3>2 DEF EmailIsFree, WithEmail, DataOK, RowsOK
    <3>4. accounts' = [accounts EXCEPT ![u] = r]
      BY <2>2, <3>1 DEF DataOK, RowsOK, Table
    <3> HIDE DEF r
    <3> QED
      BY <2>1, <2>2, <3>1, <3>2, <3>3, <3>4, Updated
  <2>3. ASSUME NEW u \in User, NEW p \in Password, NewId(u), WithEmail(accounts, Guest) = {},
               accounts' = [accounts EXCEPT ![u] =
                        [role |-> "viewer", email |-> Guest, password |-> p, otp |-> 0]],
               born' = born \cup {u}
        PROVE  DataOK'
    <3> DEFINE r == [role |-> "viewer", email |-> Guest, password |-> p, otp |-> 0]
    <3>1. 0 \in 0..MaxOtp
      BY ConstantsAssumption
    <3>2. r \in Account /\ r.email = Guest /\ r.otp = 0
      BY <2>1, <3>1 DEF Account, Role
    <3>3. accounts' = [accounts EXCEPT ![u] = r]
      BY <2>3
    <3> HIDE DEF r
    <3> QED
      BY <2>1, <2>3, <3>2, <3>3, Added
  <2> QED
    BY <1>2, <2>2, <2>3 DEF LoginGuest
<1>3. CASE CommitProfile(c)
  <2> DEFINE u == op[c].target
             e == IF op[c].email = op[c].read[u].email THEN accounts[u].email ELSE op[c].email
             w == IF op[c].password = Unset THEN accounts[u]
                  ELSE WithPassword(accounts[u], op[c].password)
             r == [w EXCEPT !.email = e]
  <2>1. u \in Present(accounts) /\ EmailIsFree(e, u)
    BY <1>3 DEF CommitProfile
  <2>2. op[c].email \in Email /\ op[c].password \in Password \cup {Unset}
    BY <1>0, <1>3 DEF CommitProfile, Pending, RequestOK
  <2>3. accounts[u] \in Account /\ u \in User
    BY <2>1, PresentRow DEF DataOK, RowsOK
  <2>4. e \in Email
    BY <2>2, <2>3 DEF Account
  <2>5. /\ w \in Account
        /\ op[c].password = Unset => w.otp = accounts[u].otp
        /\ op[c].password # Unset => w.otp = 0
    BY <2>2, <2>3, WithPasswordRow
  <2>6. /\ accounts' = [accounts EXCEPT ![u] = r]
        /\ closed' = IF op[c].password = Unset THEN closed ELSE closed \cup IssuedTo(u)
        /\ UNCHANGED <<born, holder, issued, wiped>>
    BY <1>3, <2>3 DEF CommitProfile, DataOK, RowsOK, Table
  <2> HIDE DEF w, e
  <2>7. r \in Account /\ r.email = e /\ r.otp = w.otp
    BY <2>4, <2>5 DEF Account
  <2> HIDE DEF r
  <2> QED
    BY <2>1, <2>5, <2>6, <2>7, Updated
<1>4. CASE CommitPassword(c)
  <2>1. op[c].password \in Password
    BY <1>0, <1>4 DEF CommitPassword, Pending, RequestOK
  <2> QED
    BY <1>4, <2>1, PasswordWritten DEF CommitPassword
<1>5. CASE RequestPasswordReset(c)
  BY <1>5, OtpReplaced DEF RequestPasswordReset
<1>6. CASE MailOtp(c)
  <2>1. UNCHANGED <<row, holder, issued, closed, wiped>>
    BY <1>6 DEF MailOtp
  <2> QED
    BY <2>1 DEF row, DataOK, RowsOK, HolderOK, OtpsOK, OtpsStayClosed
<1>7. CASE MailFails(c) \/ ClearExpired(c)
  BY <1>7, OtpCleared DEF MailFails, ClearExpired
<1>8. CASE CommitReset(c)
  <2>1. op[c].password \in Password
    BY <1>0, <1>8 DEF CommitReset, Pending, RequestOK
  <2> QED
    BY <1>8, <2>1, PasswordWritten DEF CommitReset
<1> QED
  BY <1>1, <1>2, <1>3, <1>4, <1>5, <1>6, <1>7, <1>8 DEF Authenticates

LEMMA DataStep ==
    ASSUME DataOK, RequestsOK, [Next]_vars
    PROVE  DataOK'
<1>1. CASE UNCHANGED <<row, holder, otps>>
  BY <1>1 DEF row, otps, DataOK, RowsOK, HolderOK, OtpsOK, OtpsStayClosed
<1>2. CASE UNCHANGED vars \/ \E o \in Otp : Expire(o)
  BY <1>1, <1>2 DEF Expire, vars
<1>3. ASSUME NEW c \in Client, Abort(c)
      PROVE  DataOK'
  BY <1>1, <1>3 DEF Abort
<1>4. CASE Bootstrap
  <2>1. PICK u \in User, p \in Password :
          /\ NewId(u)
          /\ accounts' = [accounts EXCEPT ![u] =
                [role |-> "admin", email |-> AdminEmail, password |-> p, otp |-> 0]]
          /\ born' = born \cup {u}
    BY <1>4 DEF Bootstrap
  <2> DEFINE r == [role |-> "admin", email |-> AdminEmail, password |-> p, otp |-> 0]
  <2>2. 0 \in 0..MaxOtp /\ AdminEmail \in Email
    BY ConstantsAssumption
  <2>3. r \in Account /\ r.email = AdminEmail /\ r.otp = 0
    BY <2>2 DEF Account, Role
  <2>4. accounts' = [accounts EXCEPT ![u] = r]
    BY <2>1
  <2> HIDE DEF r
  <2>5. WithEmail(accounts, AdminEmail) = {} /\ UNCHANGED <<holder, issued, closed, wiped>>
    BY <1>4 DEF Bootstrap, WithEmail, otps
  <2> QED
    BY <2>1, <2>3, <2>4, <2>5, Added
<1> QED
  BY <1>2, <1>3, <1>4, AdministersKeepsData, AuthenticatesKeepsData DEF Next

-----------------------------------------------------------------------------
(* The invariant and what follows from it.                                   *)

CountsOK ==
    requests \in 0..MaxRequests /\ expired \subseteq Otp /\ mailed \subseteq Otp

IInv == DataOK /\ RequestsOK /\ CountsOK

LEMMA CountsStep ==
    ASSUME CountsOK, RequestsOK, [Next]_vars
    PROVE  CountsOK'
<1> USE DEF CountsOK
<1>1. CASE UNCHANGED vars
  BY <1>1 DEF vars, otps
<1>2. CASE Bootstrap \/ \E o \in Otp : Expire(o)
  BY <1>2 DEF Bootstrap, Expire, otps
<1>3. ASSUME NEW c \in Client, Sends(c, "login") \/ Sends(c, "guest") \/ Sends(c, "update")
                \/ Sends(c, "create") \/ Sends(c, "import") \/ Sends(c, "defaults")
                \/ Sends(c, "delete") \/ Sends(c, "clear") \/ Sends(c, "assign")
                \/ Sends(c, "profile") \/ Sends(c, "password") \/ Sends(c, "forgot")
                \/ Sends(c, "reset")
      PROVE  requests' \in 0..MaxRequests
  BY <1>3, ConstantsAssumption DEF Sends
<1>4. ASSUME NEW c \in Client, Administers(c)
      PROVE  CountsOK'
  <2>1. CASE UpdateAccount(c) \/ CreateAccount(c) \/ ImportAccounts(c) \/ DeleteAccount(c)
               \/ ClearAllAccounts(c) \/ Assign(c) \/ ResetDefaultAccounts(c)
    BY <1>3, <2>1 DEF UpdateAccount, CreateAccount, ImportAccounts, DeleteAccount,
                      ClearAllAccounts, Assign, ResetDefaultAccounts, Goes, otps
  <2>2. CASE CommitUpdate(c) \/ CommitCreate(c) \/ CommitImport(c) \/ CommitDelete(c)
               \/ CommitClear(c)
    BY <2>2 DEF CommitUpdate, CommitCreate, CommitImport, CommitDelete, CommitClear, otps
  <2> QED
    BY <1>4, <2>1, <2>2 DEF Administers
<1>5. ASSUME NEW c \in Client, Authenticates(c)
      PROVE  CountsOK'
  <2>1. CASE Login(c) \/ LoginGuest(c) \/ UpdateOwnProfile(c) \/ SetPassword(c)
               \/ RequestPasswordReset(c) \/ ResetPassword(c)
    BY <1>3, <2>1 DEF Login, LoginGuest, UpdateOwnProfile, SetPassword, RequestPasswordReset,
                      ResetPassword, Goes, otps
  <2>2. CASE Logout(c) \/ CommitProfile(c) \/ CommitPassword(c) \/ MailFails(c)
               \/ ClearExpired(c) \/ CommitReset(c)
    BY <2>2 DEF Logout, CommitProfile, CommitPassword, MailFails, ClearExpired, ClearOtp,
                CommitReset, otps
  <2>3. CASE MailOtp(c)
    <3>1. op[c].otp \in Otp
      BY <2>3 DEF MailOtp, Pending, RequestsOK, RequestOK
    <3> QED
      BY <2>3, <3>1 DEF MailOtp
  <2> QED
    BY <1>5, <2>1, <2>2, <2>3 DEF Authenticates
<1>6. ASSUME NEW c \in Client, Abort(c)
      PROVE  CountsOK'
  BY <1>6 DEF Abort, otps
<1> QED
  BY <1>1, <1>2, <1>4, <1>5, <1>6 DEF Next

LEMMA Begin == Init => IInv
<1> SUFFICES ASSUME Init PROVE IInv
  OBVIOUS
<1>1. Nobody \notin User /\ 0 \notin Otp /\ 0 \in 0..MaxOtp /\ 0 \in 0..MaxRequests
  BY ConstantsAssumption DEF Otp
<1>2. \A u \in DOMAIN FirstUsers :
         FirstUsers[u] \in [role: {"admin", "editor", "viewer"}, email: Email,
                            password: Password, otp: {0}]
  BY ConstantsAssumption
<1>3. \A u \in DOMAIN FirstUsers :
         u \in User /\ FirstUsers[u] \in Account /\ FirstUsers[u].otp = 0
  <2>1. DOMAIN FirstUsers \subseteq User
    BY ConstantsAssumption
  <2> QED
    BY <1>1, <1>2, <2>1 DEF Account, Role
<1>4. \A u \in User : accounts[u] = IF u \in DOMAIN FirstUsers THEN FirstUsers[u] ELSE NoAccount
  BY DEF Init
<1>5. accounts \in Table
  BY <1>3, <1>4 DEF Init, Table
<1>6. Present(accounts) = DOMAIN FirstUsers
  BY <1>3, <1>4, AccountIsSomebody DEF Present
<1>7. \A u \in User : accounts[u].otp = 0
  BY <1>3, <1>4 DEF NoAccount
<1>8. \A u, v \in DOMAIN FirstUsers : FirstUsers[u].email = FirstUsers[v].email => u = v
  BY ConstantsAssumption
<1>9. RowsOK
  BY <1>3, <1>4, <1>5, <1>6, <1>8 DEF RowsOK, Init
<1>10. HolderOK
  BY DEF HolderOK, Init
<1>11. OtpsOK
  <2>1. \A o \in Otp : issued[o] = Nobody
    BY DEF Init
  <2>2. issued \in [Otp -> User \cup {Nobody}]
    BY DEF Init
  <2> HIDE DEF Otp
  <2> QED
    BY <1>1, <1>6, <1>7, <2>1, <2>2 DEF OtpsOK, OtpsStayClosed, Init, Present
<1>12. RequestsOK
  <2>1. session \in [Client -> User \cup {Nobody}] /\ \A c \in Client : op[c] = Idle
    BY <1>3 DEF Init
  <2> QED
    BY <2>1, IdleOK DEF RequestsOK, Init
<1> QED
  BY <1>1, <1>9, <1>10, <1>11, <1>12 DEF IInv, DataOK, CountsOK, Init

LEMMA Step == IInv /\ [Next]_vars => IInv'
BY DataStep, RequestsStep, CountsStep DEF IInv, DataOK

LEMMA Invariance == Spec => []IInv
BY Begin, Step, PTL DEF Spec

(* Rows, sessions, owners, requests and histories have their types; an id    *)
(* and an e-mail address belong to one account, and nothing is owned by an   *)
(* account that is gone.                                                     *)
THEOREM TypeCorrect == Spec => []TypeOK
<1>1. IInv => TypeOK
  BY DEF IInv, DataOK, RowsOK, HolderOK, OtpsOK, RequestsOK, RequestOK, CountsOK, TypeOK, Table
<1> QED
  BY <1>1, Invariance, PTL

(* A one-time password that was used or replaced, or whose account has got   *)
(* another password since, never works again, whatever requests interleave.  *)
THEOREM ClosedOtps == Spec => []OtpsStayClosed
<1>1. IInv => OtpsStayClosed
  BY DEF IInv, DataOK, OtpsOK
<1> QED
  BY <1>1, Invariance, PTL

(* The one-time password that was mailed last works until then, unless the   *)
(* failure of another request of its account has cleared it.                 *)
THEOREM MailedOtps == Spec => []MailedOtpWorks
<1>1. IInv => MailedOtpWorks
  BY DEF IInv, DataOK, OtpsOK, CountsOK, MailedOtpWorks
<1> QED
  BY <1>1, Invariance, PTL

-----------------------------------------------------------------------------
(* The last administrator.                                                   *)

LastAdmin ==
    AdminsOf(accounts) # {} /\ AdminsOf(accounts') = {}
        => \/ \E u \in WithEmail(accounts, Guest) : AdminsOf(accounts) = {u}
           \/ \E c \in Client : /\ op[c] # Idle /\ op'[c] = Idle
                                 /\ AdminsOf(op[c].read) # AdminsOf(accounts)

LEMMA AdminIsPresent == \A table : AdminsOf(table) \subseteq Present(table)
BY DEF AdminsOf, Present, NoAccount

LEMMA SameRoles ==
    ASSUME NEW t, NEW v, \A u \in User : v[u].role = t[u].role
    PROVE  AdminsOf(v) = AdminsOf(t)
BY DEF AdminsOf

LEMMA OneOfTwo ==
    ASSUME NEW S, IsFiniteSet(S), Cardinality(S) <= 1, NEW x \in S, NEW y \in S
    PROVE  x = y
<1> SUFFICES ASSUME x # y PROVE FALSE
  OBVIOUS
<1>1. /\ IsFiniteSet({x}) /\ Cardinality({x}) = 1
      /\ {x} \cup {y} \subseteq S
  BY FS_Singleton
<1>2. Cardinality({x} \cup {y}) = 2
  BY <1>1, FS_AddElement, SMTT(30)
<1>3. Cardinality({x} \cup {y}) <= Cardinality(S)
  BY <1>1, FS_Subset
<1>4. Cardinality(S) \in Nat
  BY FS_CardinalityType
<1> QED
  BY <1>2, <1>3, <1>4

(* One account stops to be an administrator, on the ground of what its       *)
(* request had read.                                                         *)
LEMMA OneRemoved ==
    ASSUME IInv, NEW c \in Client, op[c] # Idle, op'[c] = Idle, Keeps(op[c]),
           \A u \in User \ {op[c].target} : accounts'[u].role = accounts[u].role
    PROVE  LastAdmin
<1> SUFFICES ASSUME AdminsOf(accounts) # {}, AdminsOf(accounts') = {},
                    AdminsOf(op[c].read) = AdminsOf(accounts)
             PROVE  FALSE
  BY DEF LastAdmin
<1>1. AdminsOf(op[c].read) = {op[c].target}
  BY DEF AdminsOf
<1>2. Cardinality({op[c].target}) = 1
  BY FS_Singleton
<1> QED
  BY <1>1, <1>2 DEF Keeps

(* An import counts the administrators there would be.                       *)
LEMMA ImportKeepsAdmin ==
    ASSUME IInv, NEW c \in Client, CommitImport(c), AdminsOf(op[c].read) = AdminsOf(accounts)
    PROVE  AdminsOf(accounts') # {}
<1> DEFINE input   == op[c].heir
           read    == op[c].read
           known   == {u \in Present(read) : read[u].email \in DOMAIN input}
           changed == {u \in known : input[read[u].email] # read[u].role}
           written == IF op[c].password = Unset THEN changed ELSE known
           missing == NewEmails(read, input)
           Written(u) == [(IF op[c].password = Unset THEN accounts[u]
                           ELSE WithPassword(accounts[u], op[c].password))
                             EXCEPT !.role = IF u \in changed THEN input[read[u].email] ELSE @]
           New(e)  == [role |-> input[e], email |-> e, password |-> op[c].password, otp |-> 0]
           simulated == Imported(read, input, Unset)
<1>1. /\ read \in Table /\ DOMAIN input \subseteq Email
      /\ op[c].password \in Password \cup {Unset} /\ Cardinality(missing) <= 1
      /\ Cardinality(AdminsOf(simulated))
           + Cardinality({e \in missing : input[e] = "admin"}) >= 1
  BY DEF IInv, CommitImport, Pending, RequestsOK, RequestOK
<1>2. written \subseteq Present(accounts)
  BY DEF CommitImport
<1>3. PICK make \in [missing -> {u \in User : NewId(u)}] :
        accounts' = [u \in User |->
              IF u \in written THEN Written(u)
              ELSE IF \E e \in missing : make[e] = u
              THEN New(CHOOSE e \in missing : make[e] = u)
              ELSE accounts[u]]
  BY DEF CommitImport
<1>4. RowsOK
  BY DEF IInv, DataOK
<1>5. ASSUME NEW u \in Present(accounts), accounts[u].role = "admin" \/ u \in changed,
             u \in changed => input[read[u].email] = "admin"
      PROVE  accounts'[u].role = "admin"
  <2>1. u \in User /\ accounts[u] \in Account /\ \A e \in missing : make[e] # u
    BY <1>4, PresentRow DEF RowsOK, NewId
  <2>2. CASE u \notin written
    <3>1. u \notin changed
      BY <2>2
    <3> QED
      BY <1>3, <1>5, <2>1, <2>2, <3>1
  <2>3. CASE u \in written
    <3> DEFINE base == IF op[c].password = Unset THEN accounts[u]
                       ELSE WithPassword(accounts[u], op[c].password)
    <3>1. accounts'[u] = Written(u)
      BY <1>3, <2>1, <2>3
    <3>2. base \in Account /\ base.role = accounts[u].role
      BY <1>1, <2>1, WithPasswordRow
    <3>3. Written(u) = [base EXCEPT !.role = IF u \in changed THEN input[read[u].email]
                                             ELSE base.role]
      OBVIOUS
    <3> HIDE DEF base, changed, written
    <3>4. accounts'[u].role = IF u \in changed THEN input[read[u].email] ELSE base.role
      BY <3>1, <3>2, <3>3 DEF Account
    <3> QED
      BY <1>5, <3>2, <3>4
  <2> QED
    BY <2>2, <2>3
<1>6. CASE \E u \in User : simulated[u].role = "admin"
  <2>1. PICK u \in User : simulated[u].role = "admin"
    BY <1>6
  <2>2. CASE u \in known
    <3>1. read[u] \in Account
      BY <1>1, <2>2, PresentRow
    <3>2. simulated[u] = [read[u] EXCEPT !.role = input[read[u].email]]
      BY <2>2 DEF Imported
    <3>3. input[read[u].email] = "admin"
      BY <2>1, <3>1, <3>2 DEF Account
    <3>4. CASE u \in changed
      <4>1. u \in written
        BY <3>4
      <4> QED
        BY <1>2, <1>5, <3>3, <3>4, <4>1 DEF AdminsOf
    <3>5. CASE u \notin changed
      <4>1. u \in AdminsOf(accounts)
        BY <2>2, <3>3, <3>5 DEF AdminsOf
      <4> QED
        BY <1>5, <3>5, <4>1, AdminIsPresent DEF AdminsOf
    <3> QED
      BY <3>4, <3>5
  <2>3. CASE u \notin known
    <3>1. u \in AdminsOf(accounts)
      BY <2>1, <2>3 DEF Imported, AdminsOf
    <3> QED
      BY <1>5, <2>3, <3>1, AdminIsPresent DEF AdminsOf
  <2> QED
    BY <2>2, <2>3
<1>7. CASE \E e \in missing : input[e] = "admin"
  <2>1. PICK e \in missing : input[e] = "admin"
    BY <1>7
  <2> DEFINE v == make[e]
  <2>2. v \in User /\ v \notin born /\ v \notin written
    BY <1>2, <1>4 DEF NewId, RowsOK
  <2>3. IsFiniteSet(missing)
    BY <1>1, FS_Subset, ConstantsAssumption DEF NewEmails
  <2>4. accounts'[v] = New(CHOOSE f \in missing : make[f] = v)
    BY <1>3, <2>2
  <2> HIDE DEF missing
  <2>5. (CHOOSE f \in missing : make[f] = v) \in missing
    BY <2>1
  <2>6. (CHOOSE f \in missing : make[f] = v) = e
    BY <1>1, <2>1, <2>3, <2>5, OneOfTwo
  <2>7. accounts'[v] = New(e)
    BY <2>4, <2>6
  <2>8. New(e).role = "admin"
    BY <2>1
  <2> HIDE DEF New, v
  <2> QED
    BY <2>2, <2>7, <2>8 DEF AdminsOf
<1> QED
  <2>1. CASE AdminsOf(simulated) = {} /\ {e \in missing : input[e] = "admin"} = {}
    BY <1>1, <2>1, FS_EmptySet
  <2> QED
    BY <1>6, <1>7, <2>1 DEF AdminsOf

LEMMA LastAdminStep ==
    ASSUME IInv, [Next]_vars
    PROVE  LastAdmin
<1> USE DEF Set
<1>1. RowsOK /\ RequestsOK /\ \A c \in Client : RequestOK(op[c], session[c])
  BY DEF IInv, DataOK, RequestsOK
<1>2. CASE UNCHANGED accounts
  BY <1>2 DEF LastAdmin
<1>3. CASE \A u \in Present(accounts) : accounts'[u].role = accounts[u].role
  BY <1>3, AdminIsPresent DEF LastAdmin, AdminsOf
<1>4. CASE Bootstrap
  BY <1>4, AdminIsPresent DEF LastAdmin, Bootstrap
<1>5. ASSUME NEW c \in Client, NEW kind, Pending(c, kind), kind # "idle", op' = [op EXCEPT ![c] = Idle]
      PROVE  op[c] # Idle /\ op'[c] = Idle
  BY <1>1, <1>5 DEF Pending, Idle, RequestsOK
<1>6. ASSUME NEW c \in Client, Administers(c)
      PROVE  LastAdmin
  <2>1. CASE UpdateAccount(c) \/ CreateAccount(c) \/ ImportAccounts(c) \/ DeleteAccount(c)
               \/ ClearAllAccounts(c) \/ Assign(c)
    BY <1>2, <2>1 DEF UpdateAccount, CreateAccount, ImportAccounts, DeleteAccount,
                      ClearAllAccounts, Goes, Assign, row
  <2>2. CASE CommitUpdate(c)
    <3> DEFINE t == op[c].target
    <3>1. /\ op[c].role # "admin" => Keeps(op[c])
          /\ t \in Present(accounts)
      BY <1>1, <2>2 DEF CommitUpdate, Pending, RequestOK
    <3>2. op[c] # Idle /\ op'[c] = Idle
      BY <1>5, <2>2 DEF CommitUpdate
    <3>3. accounts[t] \in Account /\ t \in User
      BY <1>1, <3>1, PresentRow DEF RowsOK
    <3>4. /\ \A u \in User \ {t} : accounts'[u] = accounts[u]
          /\ accounts'[t].role = op[c].role
      BY <1>1, <2>2, <3>3 DEF CommitUpdate, RowsOK, Table, Account
    <3>5. CASE op[c].role = "admin"
      BY <3>3, <3>4, <3>5 DEF LastAdmin, AdminsOf
    <3>6. CASE op[c].role # "admin"
      <4>1. Keeps(op[c]) /\ \A u \in User \ {op[c].target} : accounts'[u].role = accounts[u].role
        BY <3>1, <3>4, <3>6
      <4> QED
        BY <3>2, <4>1, OneRemoved
    <3> QED
      BY <3>5, <3>6
  <2>3. CASE CommitCreate(c)
    <3>1. PICK u \in User : NewId(u) /\ \A v \in User \ {u} : accounts'[v] = accounts[v]
      BY <1>1, <2>3 DEF CommitCreate, RowsOK, Table
    <3> QED
      BY <1>1, <1>3, <3>1 DEF RowsOK, NewId
  <2>4. CASE CommitImport(c)
    <3>1. op[c] # Idle /\ op'[c] = Idle
      BY <1>5, <2>4 DEF CommitImport
    <3> QED
      BY <2>4, <3>1, ImportKeepsAdmin DEF LastAdmin
  <2>5. CASE ResetDefaultAccounts(c)
    <3>1. \E u \in User : accounts'[u].role = "admin"
      <4>1. ASSUME NEW u \in WithEmail(accounts, AdminEmail),
                   accounts' = [accounts EXCEPT ![u] =
                                  [WithPassword(@, DefaultPassword) EXCEPT !.role = "admin"]]
            PROVE  u \in User /\ accounts'[u].role = "admin"
        <5> DEFINE w == WithPassword(accounts[u], DefaultPassword)
                   r == [w EXCEPT !.role = "admin"]
        <5>1. u \in User /\ accounts[u] \in Account
          BY <1>1, PresentRow DEF WithEmail, RowsOK
        <5>2. w \in Account
          BY <5>1, WithPasswordRow, ConstantsAssumption
        <5> HIDE DEF w
        <5>3. r.role = "admin"
          BY <5>2 DEF Account
        <5>4. accounts' = [accounts EXCEPT ![u] = r]
          BY <4>1 DEF w
        <5> HIDE DEF r
        <5> QED
          BY <1>1, <5>1, <5>3, <5>4 DEF RowsOK, Table
      <4>2. ASSUME NEW u \in User,
                   accounts' = [accounts EXCEPT ![u] = [role |-> "admin", email |-> AdminEmail,
                                              password |-> DefaultPassword, otp |-> 0]]
            PROVE  accounts'[u].role = "admin"
        BY <1>1, <4>2 DEF RowsOK, Table
      <4> QED
        BY <2>5, <4>1, <4>2 DEF ResetDefaultAccounts
    <3> QED
      BY <3>1 DEF LastAdmin, AdminsOf
  <2>6. CASE CommitDelete(c)
    <3>1. Keeps(op[c]) /\ op[c] # Idle /\ op'[c] = Idle
      BY <1>1, <1>5, <2>6 DEF CommitDelete, Pending, RequestOK
    <3>2. \A u \in User \ {op[c].target} : accounts'[u] = accounts[u]
      BY <1>1, <2>6 DEF CommitDelete, RowsOK, Table
    <3> QED
      BY <3>1, <3>2, OneRemoved
  <2>7. CASE CommitClear(c)
    <3>1. session[c] \in AdminsOf(op[c].read) /\ op[c] # Idle /\ op'[c] = Idle
      BY <1>1, <1>5, <2>7 DEF CommitClear, Pending, RequestOK
    <3>2. session[c] \in User => accounts'[session[c]] = accounts[session[c]]
      BY <2>7 DEF CommitClear
    <3> QED
      BY <3>1, <3>2 DEF LastAdmin, AdminsOf
  <2> QED
    BY <1>6, <2>1, <2>2, <2>3, <2>4, <2>5, <2>6, <2>7 DEF Administers
<1>7. ASSUME NEW c \in Client, Authenticates(c)
      PROVE  LastAdmin
  <2>1. CASE Login(c) \/ Logout(c) \/ UpdateOwnProfile(c) \/ SetPassword(c) \/ ResetPassword(c)
               \/ MailOtp(c)
    BY <1>2, <2>1 DEF Login, Logout, UpdateOwnProfile, SetPassword, ResetPassword, MailOtp,
                      Goes, row
  <2>2. CASE LoginGuest(c)
    <3>1. ASSUME NEW u \in WithEmail(accounts, Guest),
                 accounts' = [accounts EXCEPT ![u].role = "viewer"]
          PROVE  LastAdmin
      <4>1. \A v \in User \ {u} : accounts'[v] = accounts[v]
        BY <1>1, <3>1 DEF RowsOK, Table
      <4> QED
        BY <4>1 DEF LastAdmin, AdminsOf
    <3>2. ASSUME NEW u \in User, NewId(u), NEW r, accounts' = [accounts EXCEPT ![u] = r]
          PROVE  LastAdmin
      <4>1. \A v \in User \ {u} : accounts'[v] = accounts[v]
        BY <1>1, <3>2 DEF RowsOK, Table
      <4> QED
        BY <1>1, <1>3, <3>2, <4>1 DEF RowsOK, NewId
    <3> QED
      BY <2>2, <3>1, <3>2 DEF LoginGuest
  <2>3. ASSUME NEW u \in Present(accounts), NEW p \in Password,
               accounts' = [accounts EXCEPT ![u] = WithPassword(@, p)]
        PROVE  LastAdmin
    <3>1. u \in User /\ accounts[u] \in Account
      BY <1>1, PresentRow DEF RowsOK
    <3>2. WithPassword(accounts[u], p).role = accounts[u].role
      BY <3>1, WithPasswordRow
    <3> QED
      BY <1>1, <1>3, <2>3, <3>1, <3>2 DEF RowsOK, Table, Present
  <2>4. CASE CommitPassword(c) \/ CommitReset(c)
    <3>1. op[c].password \in Password
      BY <1>1, <2>4 DEF CommitPassword, CommitReset, Pending, RequestOK
    <3> QED
      BY <2>3, <2>4, <3>1 DEF CommitPassword, CommitReset
  <2>5. CASE CommitProfile(c)
    <3> DEFINE u == op[c].target
               e == IF op[c].email = op[c].read[u].email THEN accounts[u].email ELSE op[c].email
               w == IF op[c].password = Unset THEN accounts[u]
                    ELSE WithPassword(accounts[u], op[c].password)
               r == [w EXCEPT !.email = e]
    <3>1. op[c].password \in Password \cup {Unset}
      BY <1>1, <2>5 DEF CommitProfile, Pending, RequestOK
    <3>2. u \in User /\ accounts[u] \in Account
      BY <1>1, <2>5, PresentRow DEF CommitProfile, RowsOK
    <3>3. w \in Account /\ w.role = accounts[u].role
      BY <3>1, <3>2, WithPasswordRow
    <3>4. accounts' = [accounts EXCEPT ![u] = r]
      BY <1>1, <2>5, <3>2 DEF CommitProfile, RowsOK, Table
    <3> HIDE DEF w, e
    <3>5. r.role = accounts[u].role
      BY <3>3 DEF Account
    <3> HIDE DEF r
    <3> QED
      BY <1>1, <1>3, <3>2, <3>4, <3>5 DEF RowsOK, Table, Present
  <2>6. ASSUME NEW u \in Present(accounts), NEW o, accounts' = [accounts EXCEPT ![u].otp = o]
        PROVE  LastAdmin
    <3>1. u \in User /\ accounts[u] \in Account
      BY <1>1, PresentRow DEF RowsOK
    <3>2. \A v \in User : accounts'[v].role = accounts[v].role
      BY <1>1, <2>6, <3>1 DEF RowsOK, Table, Account
    <3> QED
      BY <1>3, <3>2 DEF Present
  <2>7. CASE RequestPasswordReset(c) \/ MailFails(c) \/ ClearExpired(c)
    BY <2>6, <2>7 DEF RequestPasswordReset, MailFails, ClearExpired, ClearOtp
  <2> QED
    BY <1>7, <2>1, <2>2, <2>4, <2>5, <2>7 DEF Authenticates
<1>8. CASE UNCHANGED vars \/ (\E o \in Otp : Expire(o)) \/ (\E c \in Client : Abort(c))
  BY <1>2, <1>8 DEF vars, row, Expire, Abort
<1> QED
  BY <1>4, <1>6, <1>7, <1>8 DEF Next

(* The last administrator goes only when the guest, who had been made one,   *)
(* logs in, or when a request commits that counted other administrators than *)
(* there are now.                                                            *)
THEOREM LastAdminKept == Spec => LastAdminStays
<1>1. IInv /\ [Next]_vars => [LastAdmin]_vars
  BY LastAdminStep
<1> QED
  BY <1>1, Invariance, PTL DEF Spec, LastAdminStays, LastAdmin
===============================================================================
