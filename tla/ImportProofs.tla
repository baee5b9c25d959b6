---------------------------- MODULE ImportProofs ----------------------------
(***************************************************************************)
(* Theorems about the commands and scripts that rewrite records of the     *)
(* company: the change of the e-mail domain, the bundles imported into     *)
(* production, the enrolment of repositories and the staging pilots, for   *)
(* any number of accounts, records, runs and projects, and for any of the  *)
(* bounds.  One part per component: its inductive invariant, a lemma per   *)
(* action, the theorem.                                                    *)
(***************************************************************************)
EXTENDS EmailDomain, ProductionImports, ProjectRegistry, StagingPilots,
        FiniteSetTheorems, SequenceTheorems, TLAPS

-----------------------------------------------------------------------------
(* The change of the e-mail domain.                                        *)

\* A row of user_accounts
Accounts == [email : EmailAddresses, version : Nat \ {0}]

\* The accounts are numbered from one, each with an address of its own.
AccountsOK ==
  /\ \E n \in Nat : users \in [1..n -> Accounts]
  /\ \A u, v \in DOMAIN users : u # v => users[u].email # users[v].email

\* An employee has one of the addresses of the person, and the person an account.
EmployeesOK ==
  /\ employees \in [People -> EmailAddresses \cup {Nobody}]
  /\ \A p \in People : employees[p] \in {Nobody, Old(p), New(p)}
  /\ \A p \in People : employees[p] # Nobody => \E u \in DOMAIN users : users[u].email.local = p

\* A contact has one of the addresses of its person.
ContactsOK ==
  /\ contacts \in [Contacts -> EmailAddresses]
  /\ \A c \in Contacts : contacts[c] \in {Old(ContactOf[c]), New(ContactOf[c])}

\* What the command has read of the accounts stays true, for they are locked; of
\* the employees it stays true for as long as no account is added, and nobody
\* who was an employee ceases to be one.
CommandOK ==
  /\ migration.at # "idle" => \A u \in DOMAIN migration.users : u \in DOMAIN users /\ users[u] = migration.users[u]
  /\ migration.at = "commit" => \A p \in People : migration.employees[p] # Nobody => employees[p] # Nobody
  /\ migration.at = "commit" /\ DOMAIN users = DOMAIN migration.users => migration.employees = employees

\* A form is of an account that is there, and of the person it was opened for.
FormOK ==
  form.at = "account" =>
    /\ form.user \in DOMAIN users /\ form.seen \in Accounts
    /\ form.seen.email.local = users[form.user].email.local

\* No session is of a version that the account has not had.
SessionsOK ==
  /\ \A s \in sessions : s.user \in DOMAIN users /\ s.version \in Nat
  /\ ~stale => \A s \in sessions : s.version <= users[s.user].version

\* The invariant: the account, not its address, is what a form, a session and
\* the command hold, so that who is meant does not change with the domain.
EmailInv ==
  /\ AccountsOK /\ EmployeesOK /\ ContactsOK /\ CommandOK /\ FormOK /\ SessionsOK
  /\ throttled \subseteq EmailAddresses
  /\ ~stale => SessionsNameTheAccount
  /\ undisturbed => NothingRetired

\* An address is of one person and in one domain.
LEMMA AddressFacts ==
  /\ \A p : Old(p).local = p /\ New(p).local = p /\ Old(p).domain = "old" /\ New(p).domain = "new"
  /\ \A p, q : Old(p) # New(q)
  /\ \A p \in People : Old(p) \in EmailAddresses /\ New(p) \in EmailAddresses
  /\ \A a \in EmailAddresses :
       /\ a.local \in People
       /\ a = Old(a.local) \/ a = New(a.local)
       /\ a.domain = "old" => a = Old(a.local)
       /\ a.domain = "new" <=> a = New(a.local)
       /\ a.domain \in {"old", "new"}
  /\ Nobody \notin EmailAddresses
<1>1. \A p : Old(p).local = p /\ New(p).local = p /\ Old(p).domain = "old" /\ New(p).domain = "new"
  BY DEF Old, New
<1>2. \A p, q : Old(p) # New(q)
  BY <1>1
<1>3. \A p \in People : Old(p) \in EmailAddresses /\ New(p) \in EmailAddresses
  BY DEF EmailAddresses
<1>4. ASSUME NEW a \in EmailAddresses
      PROVE  /\ a.local \in People
             /\ a = Old(a.local) \/ a = New(a.local)
             /\ a.domain = "old" => a = Old(a.local)
             /\ a.domain = "new" <=> a = New(a.local)
             /\ a.domain \in {"old", "new"}
             /\ a # Nobody
  <2>1. PICK p \in People : a = Old(p) \/ a = New(p)
    BY DEF EmailAddresses
  <2>2. Old(p) # Nobody /\ New(p) # Nobody
    BY EmailAssumption DEF Old, New
  <2>3. CASE a = Old(p)
    BY <1>1, <2>2, <2>3
  <2>4. CASE a = New(p)
    BY <1>1, <2>2, <2>4
  <2>5. QED
    BY <2>1, <2>3, <2>4
<1>5. QED
  BY <1>1, <1>2, <1>3, <1>4

\* There are as many accounts as numbers.
LEMMA AccountsCounted ==
  ASSUME AccountsOK
  PROVE  /\ Cardinality(DOMAIN users) \in Nat
         /\ DOMAIN users = 1..Cardinality(DOMAIN users)
         /\ users \in [DOMAIN users -> Accounts]
         /\ Cardinality(DOMAIN users) + 1 \notin DOMAIN users
<1>1. PICK n \in Nat : users \in [1..n -> Accounts]
  BY DEF AccountsOK
<1>2. DOMAIN users = 1..n
  BY <1>1
<1>3. Cardinality(1..n) = n
  BY <1>1, FS_Interval
<1>4. n + 1 \notin 1..n
  BY <1>1
<1>5. QED
  BY <1>1, <1>2, <1>3, <1>4

\* It is true before the change.
LEMMA EmailInitInv == EmailInit => EmailInv
<1> SUFFICES ASSUME EmailInit PROVE EmailInv
  OBVIOUS
<1> PICK account : account = [email |-> Old(Admin), version |-> 1]
  OBVIOUS
<1>1. Admin \in People /\ account \in Accounts /\ account.email = Old(Admin)
  BY EmailAssumption, AddressFacts DEF Accounts
<1>2. users = [u \in {1} |-> account]
  BY DEF EmailInit
<1>3. 1..1 = {1}
  OBVIOUS
<1>4. users \in [1..1 -> Accounts] /\ DOMAIN users = {1} /\ users[1] = account
  BY <1>1, <1>2, <1>3
<1>5. AccountsOK
  <2>1. 1 \in Nat
    OBVIOUS
  <2>2. QED
    BY <1>4, <2>1 DEF AccountsOK
<1>6. EmployeesOK
  <2>1. employees = [p \in People |-> IF p = Admin THEN Old(p) ELSE Nobody]
    BY DEF EmailInit
  <2>2. \A p \in People : employees[p] \in {Nobody, Old(p), New(p)} /\ (employees[p] # Nobody => p = Admin)
    BY <2>1
  <2>3. users[1].email.local = Admin
    BY <1>1, <1>4, AddressFacts
  <2>4. employees \in [People -> EmailAddresses \cup {Nobody}]
    BY <2>1, AddressFacts
  <2>5. QED
    BY <1>4, <2>2, <2>3, <2>4 DEF EmployeesOK
<1>7. ContactsOK
  BY EmailAssumption, AddressFacts DEF ContactsOK, EmailInit
<1>8. CommandOK /\ FormOK /\ SessionsOK /\ SessionsNameTheAccount
  BY DEF EmailInit, CommandOK, FormOK, SessionsOK, SessionsNameTheAccount, NoMigration, NoForm
<1>9. throttled \subseteq EmailAddresses /\ ~undisturbed
  BY DEF EmailInit
<1>10. QED
  BY <1>5, <1>6, <1>7, <1>8, <1>9 DEF EmailInv

\* It implies what the run checks.
LEMMA EmailInvHolds == EmailInv => MigrationHolds
<1> SUFFICES ASSUME EmailInv PROVE MigrationHolds
  OBVIOUS
<1>1. DOMAIN users = 1..Cardinality(DOMAIN users) /\ users \in [DOMAIN users -> Accounts]
  BY AccountsCounted DEF EmailInv
<1>2. \A u \in DOMAIN users : users[u].email \in EmailAddresses /\ users[u].version \in Nat \ {0}
  BY <1>1 DEF Accounts
<1>3. EmailTypeOK
  BY <1>1, <1>2 DEF EmailInv, EmailTypeOK, AccountsOK, EmployeesOK
<1>4. QED
  BY <1>3 DEF EmailInv, MigrationHolds

\* The accounts and the employees stay as they are.
LEMMA TablesStay ==
  ASSUME EmailInv, UNCHANGED <<users, employees>>
  PROVE  AccountsOK' /\ EmployeesOK'
BY DEF EmailInv, AccountsOK, EmployeesOK

\* A step of the command before its commit, or the end of the command.
LEMMA CommandSteps ==
  ASSUME EmailInv, ReadUsers \/ ReadEmployees \/ AbandonMigration
  PROVE  EmailInv'
<1>1. UNCHANGED <<users, employees, contacts, throttled, sessions, form, stale, undisturbed, migrated>>
  BY DEF ReadUsers, ReadEmployees, AbandonMigration
<1>2. AccountsOK' /\ EmployeesOK'
  BY <1>1, TablesStay
<1>3. CommandOK'
  <2>1. CASE ReadUsers
    <3>1. migration' = [at |-> "employees", users |-> users]
      BY <2>1 DEF ReadUsers
    <3>2. QED
      BY <1>1, <3>1 DEF CommandOK
  <2>2. CASE migration' = NoMigration
    BY <2>2 DEF CommandOK, NoMigration
  <2>3. CASE ReadEmployees /\ migration' # NoMigration
    <3>1. /\ migration.at = "employees"
          /\ migration' = [at |-> "commit", users |-> migration.users, employees |-> employees, contacts |-> contacts]
      BY <2>3 DEF ReadEmployees
    <3>2. \A u \in DOMAIN migration.users : u \in DOMAIN users /\ users[u] = migration.users[u]
      BY <3>1 DEF EmailInv, CommandOK
    <3>3. migration'.at = "commit" /\ migration'.users = migration.users /\ migration'.employees = employees
      BY <3>1
    <3>4. QED
      BY <1>1, <3>2, <3>3 DEF CommandOK
  <2>4. QED
    BY <2>1, <2>2, <2>3 DEF AbandonMigration
<1>4. QED
  BY <1>1, <1>2, <1>3 DEF EmailInv, ContactsOK, FormOK, SessionsOK, SessionsNameTheAccount, NothingRetired, UsersAt

\* Nothing of the accounts, of the employees and of the command is changed.
LEMMA BesideSteps ==
  ASSUME EmailInv,
         \/ \E a \in EmailAddresses : LoginFails(a)
         \/ \E c \in Contacts : SaveContact(c)
         \/ \E u \in DOMAIN users : OpenAccount(u)
         \/ CloseForm
  PROVE  EmailInv'
<1>1. UNCHANGED <<users, employees, sessions, migration, stale, migrated>>
  BY DEF LoginFails, SaveContact, OpenAccount, CloseForm
<1>2. AccountsOK' /\ EmployeesOK' /\ CommandOK' /\ SessionsOK' /\ (~stale => SessionsNameTheAccount)'
  <2>1. AccountsOK' /\ EmployeesOK'
    BY <1>1, TablesStay
  <2>2. QED
    BY <1>1, <2>1 DEF EmailInv, CommandOK, SessionsOK, SessionsNameTheAccount
<1>3. ContactsOK'
  <2>1. ASSUME NEW c \in Contacts, SaveContact(c) PROVE ContactsOK'
    BY <2>1, EmailAssumption, AddressFacts DEF EmailInv, ContactsOK, SaveContact
  <2>2. CASE contacts' = contacts
    BY <2>2 DEF EmailInv, ContactsOK
  <2>3. QED
    BY <2>1, <2>2 DEF LoginFails, OpenAccount, CloseForm
<1>4. FormOK'
  <2>1. ASSUME NEW u \in DOMAIN users, OpenAccount(u) PROVE FormOK'
    <3>1. form' = [at |-> "account", user |-> u, seen |-> users[u]] /\ users' = users
      BY <2>1 DEF OpenAccount
    <3>2. users[u] \in Accounts
      BY AccountsCounted DEF EmailInv
    <3>3. QED
      BY <3>1, <3>2 DEF FormOK
  <2>2. CASE form' = form
    BY <1>1, <2>2 DEF EmailInv, FormOK
  <2>3. CASE CloseForm
    BY <2>3 DEF CloseForm, NoForm, FormOK
  <2>4. QED
    BY <2>1, <2>2, <2>3 DEF LoginFails, SaveContact
<1>5. throttled' \subseteq EmailAddresses
  BY DEF LoginFails, SaveContact, OpenAccount, CloseForm, EmailInv
<1>6. undisturbed' => undisturbed /\ throttled' = throttled /\ contacts' = contacts
  BY DEF LoginFails, SaveContact, OpenAccount, CloseForm, Changes
<1>7. (undisturbed => NothingRetired)'
  BY <1>1, <1>6 DEF EmailInv, NothingRetired, UsersAt
<1>8. QED
  BY <1>2, <1>3, <1>4, <1>5, <1>7 DEF EmailInv

\* Someone logs in.
LEMMA LogInStep ==
  ASSUME EmailInv, NEW u \in DOMAIN users, LogIn(u)
  PROVE  EmailInv'
<1> PICK account \in Accounts : account = users[u]
  BY AccountsCounted DEF EmailInv
<1>1. /\ UNCHANGED <<users, employees, contacts, migration, form, stale, undisturbed, migrated>>
      /\ throttled' \subseteq throttled
      /\ sessions' = sessions \cup {[user |-> u, email |-> account.email, version |-> account.version]}
  BY DEF LogIn
<1>2. account.version \in Nat
  BY DEF Accounts
<1>3. AccountsOK' /\ EmployeesOK' /\ ContactsOK' /\ CommandOK' /\ FormOK'
  <2>1. AccountsOK' /\ EmployeesOK'
    BY <1>1, TablesStay
  <2>2. QED
    BY <1>1, <2>1 DEF EmailInv, ContactsOK, CommandOK, FormOK
<1>4. \A s \in sessions' : s \in sessions \/ (s.user = u /\ s.email = account.email /\ s.version = account.version)
  BY <1>1
<1>5. SessionsOK' /\ (~stale => SessionsNameTheAccount)'
  BY <1>1, <1>2, <1>4 DEF EmailInv, SessionsOK, SessionsNameTheAccount
<1>6. (undisturbed => NothingRetired)'
  BY <1>1 DEF EmailInv, NothingRetired, UsersAt
<1>7. throttled' \subseteq EmailAddresses
  BY <1>1 DEF EmailInv
<1>8. QED
  BY <1>3, <1>5, <1>6, <1>7 DEF EmailInv

\* An account is added, at an address that nobody has.
LEMMA AccountAdded ==
  ASSUME EmailInv, NEW address \in EmailAddresses, UsersAt(address) = {},
         users' = [u \in 1..Cardinality(DOMAIN users) + 1 |->
                     IF u \in DOMAIN users THEN users[u] ELSE [email |-> address, version |-> 1]]
  PROVE  /\ AccountsOK'
         /\ \A u \in DOMAIN users : u \in DOMAIN users' /\ users'[u] = users[u]
         /\ \E u \in DOMAIN users' : u \notin DOMAIN users /\ users'[u].email = address
<1> PICK n \in Nat : n = Cardinality(DOMAIN users) /\ DOMAIN users = 1..n /\ users \in [DOMAIN users -> Accounts]
  BY AccountsCounted DEF EmailInv
<1> PICK account : account = [email |-> address, version |-> 1]
  OBVIOUS
<1>1. account \in Accounts /\ account.email = address
  BY DEF Accounts
<1>2. users' = [u \in 1..n + 1 |-> IF u \in DOMAIN users THEN users[u] ELSE account]
  OBVIOUS
<1>3. /\ n + 1 \in Nat /\ n + 1 \in 1..n + 1 /\ n + 1 \notin 1..n
      /\ \A u \in 1..n : u \in 1..n + 1
      /\ \A u \in 1..n + 1 : u \in 1..n \/ u = n + 1
  OBVIOUS
<1>4. DOMAIN users' = 1..n + 1 /\ users'[n + 1] = account /\ \A u \in DOMAIN users : u \in DOMAIN users' /\ users'[u] = users[u]
  BY <1>2, <1>3
<1>5. users' \in [1..n + 1 -> Accounts]
  BY <1>1, <1>2
<1>6. \A u \in DOMAIN users : users[u].email # address
  BY DEF UsersAt
<1>7. \A u, v \in DOMAIN users' : u # v => users'[u].email # users'[v].email
  BY <1>1, <1>3, <1>4, <1>6 DEF EmailInv, AccountsOK
<1>8. AccountsOK'
  BY <1>3, <1>5, <1>7 DEF AccountsOK
<1>9. QED
  BY <1>1, <1>3, <1>4, <1>8

\* Someone is hired, or the server is started again.
LEMMA HireSteps ==
  ASSUME EmailInv, Restart \/ \E p \in People : Hire(p)
  PROVE  EmailInv'
<1>1. PICK address \in EmailAddresses :
        /\ UsersAt(address) = {}
        /\ users' = [u \in 1..Cardinality(DOMAIN users) + 1 |->
                       IF u \in DOMAIN users THEN users[u] ELSE [email |-> address, version |-> 1]]
        /\ \/ employees' = employees
           \/ \E p \in People : /\ address \in {Old(p), New(p)} /\ employees[p] = Nobody
                                /\ employees' = [employees EXCEPT ![p] = address]
  <2>1. CASE Restart
    BY <2>1, EmailAssumption, AddressFacts DEF Restart
  <2>2. ASSUME NEW p \in People, Hire(p)
        PROVE  \E address \in EmailAddresses :
                 /\ UsersAt(address) = {}
                 /\ users' = [u \in 1..Cardinality(DOMAIN users) + 1 |->
                                IF u \in DOMAIN users THEN users[u] ELSE [email |-> address, version |-> 1]]
                 /\ address \in {Old(p), New(p)} /\ employees[p] = Nobody
                 /\ employees' = [employees EXCEPT ![p] = address]
    <3>1. Old(p) \in EmailAddresses /\ New(p) \in EmailAddresses
      BY AddressFacts
    <3>2. PICK address \in {Old(p), New(p)} :
            /\ UsersAt(address) = {}
            /\ employees' = [employees EXCEPT ![p] = address]
            /\ users' = [u \in 1..Cardinality(DOMAIN users) + 1 |->
                           IF u \in DOMAIN users THEN users[u] ELSE [email |-> address, version |-> 1]]
      BY <2>2, Zenon DEF Hire
    <3>3. employees[p] = Nobody /\ address \in EmailAddresses
      BY <2>2, <3>1 DEF Hire
    <3>4. QED
      BY <3>2, <3>3, Zenon
  <2>3. QED
    BY <2>1, <2>2
<1>2. UNCHANGED <<contacts, throttled, sessions, migration, form, stale, migrated>> /\ ~undisturbed'
  BY DEF Restart, Hire, Changes
<1>3. PICK added \in DOMAIN users' :
        /\ AccountsOK' /\ added \notin DOMAIN users /\ users'[added].email = address
        /\ \A u \in DOMAIN users : u \in DOMAIN users' /\ users'[u] = users[u]
  BY <1>1, AccountAdded
<1>4. EmployeesOK'
  <2>1. /\ employees \in [People -> EmailAddresses \cup {Nobody}]
        /\ \A p \in People : employees[p] \in {Nobody, Old(p), New(p)}
        /\ \A p \in People : employees[p] # Nobody => \E u \in DOMAIN users' : users'[u].email.local = p
    BY <1>3 DEF EmailInv, EmployeesOK
  <2>2. CASE employees' = employees
    BY <2>1, <2>2 DEF EmployeesOK
  <2>3. ASSUME NEW p \in People, address \in {Old(p), New(p)}, employees' = [employees EXCEPT ![p] = address]
        PROVE  EmployeesOK'
    <3>1. address.local = p
      BY <2>3, AddressFacts
    <3>2. employees' \in [People -> EmailAddresses \cup {Nobody}] /\ employees'[p] = address
      BY <2>1, <2>3
    <3>3. \A q \in People : q # p => employees'[q] = employees[q]
      BY <2>1, <2>3
    <3>4. \A q \in People : employees'[q] \in {Nobody, Old(q), New(q)}
      BY <2>1, <2>3, <3>2, <3>3
    <3>5. \A q \in People : employees'[q] # Nobody => \E u \in DOMAIN users' : users'[u].email.local = q
      BY <1>3, <2>1, <3>1, <3>2, <3>3
    <3>6. QED
      BY <3>2, <3>4, <3>5 DEF EmployeesOK
  <2>4. QED
    BY <1>1, <2>2, <2>3
<1>5. CommandOK'
  <2>1. \A p \in People : employees[p] # Nobody => employees'[p] # Nobody
    <3>1. address # Nobody /\ employees \in [People -> EmailAddresses \cup {Nobody}]
      BY AddressFacts DEF EmailInv, EmployeesOK
    <3>2. QED
      BY <1>1, <3>1
  <2>2. migration.at = "commit" => DOMAIN users' # DOMAIN migration.users
    <3>1. migration.at = "commit" => added \notin DOMAIN migration.users
      BY <1>3 DEF EmailInv, CommandOK
    <3>2. QED
      BY <3>1
  <2>3. QED
    BY <1>2, <1>3, <2>1, <2>2 DEF EmailInv, CommandOK
<1>6. FormOK' /\ SessionsOK' /\ (~stale => SessionsNameTheAccount)'
  BY <1>2, <1>3 DEF EmailInv, FormOK, SessionsOK, SessionsNameTheAccount
<1>7. QED
  BY <1>2, <1>3, <1>4, <1>5, <1>6 DEF EmailInv, ContactsOK

\* The account that is saved is not one that the command has read.
LEMMA SaveAccountStep ==
  ASSUME EmailInv, SaveAccount
  PROVE  EmailInv'
<1> PICK u, seen : u = form.user /\ seen = form.seen
  OBVIOUS
<1> PICK address : address = IF seen.email = Old(seen.email.local) THEN New(seen.email.local) ELSE Old(seen.email.local)
  OBVIOUS
<1> PICK account : account = [email |-> address, version |-> seen.version + 1]
  OBVIOUS
<1>1. /\ form.at = "account" /\ ~Locked(u) /\ ~undisturbed'
      /\ UsersAt(address) \subseteq {u}
      /\ users' = [users EXCEPT ![u] = account]
      /\ throttled' \subseteq throttled
      /\ stale' = (stale \/ users[u] # seen)
      /\ form' = NoForm
      /\ UNCHANGED <<employees, contacts, sessions, migration, migrated>>
  BY DEF SaveAccount, Changes
<1>2. u \in DOMAIN users /\ seen \in Accounts /\ seen.email.local = users[u].email.local
  BY <1>1 DEF EmailInv, FormOK
<1>3. users \in [DOMAIN users -> Accounts]
  BY AccountsCounted DEF EmailInv
<1>4. seen.version \in Nat \ {0} /\ seen.email \in EmailAddresses
  BY <1>2 DEF Accounts
<1>5. address \in EmailAddresses /\ address.local = users[u].email.local
  BY <1>2, <1>4, AddressFacts
<1>6. account \in Accounts /\ account.email = address /\ account.version = seen.version + 1
  BY <1>4, <1>5 DEF Accounts
<1>7. /\ DOMAIN users' = DOMAIN users /\ users'[u] = account
      /\ \A v \in DOMAIN users : v # u => users'[v] = users[v]
  BY <1>1, <1>2, <1>3
<1>8. \A v \in DOMAIN users : v # u => users[v].email # address
  BY <1>1 DEF UsersAt
<1>9. AccountsOK'
  <2>1. PICK n \in Nat : users \in [1..n -> Accounts]
    BY DEF EmailInv, AccountsOK
  <2>2. users' \in [1..n -> Accounts]
    BY <1>1, <1>2, <1>6, <2>1
  <2>3. \A v, w \in DOMAIN users : v # w => users[v].email # users[w].email
    BY DEF EmailInv, AccountsOK
  <2>4. \A v, w \in DOMAIN users' : v # w => users'[v].email # users'[w].email
    BY <1>6, <1>7, <1>8, <2>3
  <2>5. QED
    BY <2>1, <2>2, <2>4 DEF AccountsOK
<1>10. \A v \in DOMAIN users : v \in DOMAIN users' /\ users'[v].email.local = users[v].email.local
  BY <1>5, <1>6, <1>7
<1>11. EmployeesOK'
  BY <1>1, <1>10 DEF EmailInv, EmployeesOK
<1>12. CommandOK'
  <2>1. CASE migration.at = "idle"
    BY <1>1, <2>1 DEF CommandOK
  <2>2. CASE migration.at # "idle"
    <3>1. u \notin DOMAIN migration.users
      BY <1>1, <2>2 DEF Locked
    <3>2. QED
      BY <1>1, <1>7, <3>1 DEF EmailInv, CommandOK
  <2>3. QED
    BY <2>1, <2>2
<1>13. FormOK'
  BY <1>1 DEF FormOK, NoForm
<1>14. SessionsOK' /\ (~stale => SessionsNameTheAccount)'
  <2>1. \A s \in sessions : s.user \in DOMAIN users' /\ s.version \in Nat
    BY <1>7 DEF EmailInv, SessionsOK
  <2>2. ASSUME ~stale', NEW s \in sessions
        PROVE  s.version <= users'[s.user].version /\ (s.version = users'[s.user].version => s.email = users'[s.user].email)
    <3>1. /\ users[u] = seen /\ s.user \in DOMAIN users /\ s.version \in Nat /\ s.version <= users[s.user].version
          /\ s.version = users[s.user].version => s.email = users[s.user].email
      BY <1>1, <2>2 DEF EmailInv, SessionsOK, SessionsNameTheAccount
    <3>2. CASE s.user = u
      BY <1>4, <1>6, <1>7, <3>1, <3>2
    <3>3. CASE s.user # u
      BY <1>7, <3>1, <3>3
    <3>4. QED
      BY <3>2, <3>3
  <2>3. QED
    BY <1>1, <2>1, <2>2 DEF SessionsOK, SessionsNameTheAccount
<1>15. QED
  BY <1>1, <1>9, <1>11, <1>12, <1>13, <1>14 DEF EmailInv, ContactsOK

\* The commit moves every account that was read to the other domain, and none
\* besides it.
LEMMA ApplyStep ==
  ASSUME EmailInv, ApplyMigration
  PROVE  EmailInv'
<1> PICK read, hired : read = migration.users /\ hired = migration.employees
  OBVIOUS
<1>1. /\ migration.at = "commit" /\ ~Taken /\ migration' = NoMigration /\ migrated' = ChangedUsers
      /\ users' = [u \in DOMAIN users |->
                     IF u \in ChangedUsers
                     THEN [email |-> New(users[u].email.local), version |-> read[u].version + 1]
                     ELSE users[u]]
      /\ employees' = [p \in People |-> IF hired[p] = Nobody THEN employees[p] ELSE New(p)]
      /\ contacts' = [c \in Contacts |-> Replacement(contacts[c])]
      /\ throttled' = throttled \ ClearedThrottles
      /\ undisturbed' = (DOMAIN users = DOMAIN read)
      /\ UNCHANGED <<sessions, form, stale>>
  BY DEF ApplyMigration
<1>2. /\ \A u \in DOMAIN read : u \in DOMAIN users /\ users[u] = read[u]
      /\ DOMAIN users = DOMAIN read => hired = employees
  BY <1>1 DEF EmailInv, CommandOK
<1>3. ChangedUsers = {u \in DOMAIN read : users[u].email.domain = "old"}
  BY <1>2 DEF ChangedUsers
<1>4. \A u \in DOMAIN users : /\ users[u] \in Accounts /\ users[u].email \in EmailAddresses
                              /\ users[u].version \in Nat \ {0} /\ users[u].email.local \in People
  <2>1. \A u \in DOMAIN users : users[u] \in Accounts
    BY AccountsCounted DEF EmailInv
  <2>2. QED
    BY <2>1, AddressFacts DEF Accounts
<1>5. /\ DOMAIN users' = DOMAIN users
      /\ \A u \in DOMAIN users : u \notin ChangedUsers => users'[u] = users[u]
      /\ \A u \in ChangedUsers : /\ u \in DOMAIN users
                                 /\ users'[u] = [email |-> New(users[u].email.local), version |-> users[u].version + 1]
  BY <1>1, <1>2, <1>3
<1>6. \A u \in ChangedUsers : /\ users'[u] \in Accounts /\ users'[u].email = New(users[u].email.local)
                              /\ users'[u].version = users[u].version + 1
  <2>1. ASSUME NEW u \in ChangedUsers
        PROVE  /\ users'[u] \in Accounts /\ users'[u].email = New(users[u].email.local)
               /\ users'[u].version = users[u].version + 1
    <3> PICK old \in Accounts : old = users[u]
      BY <1>4, <1>5
    <3>1. old.version \in Nat \ {0} /\ New(old.email.local) \in EmailAddresses
      BY <1>4, <1>5, AddressFacts
    <3>2. old.version + 1 \in Nat \ {0}
      BY <3>1
    <3> PICK new : new = [email |-> New(old.email.local), version |-> old.version + 1]
      OBVIOUS
    <3>3. users'[u] = new
      BY <1>5
    <3>4. new \in Accounts /\ new.email = New(old.email.local) /\ new.version = old.version + 1
      BY <3>1, <3>2 DEF Accounts
    <3>5. QED
      BY <3>3, <3>4
  <2>2. QED
    BY <2>1
<1>7. AccountsOK'
  <2>1. PICK n \in Nat : users \in [1..n -> Accounts]
    BY DEF EmailInv, AccountsOK
  <2>2. users' \in [1..n -> Accounts]
    <3>1. \A u \in 1..n : users'[u] \in Accounts
      BY <1>4, <1>5, <1>6, <2>1
    <3>2. users' = [u \in 1..n |-> users'[u]]
      BY <1>1, <2>1
    <3>3. QED
      BY <3>1, <3>2
  <2>3. \A u, v \in DOMAIN users : u # v => users[u].email # users[v].email
    BY DEF EmailInv, AccountsOK
  <2>4. \A u \in ChangedUsers, v \in DOMAIN users : users[v].email # New(users[u].email.local)
    BY <1>1, <1>2, <1>3 DEF Taken, UsersAt
  <2>5. \A u \in ChangedUsers : users[u].email = Old(users[u].email.local)
    BY <1>3, <1>4, <1>5, AddressFacts
  <2>6. ASSUME NEW u \in DOMAIN users, NEW v \in DOMAIN users, u # v PROVE users'[u].email # users'[v].email
    <3>1. CASE u \notin ChangedUsers /\ v \notin ChangedUsers
      BY <1>5, <2>3, <2>6, <3>1
    <3>2. CASE u \in ChangedUsers /\ v \notin ChangedUsers
      BY <1>5, <1>6, <2>4, <3>2
    <3>3. CASE u \notin ChangedUsers /\ v \in ChangedUsers
      BY <1>5, <1>6, <2>4, <3>3
    <3>4. CASE u \in ChangedUsers /\ v \in ChangedUsers
      <4>1. users[u].email.local # users[v].email.local
        BY <2>3, <2>5, <2>6, <3>4
      <4>2. QED
        BY <1>6, <3>4, <4>1, AddressFacts
    <3>5. QED
      BY <3>1, <3>2, <3>3, <3>4
  <2>7. QED
    BY <1>5, <2>1, <2>2, <2>6 DEF AccountsOK
<1>8. \A u \in DOMAIN users : u \in DOMAIN users' /\ users'[u].email.local = users[u].email.local
  BY <1>5, <1>6, AddressFacts
<1>9. /\ employees \in [People -> EmailAddresses \cup {Nobody}]
      /\ \A p \in People : employees[p] \in {Nobody, Old(p), New(p)}
      /\ \A p \in People : employees[p] # Nobody => \E u \in DOMAIN users : users[u].email.local = p
  BY DEF EmailInv, EmployeesOK
<1>10. employees' \in [People -> EmailAddresses \cup {Nobody}] /\ \A p \in People : employees'[p] \in {employees[p], New(p)}
  <2>1. \A p \in People : employees'[p] \in {employees[p], New(p)}
    BY <1>1
  <2>2. \A p \in People : employees'[p] \in EmailAddresses \cup {Nobody}
    BY <1>9, <2>1, AddressFacts
  <2>3. employees' = [p \in People |-> employees'[p]]
    BY <1>1
  <2>4. QED
    BY <2>1, <2>2, <2>3
<1>11. \A p \in People : employees'[p] # Nobody => employees[p] # Nobody
  <2>1. \A p \in People : hired[p] # Nobody => employees[p] # Nobody
    BY <1>1 DEF EmailInv, CommandOK
  <2>2. \A p \in People : hired[p] = Nobody => employees'[p] = employees[p]
    BY <1>1
  <2>3. QED
    BY <2>1, <2>2
<1>12. EmployeesOK'
  <2>1. \A p \in People : employees'[p] \in {Nobody, Old(p), New(p)}
    BY <1>9, <1>10
  <2>2. \A p \in People : employees'[p] # Nobody => \E u \in DOMAIN users' : users'[u].email.local = p
    BY <1>8, <1>9, <1>11
  <2>3. QED
    BY <1>10, <2>1, <2>2 DEF EmployeesOK
<1>13. ContactsOK' /\ \A c \in Contacts : contacts'[c].domain = "new"
  <2>1. ASSUME NEW c \in Contacts
        PROVE  contacts'[c] = New(ContactOf[c]) /\ New(ContactOf[c]) \in EmailAddresses /\ New(ContactOf[c]).domain = "new"
    <3>1. contacts[c] \in {Old(ContactOf[c]), New(ContactOf[c])} /\ ContactOf[c] \in People
      BY EmailAssumption DEF EmailInv, ContactsOK
    <3>2. contacts[c] # Nobody /\ contacts[c].local = ContactOf[c]
      BY <3>1, AddressFacts
    <3>3. contacts'[c] = Replacement(contacts[c])
      BY <1>1
    <3>4. contacts'[c] = New(ContactOf[c])
      BY <3>2, <3>3 DEF Replacement
    <3>5. QED
      BY <3>1, <3>4, AddressFacts
  <2>2. contacts' = [c \in Contacts |-> contacts'[c]]
    BY <1>1
  <2>3. QED
    BY <2>1, <2>2 DEF ContactsOK
<1>14. CommandOK' /\ FormOK'
  <2>1. CommandOK'
    BY <1>1 DEF CommandOK, NoMigration
  <2>2. FormOK'
    BY <1>1, <1>8 DEF EmailInv, FormOK
  <2>3. QED
    BY <2>1, <2>2
<1>15. SessionsOK' /\ (~stale => SessionsNameTheAccount)'
  <2>1. \A s \in sessions : s.user \in DOMAIN users' /\ s.version \in Nat
    BY <1>5 DEF EmailInv, SessionsOK
  <2>2. ASSUME ~stale, NEW s \in sessions
        PROVE  s.version <= users'[s.user].version /\ (s.version = users'[s.user].version => s.email = users'[s.user].email)
    <3>1. /\ s.user \in DOMAIN users /\ s.version \in Nat /\ s.version <= users[s.user].version
          /\ s.version = users[s.user].version => s.email = users[s.user].email
      BY <2>2 DEF EmailInv, SessionsOK, SessionsNameTheAccount
    <3>2. CASE s.user \in ChangedUsers
      BY <1>4, <1>6, <3>1, <3>2
    <3>3. CASE s.user \notin ChangedUsers
      BY <1>5, <3>1, <3>3
    <3>4. QED
      BY <3>2, <3>3
  <2>3. QED
    BY <1>1, <2>1, <2>2 DEF SessionsOK, SessionsNameTheAccount
<1>16. ASSUME DOMAIN users = DOMAIN read PROVE NothingRetired'
  <2>1. ASSUME NEW u \in DOMAIN users PROVE users'[u].email = New(users[u].email.local)
    <3>1. CASE u \in ChangedUsers
      BY <1>6, <3>1
    <3>2. CASE u \notin ChangedUsers
      BY <1>3, <1>4, <1>5, <1>16, <3>2, AddressFacts
    <3>3. QED
      BY <3>1, <3>2
  <2>2. \A u \in DOMAIN users' : users'[u].email.domain = "new"
    BY <1>5, <2>1, AddressFacts
  <2>3. ASSUME NEW p \in People, employees'[p] # Nobody
        PROVE  employees'[p].domain = "new" /\ UsersAt(employees[p])' # {}
    <3>1. hired[p] # Nobody /\ employees[p] # Nobody
      BY <1>1, <1>2, <1>11, <1>16, <2>3
    <3>2. employees'[p] = New(p)
      BY <1>1, <3>1
    <3>3. PICK u \in DOMAIN users : users[u].email.local = p
      BY <1>9, <3>1
    <3>4. u \in DOMAIN users' /\ users'[u].email = New(p)
      BY <1>8, <2>1, <3>3
    <3>5. UsersAt(employees[p])' # {}
      BY <3>2, <3>4 DEF UsersAt
    <3>6. QED
      BY <3>2, <3>5, AddressFacts
  <2>4. ASSUME NEW u \in migrated' PROVE users'[u].email \notin throttled'
    <3>1. u \in ChangedUsers /\ users'[u].email = New(users[u].email.local)
      BY <1>1, <1>6, <2>4
    <3>2. users[u] = migration.users[u]
      BY <1>2, <1>3, <3>1
    <3>3. users'[u].email \in ClearedThrottles
      BY <3>1, <3>2 DEF ClearedThrottles
    <3>4. QED
      BY <1>1, <3>3
  <2>5. QED
    BY <1>13, <2>2, <2>3, <2>4 DEF NothingRetired
<1>17. throttled' \subseteq EmailAddresses
  BY <1>1 DEF EmailInv
<1>18. QED
  BY <1>1, <1>7, <1>12, <1>13, <1>14, <1>15, <1>16, <1>17 DEF EmailInv

\* Every step keeps the invariant.
LEMMA EmailStep == EmailInv /\ [EmailNext]_emailVars => EmailInv'
<1> SUFFICES ASSUME EmailInv, [EmailNext]_emailVars PROVE EmailInv'
  OBVIOUS
<1>1. CASE UNCHANGED emailVars
  <2>1. UNCHANGED <<users, employees, contacts, throttled, sessions, migration, form, migrations, changes,
                    stale, undisturbed, migrated>>
    BY <1>1 DEF emailVars
  <2>2. AccountsOK' /\ EmployeesOK'
    BY <2>1, TablesStay
  <2>3. QED
    BY <2>1, <2>2 DEF EmailInv, ContactsOK, CommandOK, FormOK, SessionsOK, SessionsNameTheAccount, NothingRetired, UsersAt
<1>2. QED
  BY <1>1, CommandSteps, BesideSteps, LogInStep, HireSteps, SaveAccountStep, ApplyStep DEF EmailNext

\* The promise of the change of the domain (services/email_domain_migration.py):
\* an address is of one account; unless an account was written from an outdated
\* read, a session that is still accepted was opened with the address the account
\* has; and a run that nobody crossed leaves no retired address, no employee
\* without an account and no throttle on those it has moved.
THEOREM AccountsAreMoved == EmailSpec => []MigrationHolds
<1>1. EmailInit => EmailInv
  BY EmailInitInv
<1>2. EmailInv /\ [EmailNext]_emailVars => EmailInv'
  BY EmailStep
<1>3. EmailInv => MigrationHolds
  BY EmailInvHolds
<1>4. QED
  BY <1>1, <1>2, <1>3, PTL DEF EmailSpec


-----------------------------------------------------------------------------
(* The bundles.                                                            *)

\* What the rows of production hold
ProjectRows ==
  [key : BOOLEAN, named : BOOLEAN, owned : BOOLEAN, stage : {"opportunity", "awarded", "construction", "archived"},
   deleted : BOOLEAN, by : {"bundle", "chat"}]
QuoteRows ==
  [ref : Quotes, marked : BOOLEAN, project : Nat, right : BOOLEAN, status : {"draft", "closed", "issued"}]
\* What a row of the table holds
InvoiceRows == [project : Nat, right : BOOLEAN, draft : BOOLEAN, by : {"bundle", "chat"}]

\* The records of production, and what the chat is about to write
RecordsOK ==
  /\ bundle \in {"business", "awarded"}
  /\ projects \in Seq(ProjectRows) /\ quotes \in Seq(QuoteRows)
  /\ invoice = NoInvoice \/ invoice \in InvoiceRows
  /\ BundleTypeOK /\ ChatIsWhole
  /\ chat.at = "commit" => chat.project \in {0} \cup DOMAIN projects /\ chat.create \in BOOLEAN /\ chat.right \in BOOLEAN
  /\ attempts \in Nat /\ edits \in Nat

\* What the server may be asked for
RequestOK(r) ==
  /\ r.kind \in {"project", "quote", "invoice", "work"}
  /\ r.kind = "quote" => r.ref \in Quotes /\ r.project \in DOMAIN projects
  /\ r.kind = "invoice" => IF bundle = "business" THEN r.project = 0 ELSE r.project \in DOMAIN projects
  /\ r.kind = "work" => r.line \in Lines /\ r.project \in DOMAIN projects

\* Where a script is, or where it waits for an answer
From(x) == IF x.at = "asking" THEN x.from ELSE x

\* Where the script is past its project
Places == {"quotes", "quote", "invoice", "work", "lines"}
\* What a script holds there
PlaceOK(y) ==
  /\ y.at \in {"idle"} \cup Places
  /\ y.at = "idle" => y = NoScript
  /\ y.at \in Places => y.project \in DOMAIN projects
  /\ y.at = "quote" => /\ y.listing \in Seq(QuoteRows)
                       /\ y = [at |-> "quote", project |-> y.project, listing |-> y.listing, done |-> y.done]
  /\ y.at = "lines" => y = [at |-> "lines", project |-> y.project, todo |-> y.todo]

\* It waits for the record that is missing where it is.
AskingOK(x) ==
  /\ RequestOK(x.request)
  /\ x.request.kind = "project" => x.from.at = "idle"
  /\ x.request.kind = "quote" =>
       x.from.at = "quote" /\ x.request.project = x.from.project /\ x.request.ref \notin x.from.done
  /\ x.request.kind = "invoice" =>
       x.from.at = "invoice" /\ (bundle = "awarded" => x.request.project = x.from.project)
  /\ x.request.kind = "work" => x.from.at = "lines" /\ x.request.project = x.from.project

\* What a script holds that is under way; it has reported nothing yet.
ScriptOK ==
  /\ script.at = "asking" \/ script.at \in {"idle"} \cup Places
  /\ PlaceOK(From(script)) /\ (script.at = "asking" => AskingOK(script))
  /\ script.at # "idle" => evidence = NoEvidence

\* A late request of this attempt is of a run that has ended.
Late(kind) == late # NoRequest /\ late.attempt = attempts /\ late.request.kind = kind
\* A request of this kind is on its way from the script
Asked(kind) == script.at = "asking" /\ script.request.kind = kind
\* A late request is one that the server may take, of a run that has begun.
LateOK ==
  late # NoRequest =>
    /\ RequestOK(late.request) /\ late.attempt \in Nat /\ late.attempt <= attempts
    /\ late.attempt = attempts => script.at = "idle"

\* A script that has listed the quotes has all of them, but those it has made.
ListsAll(y) ==
  \A q \in DOMAIN quotes : quotes[q].marked /\ quotes[q].ref \notin y.done =>
    q \in DOMAIN y.listing /\ y.listing[q].marked /\ y.listing[q].ref = quotes[q].ref

\* As long as no late request has crossed a run, a record that a run asks for is
\* missing, and no quote is there twice.
AskedOnce ==
  /\ \A p, q \in DOMAIN quotes : quotes[p].marked /\ quotes[q].marked /\ quotes[p].ref = quotes[q].ref => p = q
  /\ Asked("quote") => Marked(script.request.ref) = {}
  /\ Late("quote") => Marked(late.request.ref) = {}
  /\ From(script).at = "quote" => ListsAll(From(script))

\* As long as nobody but the runs has written, the records are as a run makes them.
Clean == ~overtaken /\ edits = 0 /\ invoice.by # "chat"
\* The quotes of a table are as a run makes them, each once.
AsMade(table) ==
  /\ \A q \in DOMAIN table : table[q].marked /\ table[q].project = 1 /\ table[q].right /\ table[q].status = "draft"
  /\ \A p, q \in DOMAIN table : table[p].ref = table[q].ref => p = q
\* The records are those of the runs, and nothing is asked for that exists.
Untouched ==
  /\ \A p \in DOMAIN projects : p = 1 /\ projects[p] = NewProject
  /\ AsMade(quotes)
  /\ invoice # NoInvoice => invoice.right /\ invoice.draft /\ (bundle = "awarded" => invoice.project = 1)
  /\ Asked("project") \/ Late("project") => projects = <<>>
  /\ Asked("invoice") \/ Late("invoice") => invoice = NoInvoice
  /\ From(script).at = "quote" => AsMade(From(script).listing)
  /\ ~blocked

\* What a run has verified stays as it was, as long as only the run writes.
QuoteVerified(ref, p) == \E q \in Marked(ref) : Marked(ref) = {q} /\ VerifyQuote(quotes[q], p)
\* What the script has verified on its way to where it is
Established(y) ==
  /\ y.at \in Places => Keyed = {y.project} /\ VerifyProject(y.project)
  /\ y.at = "quote" =>
       /\ \A q \in DOMAIN y.listing : q \in DOMAIN quotes /\ quotes[q] = y.listing[q]
       /\ \A q \in DOMAIN quotes : q \notin DOMAIN y.listing => quotes[q].ref \in y.done
       /\ \A ref \in y.done : QuoteVerified(ref, y.project)
  /\ y.at \in {"invoice", "work", "lines"} /\ bundle = "business" => \A ref \in Quotes : QuoteVerified(ref, y.project)
  /\ y.at \in {"work", "lines"} => invoice # NoInvoice /\ VerifyInvoice(y.project)
  /\ y.at = "lines" /\ bundle = "awarded" => \A l \in Lines : l \notin y.todo => <<y.project, l>> \in work
\* A run that was let alone has verified what it builds on.
VerifiedInRun ==
  /\ Established(From(script))
  /\ Asked("project") => Keyed = {}
  /\ Asked("quote") => Marked(script.request.ref) = {}
  /\ evidence # NoEvidence => Complete(evidence.project)

\* The invariant: what is promised to a run that is let alone, to runs among which
\* no late request was served, and to records that nobody else has changed.
BundleInv ==
  /\ RecordsOK /\ ScriptOK /\ LateOK
  /\ ~overtaken => AskedOnce
  /\ Clean => Untouched
  /\ ~touched => VerifiedInRun

\* It is true before the first run.
LEMMA BundleInitInv == BundleInit => BundleInv
<1> SUFFICES ASSUME BundleInit PROVE BundleInv
  OBVIOUS
<1>1. projects \in Seq(ProjectRows) /\ quotes \in Seq(QuoteRows) /\ DOMAIN projects = {} /\ DOMAIN quotes = {}
  BY EmptySeq DEF BundleInit
<1>2. RecordsOK
  BY <1>1 DEF RecordsOK, BundleInit, BundleTypeOK, ChatIsWhole, NoInvoice, NoChat, NoEvidence
<1>3. script.at = "idle" /\ script = NoScript /\ late = NoRequest /\ evidence = NoEvidence
  BY DEF BundleInit, NoScript
<1>4. ScriptOK /\ LateOK
  BY <1>3 DEF ScriptOK, LateOK, PlaceOK, From, Places
<1>5. AskedOnce
  BY <1>1, <1>3 DEF AskedOnce, Asked, Late, From
<1>6. Untouched
  BY <1>1, <1>3 DEF Untouched, AsMade, Asked, Late, From, BundleInit
<1>7. VerifiedInRun
  BY <1>1, <1>3 DEF VerifiedInRun, Established, Asked, From, Places
<1>8. QED
  BY <1>2, <1>4, <1>5, <1>6, <1>7 DEF BundleInv

\* It implies what the run checks.
LEMMA BundleInvHolds == BundleInv => BundlesHold
<1> SUFFICES ASSUME BundleInv PROVE BundlesHold
  OBVIOUS
<1>1. BundleTypeOK /\ ChatIsWhole
  BY DEF BundleInv, RecordsOK
<1>2. ASSUME ~overtaken, NEW ref \in Quotes PROVE Cardinality(Marked(ref)) <= 1
  <2>1. \A p, q \in Marked(ref) : p = q
    BY <1>2 DEF BundleInv, AskedOnce, Marked
  <2>2. CASE Marked(ref) = {}
    BY <2>2, FS_EmptySet
  <2>3. ASSUME NEW q \in Marked(ref) PROVE Cardinality(Marked(ref)) <= 1
    <3>1. Marked(ref) = {q}
      BY <2>1, <2>3
    <3>2. Cardinality({q}) = 1
      BY FS_Singleton
    <3>3. QED
      BY <3>1, <3>2
  <2>4. QED
    BY <2>2, <2>3
<1>3. blocked => overtaken \/ edits > 0 \/ invoice.by = "chat"
  <2>1. edits \in Nat
    BY DEF BundleInv, RecordsOK
  <2>2. blocked => ~Clean
    BY DEF BundleInv, Untouched
  <2>3. QED
    BY <2>1, <2>2 DEF Clean
<1>4. evidence # NoEvidence /\ ~touched => Complete(evidence.project)
  BY DEF BundleInv, VerifiedInRun
<1>5. QED
  BY <1>1, <1>2, <1>3, <1>4 DEF BundlesHold

----------------------------------------------------------------------------
\* The records

\* A record is added at the end of its table.
LEMMA Appended ==
  ASSUME NEW S, NEW table \in Seq(S), NEW row \in S
  PROVE  /\ Append(table, row) \in Seq(S) /\ Len(table) \in Nat /\ Len(Append(table, row)) = Len(table) + 1
         /\ Len(table) + 1 \notin DOMAIN table
         /\ DOMAIN Append(table, row) = DOMAIN table \cup {Len(table) + 1}
         /\ Append(table, row)[Len(table) + 1] = row
         /\ \A i \in DOMAIN table : Append(table, row)[i] = table[i]
<1>1. /\ Append(table, row) \in Seq(S) /\ Len(table) \in Nat /\ Len(Append(table, row)) = Len(table) + 1
      /\ DOMAIN table = 1..Len(table)
  BY AppendProperties, LenProperties
<1>2. DOMAIN Append(table, row) = 1..(Len(table) + 1)
  BY <1>1, LenProperties
<1>3. 1..(Len(table) + 1) = 1..Len(table) \cup {Len(table) + 1} /\ Len(table) + 1 \notin 1..Len(table)
  BY <1>1
<1>4. QED
  BY <1>1, <1>2, <1>3, AppendProperties

\* What the tables hold
LEMMA RecordFacts ==
  ASSUME RecordsOK
  PROVE  /\ \A p \in DOMAIN projects : p \in Nat \ {0} /\ projects[p] \in ProjectRows
         /\ \A q \in DOMAIN quotes : quotes[q] \in QuoteRows /\ quotes[q].project \in DOMAIN projects /\ quotes[q].ref \in Quotes
         /\ Len(projects) \in Nat /\ DOMAIN projects = 1..Len(projects)
         /\ Len(quotes) \in Nat /\ DOMAIN quotes = 1..Len(quotes)
         /\ Keyed \subseteq DOMAIN projects /\ Conflicting \subseteq DOMAIN projects
<1>1. projects \in Seq(ProjectRows) /\ quotes \in Seq(QuoteRows)
  BY DEF RecordsOK
<1>2. Len(projects) \in Nat /\ DOMAIN projects = 1..Len(projects) /\ \A p \in 1..Len(projects) : projects[p] \in ProjectRows
  BY <1>1, LenProperties, ElementOfSeq
<1>3. Len(quotes) \in Nat /\ DOMAIN quotes = 1..Len(quotes) /\ \A q \in 1..Len(quotes) : quotes[q] \in QuoteRows
  BY <1>1, LenProperties, ElementOfSeq
<1>4. \A p \in 1..Len(projects) : p \in Nat \ {0}
  BY <1>2
<1>5. Keyed \subseteq DOMAIN projects /\ Conflicting \subseteq DOMAIN projects
  BY DEF Keyed, Conflicting, Listed
<1>6. QED
  BY <1>2, <1>3, <1>4, <1>5 DEF RecordsOK, BundleTypeOK

\* The new records are rows of their tables.
LEMMA NewRows ==
  ASSUME RecordsOK
  PROVE  /\ NewProject \in ProjectRows /\ NewProject.key /\ NewProject.named /\ NewProject.owned /\ ~NewProject.deleted
         /\ NewProject.stage = Opening /\ NewProject.by = "bundle"
         /\ \A r : RequestOK(r) /\ r.kind = "quote" =>
              /\ NewQuote(r) \in QuoteRows /\ NewQuote(r).ref = r.ref /\ NewQuote(r).marked
              /\ NewQuote(r).project = r.project /\ NewQuote(r).right /\ NewQuote(r).status = "draft"
<1>1. Opening \in {"opportunity", "awarded"}
  BY DEF Opening
<1>2. NewProject \in ProjectRows
  BY <1>1 DEF NewProject, ProjectRows
<1>3. /\ NewProject.key = TRUE /\ NewProject.named = TRUE /\ NewProject.owned = TRUE /\ NewProject.deleted = FALSE
      /\ NewProject.stage = Opening /\ NewProject.by = "bundle"
  BY DEF NewProject
<1>4. ASSUME NEW r, RequestOK(r), r.kind = "quote"
      PROVE  /\ NewQuote(r) \in QuoteRows /\ NewQuote(r).ref = r.ref /\ NewQuote(r).marked = TRUE
             /\ NewQuote(r).project = r.project /\ NewQuote(r).right = TRUE /\ NewQuote(r).status = "draft"
  <2>1. r.ref \in Quotes /\ r.project \in Nat
    BY <1>4, RecordFacts DEF RequestOK
  <2>2. QED
    BY <2>1 DEF NewQuote, QuoteRows
<1>5. QED
  BY <1>2, <1>3, <1>4

\* Projects are never taken away, so that a request and a script keep theirs.
LEMMA ProjectsLast ==
  ASSUME DOMAIN projects \subseteq DOMAIN projects', bundle' = bundle
  PROVE  /\ \A r : RequestOK(r) => RequestOK(r)'
         /\ \A y : PlaceOK(y) => PlaceOK(y)'
         /\ \A x : AskingOK(x) => AskingOK(x)'
<1>1. \A r : RequestOK(r) => RequestOK(r)'
  BY DEF RequestOK
<1>2. \A y : PlaceOK(y) => PlaceOK(y)'
  BY DEF PlaceOK
<1>3. \A x : AskingOK(x) => AskingOK(x)'
  BY <1>1 DEF AskingOK
<1>4. QED
  BY <1>1, <1>2, <1>3

\* A project that a request adds
LEMMA ProjectServed ==
  ASSUME RecordsOK, bundle' = bundle, NEW n, n = Len(projects) + 1, projects' = Append(projects, NewProject)
  PROVE  /\ projects' \in Seq(ProjectRows) /\ n \notin DOMAIN projects /\ DOMAIN projects' = DOMAIN projects \cup {n}
         /\ Len(projects') = n /\ n \in Nat \ {0}
         /\ projects'[n] = NewProject /\ \A p \in DOMAIN projects : projects'[p] = projects[p]
         /\ Keyed' = Keyed \cup {n} /\ VerifyProject(n)'
<1>1. /\ projects' \in Seq(ProjectRows) /\ n \notin DOMAIN projects /\ DOMAIN projects' = DOMAIN projects \cup {n}
      /\ Len(projects') = n /\ n \in Nat \ {0}
      /\ projects'[n] = NewProject /\ \A p \in DOMAIN projects : projects'[p] = projects[p]
  BY NewRows, Appended DEF RecordsOK
<1>2. Keyed' = Keyed \cup {n}
  BY <1>1, NewRows DEF Keyed, Listed
<1>3. VerifyProject(n)'
  BY <1>1, NewRows DEF VerifyProject, Opening
<1>4. QED
  BY <1>1, <1>2, <1>3

\* A quote that a request adds
LEMMA QuoteServed ==
  ASSUME RecordsOK, NEW r, RequestOK(r), r.kind = "quote", NEW n, n = Len(quotes) + 1, quotes' = Append(quotes, NewQuote(r))
  PROVE  /\ quotes' \in Seq(QuoteRows) /\ n \notin DOMAIN quotes /\ DOMAIN quotes' = DOMAIN quotes \cup {n}
         /\ quotes'[n] = NewQuote(r) /\ \A q \in DOMAIN quotes : quotes'[q] = quotes[q]
         /\ quotes'[n].marked /\ quotes'[n].ref = r.ref /\ quotes'[n].project = r.project
         /\ quotes'[n].right /\ quotes'[n].status = "draft"
         /\ Marked(r.ref)' = Marked(r.ref) \cup {n} /\ \A ref : ref # r.ref => Marked(ref)' = Marked(ref)
<1>1. /\ quotes' \in Seq(QuoteRows) /\ n \notin DOMAIN quotes /\ DOMAIN quotes' = DOMAIN quotes \cup {n}
      /\ quotes'[n] = NewQuote(r) /\ \A q \in DOMAIN quotes : quotes'[q] = quotes[q]
  BY NewRows, Appended DEF RecordsOK
<1>2. /\ quotes'[n].marked /\ quotes'[n].ref = r.ref /\ quotes'[n].project = r.project
      /\ quotes'[n].right /\ quotes'[n].status = "draft"
  BY <1>1, NewRows
<1>3. Marked(r.ref)' = Marked(r.ref) \cup {n} /\ \A ref : ref # r.ref => Marked(ref)' = Marked(ref)
  BY <1>1, <1>2 DEF Marked
<1>4. QED
  BY <1>1, <1>2, <1>3

\* Whatever is served, the records are of their tables.
LEMMA RecordsServed ==
  ASSUME RecordsOK, NEW r, RequestOK(r), Serve(r), UNCHANGED <<bundle, chat, evidence, attempts, edits>>
  PROVE  RecordsOK' /\ DOMAIN projects \subseteq DOMAIN projects'
<1> PICK n, m : n = Len(projects) + 1 /\ m = Len(quotes) + 1
  OBVIOUS
<1>1. /\ projects' \in Seq(ProjectRows) /\ DOMAIN projects \subseteq DOMAIN projects'
      /\ \A p \in DOMAIN projects' : projects'[p].by = "chat" => p \in DOMAIN projects /\ projects[p].by = "chat"
  <2>1. CASE r.kind = "project"
    BY <2>1, ProjectServed, NewRows DEF Serve
  <2>2. CASE r.kind # "project"
    BY <2>2 DEF Serve, RecordsOK
  <2>3. QED
    BY <2>1, <2>2
<1>2. /\ quotes' \in Seq(QuoteRows)
      /\ \A q \in DOMAIN quotes' : quotes'[q].project \in DOMAIN projects' /\ quotes'[q].ref \in Quotes
  <2>1. CASE r.kind = "quote"
    BY <1>1, <2>1, QuoteServed, RecordFacts DEF Serve, RequestOK
  <2>2. CASE r.kind # "quote"
    BY <1>1, <2>2, RecordFacts DEF Serve, RecordsOK
  <2>3. QED
    BY <2>1, <2>2
<1>3. /\ invoice' = NoInvoice \/ invoice' \in InvoiceRows
      /\ invoice'.project \in {0} \cup DOMAIN projects'
      /\ invoice' = invoice \/ (invoice = NoInvoice /\ invoice'.by = "bundle")
  <2>1. CASE r.kind = "invoice"
    <3>1. r.project \in {0} \cup DOMAIN projects
      BY <2>1 DEF RequestOK
    <3>2. r.project \in Nat
      BY <3>1, RecordFacts
    <3>3. invoice = NoInvoice /\ invoice' = [project |-> r.project, right |-> TRUE, draft |-> TRUE, by |-> "bundle"]
      BY <2>1 DEF Serve, Rejected
    <3>4. QED
      BY <1>1, <3>1, <3>2, <3>3 DEF InvoiceRows
  <2>2. CASE r.kind # "invoice"
    BY <1>1, <2>2 DEF Serve, RecordsOK, BundleTypeOK
  <2>3. QED
    BY <2>1, <2>2
<1>4. work' \subseteq (DOMAIN projects') \X Lines
  <2>1. CASE r.kind = "work"
    BY <1>1, <2>1 DEF Serve, RequestOK, RecordsOK, BundleTypeOK
  <2>2. CASE r.kind # "work"
    BY <1>1, <2>2 DEF Serve, RecordsOK, BundleTypeOK
  <2>3. QED
    BY <2>1, <2>2
<1>5. ChatIsWhole'
  BY <1>1, <1>3 DEF RecordsOK, ChatIsWhole, NoInvoice
<1>6. evidence'.project \in {0} \cup DOMAIN projects'
  BY <1>1 DEF RecordsOK, BundleTypeOK
<1>7. chat'.at = "commit" => chat'.project \in {0} \cup DOMAIN projects' /\ chat'.create \in BOOLEAN /\ chat'.right \in BOOLEAN
  BY <1>1 DEF RecordsOK
<1>8. QED
  BY <1>1, <1>2, <1>3, <1>4, <1>5, <1>6, <1>7 DEF RecordsOK, BundleTypeOK

----------------------------------------------------------------------------
\* The script's own steps

\* The script goes on, to a place that the records allow or to a request.
LEMMA ScriptGoesOn ==
  ASSUME BundleInv, NEW next, ContinueAs(next), script.at # "idle",
         PlaceOK(From(next)), next.at \in {"asking"} \cup Places,
         next.at = "asking" => AskingOK(next) /\ next.request.kind # "project",
         next.at = "asking" /\ next.request.kind = "quote" => (~overtaken \/ ~touched => Marked(next.request.ref) = {}),
         From(next).at = "quote" => (~overtaken => ListsAll(From(next))) /\ (Clean => AsMade(From(next).listing)),
         next.at = "asking" /\ next.request.kind = "invoice" /\ Clean => invoice = NoInvoice,
         ~touched => Established(From(next))
  PROVE  BundleInv'
<1>1. /\ script' = next
      /\ UNCHANGED <<bundle, projects, quotes, invoice, work, late, chat, evidence, attempts, edits, overtaken, touched, blocked>>
  BY DEF ContinueAs, tables, histories
<1>2. RecordsOK'
  BY <1>1 DEF BundleInv, RecordsOK, BundleTypeOK, ChatIsWhole
<1>3. /\ \A r : RequestOK(r) => RequestOK(r)'
      /\ \A y : PlaceOK(y) => PlaceOK(y)'
      /\ \A x : AskingOK(x) => AskingOK(x)'
  BY <1>1, ProjectsLast
<1>4. From(script)' = From(next)
  BY <1>1 DEF From
<1>5. ScriptOK'
  BY <1>1, <1>3, <1>4 DEF BundleInv, ScriptOK
<1>6. late # NoRequest => late.attempt # attempts
  BY DEF BundleInv, LateOK
<1>7. LateOK'
  BY <1>1, <1>3, <1>6 DEF BundleInv, LateOK
<1>8. ASSUME ~overtaken PROVE AskedOnce'
  <2>1. Asked("quote")' => (Marked(script.request.ref) = {})'
    BY <1>1, <1>8 DEF Asked, Marked
  <2>2. ~Late("quote")'
    BY <1>1, <1>6 DEF Late
  <2>3. (From(script).at = "quote" => ListsAll(From(script)))'
    BY <1>1, <1>4, <1>8 DEF ListsAll
  <2>4. QED
    BY <1>1, <1>8, <2>1, <2>2, <2>3 DEF BundleInv, AskedOnce
<1>9. ASSUME Clean PROVE Untouched'
  <2>1. /\ \A p \in DOMAIN projects : p = 1 /\ projects[p] = NewProject
        /\ AsMade(quotes)
        /\ invoice # NoInvoice => invoice.right /\ invoice.draft /\ (bundle = "awarded" => invoice.project = 1)
        /\ ~blocked
    BY <1>9 DEF BundleInv, Untouched
  <2>2. ~Late("project")' /\ ~Late("invoice")' /\ ~Asked("project")'
    BY <1>1, <1>6 DEF Late, Asked
  <2>3. Asked("invoice")' => invoice = NoInvoice
    BY <1>1, <1>9 DEF Asked
  <2>4. (From(script).at = "quote" => AsMade(From(script).listing))'
    BY <1>1, <1>4, <1>9 DEF AsMade
  <2>5. QED
    BY <1>1, <2>1, <2>2, <2>3, <2>4 DEF Untouched, AsMade, NewProject, Opening
<1>10. ASSUME ~touched PROVE VerifiedInRun'
  <2>1. Established(From(script))'
    BY <1>1, <1>4, <1>10 DEF Established, QuoteVerified, Marked, Keyed, Listed, VerifyProject, VerifyQuote, VerifyInvoice, Opening
  <2>2. ~Asked("project")' /\ (Asked("quote")' => (Marked(script.request.ref) = {})')
    BY <1>1, <1>10 DEF Asked, Marked
  <2>3. evidence = NoEvidence
    BY DEF BundleInv, ScriptOK
  <2>4. QED
    BY <1>1, <2>1, <2>2, <2>3 DEF VerifiedInRun, NoEvidence
<1>11. QED
  BY <1>1, <1>2, <1>5, <1>7, <1>8, <1>9, <1>10 DEF BundleInv, Clean

\* The quotes are listed.
LEMMA ListQuotesStep ==
  ASSUME BundleInv, ListQuotes
  PROVE  BundleInv'
<1> PICK next : next = [at |-> "quote", project |-> script.project, listing |-> quotes, done |-> {}]
  OBVIOUS
<1>1. script.at = "quotes" /\ ContinueAs(next) /\ From(script) = script
  BY DEF ListQuotes, From
<1>2. script.project \in DOMAIN projects /\ quotes \in Seq(QuoteRows)
  BY <1>1 DEF BundleInv, ScriptOK, PlaceOK, Places, RecordsOK
<1>3. next.at = "quote" /\ From(next) = next /\ next.project = script.project /\ next.listing = quotes /\ next.done = {}
  BY DEF From
<1>4. PlaceOK(next)
  BY <1>2, <1>3 DEF PlaceOK, Places
<1>5. ListsAll(next)
  BY <1>3 DEF ListsAll
<1>6. Clean => AsMade(next.listing)
  BY <1>3 DEF BundleInv, Untouched
<1>7. ~touched => Established(next)
  BY <1>1, <1>3 DEF BundleInv, VerifiedInRun, Established, Places
<1>8. QED
  BY <1>1, <1>3, <1>4, <1>5, <1>6, <1>7, ScriptGoesOn DEF Places

\* A run that was asked to look at what it finds stops.
LEMMA RefuseStep ==
  ASSUME BundleInv, Refuse, ~Clean, script.at # "idle"
  PROVE  BundleInv'
<1>1. /\ script' = NoScript
      /\ UNCHANGED <<bundle, projects, quotes, invoice, work, late, chat, evidence, attempts, edits, overtaken, touched>>
  BY DEF Refuse, tables, histories
<1>2. RecordsOK'
  BY <1>1 DEF BundleInv, RecordsOK, BundleTypeOK, ChatIsWhole
<1>3. script'.at = "idle" /\ From(script)' = NoScript
  BY <1>1 DEF NoScript, From
<1>4. ScriptOK'
  BY <1>1, <1>3 DEF ScriptOK, PlaceOK, Places
<1>5. LateOK'
  BY <1>1, <1>3, ProjectsLast DEF BundleInv, LateOK
<1>6. late # NoRequest => late.attempt # attempts
  BY DEF BundleInv, LateOK
<1>7. ASSUME ~overtaken PROVE AskedOnce'
  BY <1>1, <1>3, <1>6, <1>7 DEF BundleInv, AskedOnce, Asked, Late, NoScript
<1>8. ~Clean'
  BY <1>1 DEF Clean
<1>9. ASSUME ~touched PROVE VerifiedInRun'
  <2>1. evidence = NoEvidence
    BY DEF BundleInv, ScriptOK
  <2>2. QED
    BY <1>1, <1>3, <2>1 DEF VerifiedInRun, Established, Asked, NoScript, Places, NoEvidence
<1>10. QED
  BY <1>1, <1>2, <1>4, <1>5, <1>7, <1>8, <1>9 DEF BundleInv

\* The next reference is looked for among them.
LEMMA FindQuoteStep ==
  ASSUME BundleInv, NEW ref \in Quotes, FindQuote(ref)
  PROVE  BundleInv'
<1> PICK y : y = script
  OBVIOUS
<1> DEFINE found == {q \in DOMAIN y.listing : y.listing[q].ref = ref /\ y.listing[q].marked}
<1>1. y.at = "quote" /\ ref \notin y.done /\ From(script) = y
  BY DEF FindQuote, From
<1>2. PlaceOK(y) /\ y.project \in DOMAIN projects /\ y.listing \in Seq(QuoteRows)
  BY <1>1 DEF BundleInv, ScriptOK, PlaceOK, Places
<1>3. y = [at |-> "quote", project |-> y.project, listing |-> y.listing, done |-> y.done]
  BY <1>1, <1>2 DEF PlaceOK
<1>4. ~overtaken => ListsAll(y)
  BY <1>1 DEF BundleInv, AskedOnce
<1>5. Clean => AsMade(y.listing) /\ \A p \in DOMAIN projects : p = 1
  BY <1>1 DEF BundleInv, Untouched
<1>6. ~touched => Established(y)
  BY <1>1 DEF BundleInv, VerifiedInRun
<1>7. \A q \in Marked(ref) : ~overtaken \/ ~touched => q \in found
  <2>1. ASSUME NEW q \in Marked(ref), ~overtaken PROVE q \in found
    BY <1>1, <1>4, <2>1 DEF ListsAll, Marked
  <2>2. ASSUME NEW q \in Marked(ref), ~touched PROVE q \in found
    <3>1. q \in DOMAIN quotes /\ quotes[q].ref = ref /\ quotes[q].marked
      BY <2>2 DEF Marked
    <3>2. q \in DOMAIN y.listing /\ quotes[q] = y.listing[q]
      BY <1>1, <1>6, <2>2, <3>1 DEF Established
    <3>3. QED
      BY <3>1, <3>2
  <2>3. QED
    BY <2>1, <2>2
<1>8. CASE found = {}
  <2> PICK next : next = Asking([kind |-> "quote", ref |-> ref, project |-> y.project])
    OBVIOUS
  <2>1. ContinueAs(next)
    BY <1>8 DEF FindQuote
  <2>2. /\ next.at = "asking" /\ From(next) = y /\ next.from = y
        /\ next.request.kind = "quote" /\ next.request.ref = ref /\ next.request.project = y.project
    BY DEF Asking, From
  <2>3. AskingOK(next)
    BY <1>1, <1>2, <2>2 DEF AskingOK, RequestOK
  <2>4. ~overtaken \/ ~touched => Marked(ref) = {}
    BY <1>7, <1>8
  <2>5. QED
    BY <1>1, <1>2, <1>4, <1>5, <1>6, <2>1, <2>2, <2>3, <2>4, ScriptGoesOn
<1>9. CASE found # {} /\ \E q \in found : found = {q} /\ VerifyQuote(y.listing[q], y.project)
  <2> PICK next : next = [y EXCEPT !.done = @ \cup {ref}]
    OBVIOUS
  <2>1. ContinueAs(next)
    BY <1>9 DEF FindQuote
  <2>2. next = [at |-> "quote", project |-> y.project, listing |-> y.listing, done |-> y.done \cup {ref}]
    <3>1. PICK p, l, d : p = y.project /\ l = y.listing /\ d = y.done
      OBVIOUS
    <3>2. y = [at |-> "quote", project |-> p, listing |-> l, done |-> d]
      BY <1>3, <3>1
    <3>3. [y EXCEPT !.done = d \cup {ref}] = [at |-> "quote", project |-> p, listing |-> l, done |-> d \cup {ref}]
      BY ONLY <3>2
    <3>4. QED
      BY <3>1, <3>3
  <2>3. next.at = "quote" /\ From(next) = next /\ next.project = y.project /\ next.listing = y.listing /\ next.done = y.done \cup {ref}
    BY <2>2 DEF From
  <2>4. PlaceOK(next)
    BY <1>2, <2>2, <2>3 DEF PlaceOK, Places
  <2>5. ~overtaken => ListsAll(next)
    BY <1>4, <2>3 DEF ListsAll
  <2>6. ASSUME ~touched PROVE Established(next)
    <3>1. PICK q \in found : found = {q} /\ VerifyQuote(y.listing[q], y.project)
      BY <1>9
    <3>2. q \in DOMAIN quotes /\ quotes[q] = y.listing[q]
      BY <1>1, <1>6, <2>6, <3>1 DEF Established
    <3>3. q \in Marked(ref)
      BY <3>1, <3>2 DEF Marked
    <3>4. Marked(ref) = {q}
      BY <1>7, <2>6, <3>1, <3>3
    <3>5. QuoteVerified(ref, y.project)
      BY <3>1, <3>2, <3>4 DEF QuoteVerified
    <3>6. QED
      BY <1>1, <1>6, <2>3, <2>6, <3>5 DEF Established, Places
  <2>7. QED
    BY <1>1, <1>5, <2>1, <2>3, <2>4, <2>5, <2>6, ScriptGoesOn DEF Places
<1>10. CASE found # {} /\ ~\E q \in found : found = {q} /\ VerifyQuote(y.listing[q], y.project)
  <2>1. Refuse
    BY <1>10 DEF FindQuote
  <2>2. ASSUME Clean PROVE FALSE
    <3>1. PICK q : q \in found
      BY <1>10
    <3>2. found = {q}
      BY <1>5, <2>2, <3>1 DEF AsMade
    <3>3. y.project = 1
      BY <1>2, <1>5, <2>2
    <3>4. VerifyQuote(y.listing[q], y.project)
      BY <1>5, <2>2, <3>1, <3>3 DEF AsMade, VerifyQuote
    <3>5. QED
      BY <1>10, <3>1, <3>2, <3>4
  <2>3. QED
    BY <1>1, <2>1, <2>2, RefuseStep
<1>11. QED
  BY <1>8, <1>9, <1>10

\* All references have been found or made.
LEMMA QuotesDoneStep ==
  ASSUME BundleInv, QuotesDone
  PROVE  BundleInv'
<1> PICK next : next = [at |-> "invoice", project |-> script.project]
  OBVIOUS
<1>1. script.at = "quote" /\ script.done = Quotes /\ ContinueAs(next) /\ From(script) = script
  BY DEF QuotesDone, From
<1>2. script.project \in DOMAIN projects
  BY <1>1 DEF BundleInv, ScriptOK, PlaceOK, Places
<1>3. next.at = "invoice" /\ From(next) = next /\ next.project = script.project
  BY DEF From
<1>4. PlaceOK(next)
  BY <1>2, <1>3 DEF PlaceOK, Places
<1>5. ~touched => Established(next)
  BY <1>1, <1>3 DEF BundleInv, VerifiedInRun, Established, Places
<1>6. QED
  BY <1>1, <1>3, <1>4, <1>5, ScriptGoesOn DEF Places

\* The invoice is looked for.
LEMMA FindInvoiceStep ==
  ASSUME BundleInv, FindInvoice
  PROVE  BundleInv'
<1> PICK y : y = script
  OBVIOUS
<1>1. y.at = "invoice" /\ From(script) = y
  BY DEF FindInvoice, From
<1>2. PlaceOK(y) /\ y.project \in DOMAIN projects
  BY <1>1 DEF BundleInv, ScriptOK, PlaceOK, Places
<1>3. ~touched => Established(y)
  BY <1>1 DEF BundleInv, VerifiedInRun
<1>4. CASE invoice = NoInvoice
  <2> PICK r : r = [kind |-> "invoice", project |-> IF bundle = "business" THEN 0 ELSE y.project]
    OBVIOUS
  <2> PICK next : next = Asking(r)
    OBVIOUS
  <2>1. ContinueAs(next)
    BY <1>4 DEF FindInvoice
  <2>2. next.at = "asking" /\ From(next) = y /\ next.from = y /\ next.request = r
    BY DEF Asking, From
  <2>3. bundle \in {"business", "awarded"}
    BY DEF BundleInv, RecordsOK
  <2>4. r.kind = "invoice" /\ (bundle = "business" => r.project = 0) /\ (bundle = "awarded" => r.project = y.project)
    BY <2>3
  <2>5. AskingOK(next)
    BY <1>1, <1>2, <2>2, <2>3, <2>4 DEF AskingOK, RequestOK
  <2>6. QED
    BY <1>1, <1>2, <1>3, <1>4, <2>1, <2>2, <2>4, <2>5, ScriptGoesOn
<1>5. CASE invoice # NoInvoice /\ VerifyInvoice(y.project)
  <2> PICK next : next = [at |-> "work", project |-> y.project]
    OBVIOUS
  <2>1. ContinueAs(next)
    BY <1>5 DEF FindInvoice
  <2>2. next.at = "work" /\ From(next) = next /\ next.project = y.project
    BY DEF From
  <2>3. PlaceOK(next)
    BY <1>2, <2>2 DEF PlaceOK, Places
  <2>4. ~touched => Established(next)
    BY <1>1, <1>3, <1>5, <2>2 DEF Established, Places
  <2>5. QED
    BY <1>1, <2>1, <2>2, <2>3, <2>4, ScriptGoesOn DEF Places
<1>6. CASE invoice # NoInvoice /\ ~VerifyInvoice(y.project)
  <2>1. Refuse
    BY <1>6 DEF FindInvoice
  <2>2. ASSUME Clean PROVE VerifyInvoice(y.project)
    <3>1. /\ invoice.right /\ invoice.draft /\ (bundle = "awarded" => invoice.project = 1)
          /\ \A p \in DOMAIN projects : p = 1
      BY <1>6, <2>2 DEF BundleInv, Untouched
    <3>2. QED
      BY <1>2, <3>1 DEF VerifyInvoice
  <2>3. QED
    BY <1>1, <1>6, <2>1, <2>2, RefuseStep
<1>7. QED
  BY <1>4, <1>5, <1>6

\* The completed work is listed.
LEMMA ListWorkStep ==
  ASSUME BundleInv, ListWork
  PROVE  BundleInv'
<1> PICK todo : todo = IF bundle = "business" THEN {} ELSE {l \in Lines : <<script.project, l>> \notin work}
  OBVIOUS
<1> PICK next : next = [at |-> "lines", project |-> script.project, todo |-> todo]
  OBVIOUS
<1>1. script.at = "work" /\ ContinueAs(next) /\ From(script) = script
  BY DEF ListWork, From
<1>2. script.project \in DOMAIN projects
  BY <1>1 DEF BundleInv, ScriptOK, PlaceOK, Places
<1>3. next.at = "lines" /\ From(next) = next /\ next.project = script.project /\ next.todo = todo
  BY DEF From
<1>4. PlaceOK(next)
  BY <1>2, <1>3 DEF PlaceOK, Places
<1>5. ~touched => Established(next)
  <2>1. bundle = "awarded" => \A l \in Lines : l \notin todo => <<script.project, l>> \in work
    OBVIOUS
  <2>2. QED
    BY <1>1, <1>3, <2>1 DEF BundleInv, VerifiedInRun, Established, Places
<1>6. QED
  BY <1>1, <1>3, <1>4, <1>5, ScriptGoesOn DEF Places

\* A line that is missing is sent.
LEMMA SendLineStep ==
  ASSUME BundleInv, NEW line \in Lines, SendLine(line)
  PROVE  BundleInv'
<1> PICK y : y = script
  OBVIOUS
<1> PICK next : next = Asking([kind |-> "work", project |-> y.project, line |-> line])
  OBVIOUS
<1>1. y.at = "lines" /\ ContinueAs(next) /\ From(script) = y
  BY DEF SendLine, From
<1>2. PlaceOK(y) /\ y.project \in DOMAIN projects
  BY <1>1 DEF BundleInv, ScriptOK, PlaceOK, Places
<1>3. /\ next.at = "asking" /\ From(next) = y /\ next.from = y
      /\ next.request.kind = "work" /\ next.request.line = line /\ next.request.project = y.project
  BY DEF Asking, From
<1>4. AskingOK(next)
  BY <1>1, <1>2, <1>3 DEF AskingOK, RequestOK
<1>5. ~touched => Established(y)
  BY <1>1 DEF BundleInv, VerifiedInRun
<1>6. QED
  BY <1>1, <1>2, <1>3, <1>4, <1>5, ScriptGoesOn

\* A run begins, and a late request is one of an earlier run.
LEMMA FindProjectStep ==
  ASSUME BundleInv, FindProject
  PROVE  BundleInv'
<1>1. /\ script = NoScript /\ script.at = "idle" /\ From(script) = NoScript
      /\ attempts' = attempts + 1 /\ touched' = FALSE /\ evidence' = NoEvidence
      /\ UNCHANGED <<bundle, projects, quotes, invoice, work, late, chat, edits, overtaken>>
  BY DEF FindProject, NoScript, From, tables
<1>2. RecordsOK'
  BY <1>1 DEF BundleInv, RecordsOK, BundleTypeOK, ChatIsWhole, NoEvidence
<1>3. late # NoRequest => late.attempt \in Nat /\ late.attempt <= attempts /\ RequestOK(late.request) /\ attempts \in Nat
  BY DEF BundleInv, LateOK, RecordsOK
<1>4. late' # NoRequest => late'.attempt # attempts' /\ late'.attempt <= attempts'
  BY <1>1, <1>3
<1>5. LateOK'
  BY <1>1, <1>3, <1>4, ProjectsLast DEF LateOK
<1>6. ~Late("project")' /\ ~Late("quote")' /\ ~Late("invoice")'
  BY <1>4 DEF Late
<1>7. AfterProject \in {"quotes", "invoice"}
  BY DEF AfterProject
<1>8. ASSUME Clean
      PROVE  /\ \A p \in DOMAIN projects : p = 1 /\ VerifyProject(p) /\ p \in Keyed
             /\ \A p \in DOMAIN projects : projects[p] = NewProject
             /\ ~blocked
  BY <1>8, NewRows DEF BundleInv, Untouched, VerifyProject, Keyed, Listed
<1>9. ASSUME From(script)'.at # "quote", ~Asked("quote")', ~Asked("invoice")', ScriptOK',
             Asked("project")' => Keyed = {}, Established(From(script))', Clean => ~blocked'
      PROVE  BundleInv'
  <2>1. ASSUME ~overtaken PROVE AskedOnce'
    BY <1>1, <1>6, <1>9, <2>1 DEF BundleInv, AskedOnce
  <2>2. ASSUME Clean PROVE Untouched'
    <3>1. AsMade(quotes)' /\ (invoice # NoInvoice => invoice.right /\ invoice.draft /\ (bundle = "awarded" => invoice.project = 1))
      BY <1>1, <2>2 DEF BundleInv, Untouched, AsMade
    <3>2. Asked("project")' => projects = <<>>
      <4>1. Asked("project")' => DOMAIN projects = {}
        BY <1>8, <1>9, <2>2
      <4>2. projects \in Seq(ProjectRows)
        BY DEF BundleInv, RecordsOK
      <4>3. QED
        BY <4>1, <4>2, EmptySeq, LenProperties
    <3>3. \A p \in DOMAIN projects' : p = 1 /\ projects'[p] = NewProject'
      BY <1>1, <1>8, <2>2 DEF NewProject, Opening
    <3>4. QED
      BY <1>1, <1>6, <1>9, <2>2, <3>1, <3>2, <3>3 DEF Untouched
  <2>3. VerifiedInRun'
    <3>1. Asked("project")' => (Keyed = {})'
      BY <1>1, <1>9 DEF Keyed, Listed
    <3>2. QED
      BY <1>1, <1>9, <3>1 DEF VerifiedInRun
  <2>4. QED
    BY <1>1, <1>2, <1>5, <1>9, <2>1, <2>2, <2>3 DEF BundleInv, Clean
<1>10. CASE Keyed = {} /\ script' = Asking([kind |-> "project"]) /\ UNCHANGED blocked
  <2>1. script'.at = "asking" /\ script'.request.kind = "project" /\ script'.from = NoScript /\ NoScript.at = "idle"
    BY <1>1, <1>10 DEF Asking, NoScript
  <2>2. From(script)' = NoScript
    BY <2>1 DEF From
  <2>3. ScriptOK'
    BY <1>1, <2>1, <2>2 DEF ScriptOK, PlaceOK, AskingOK, RequestOK, Places
  <2>4. Established(From(script))'
    BY <2>1, <2>2 DEF Established, Places
  <2>5. QED
    BY <1>8, <1>9, <1>10, <2>1, <2>2, <2>3, <2>4 DEF Asked
<1>11. ASSUME NEW p \in Keyed, Keyed = {p}, VerifyProject(p), script' = [at |-> AfterProject, project |-> p], UNCHANGED blocked
       PROVE  BundleInv'
  <2> PICK next : next = [at |-> AfterProject, project |-> p]
    OBVIOUS
  <2>1. next.at \in {"quotes", "invoice"} /\ next.project = p /\ script' = next /\ From(script)' = next
    BY <1>7, <1>11 DEF From
  <2>2. p \in DOMAIN projects
    BY <1>11 DEF Keyed, Listed
  <2>3. PlaceOK(next)'
    BY <1>1, <2>1, <2>2 DEF PlaceOK, Places
  <2>4. ScriptOK'
    BY <1>1, <2>1, <2>3 DEF ScriptOK, Places
  <2>5. CASE next.at = "quotes" \/ bundle = "awarded"
    <3>1. Keyed' = {p} /\ VerifyProject(p)'
      BY <1>1, <1>11 DEF Keyed, Listed, VerifyProject, Opening
    <3>2. Established(From(script))'
      BY <1>1, <2>1, <2>5, <3>1 DEF Established
    <3>3. QED
      BY <1>8, <1>9, <1>11, <2>1, <2>4, <3>2 DEF Asked
  <2>6. QED
    BY <1>11, <2>1, <2>5 DEF AfterProject, BundleInv, RecordsOK
<1>12. CASE /\ IF Keyed = {} THEN Conflicting # {} ELSE Cardinality(Keyed) > 1 \/ \E p \in Keyed : ~VerifyProject(p)
            /\ script' = NoScript
  <2>1. script'.at = "idle" /\ From(script)' = NoScript /\ NoScript.at = "idle"
    BY <1>12 DEF NoScript, From
  <2>2. ScriptOK'
    BY <1>12, <2>1 DEF ScriptOK, PlaceOK, Places
  <2>3. Established(From(script))'
    BY <2>1 DEF Established, Places
  <2>4. ASSUME Clean PROVE FALSE
    <3>1. CASE Keyed = {}
      BY <1>8, <1>12, <2>4, <3>1 DEF Conflicting, Listed
    <3>2. ASSUME NEW q \in Keyed PROVE FALSE
      <4>1. Keyed = {1} /\ \A p \in Keyed : VerifyProject(p)
        BY <1>8, <2>4, <3>2 DEF Keyed, Listed
      <4>2. Cardinality({1}) = 1
        BY FS_Singleton
      <4>3. Cardinality(Keyed) = 1
        BY <4>1, <4>2
      <4>4. QED
        BY <1>12, <3>2, <4>1, <4>3
    <3>3. QED
      BY <3>1, <3>2
  <2>5. QED
    BY <1>9, <2>1, <2>2, <2>3, <2>4 DEF Asked
<1>13. QED
  BY <1>10, <1>11, <1>12 DEF FindProject

\* What has been asked for is added to what was there.
LEMMA ServedOnce ==
  ASSUME BundleInv, ~overtaken, NEW r, RequestOK(r), Serve(r), r.kind = "quote" => Marked(r.ref) = {}
  PROVE  \A p, q \in DOMAIN quotes' :
           quotes'[p].marked /\ quotes'[q].marked /\ quotes'[p].ref = quotes'[q].ref => p = q
<1>1. \A p, q \in DOMAIN quotes : quotes[p].marked /\ quotes[q].marked /\ quotes[p].ref = quotes[q].ref => p = q
  BY DEF BundleInv, AskedOnce
<1>2. CASE r.kind # "quote"
  BY <1>1, <1>2 DEF Serve
<1>3. CASE r.kind = "quote"
  <2> PICK n : n = Len(quotes) + 1
    OBVIOUS
  <2>1. quotes' = Append(quotes, NewQuote(r)) /\ RecordsOK
    BY <1>3 DEF Serve, BundleInv
  <2>2. /\ DOMAIN quotes' = DOMAIN quotes \cup {n} /\ quotes'[n].ref = r.ref
        /\ \A q \in DOMAIN quotes : quotes'[q] = quotes[q]
    BY <1>3, <2>1, QuoteServed
  <2>3. \A q \in DOMAIN quotes : ~(quotes[q].ref = r.ref /\ quotes[q].marked)
    BY <1>3 DEF Marked
  <2>4. QED
    BY <1>1, <2>2, <2>3
<1>4. QED
  BY <1>2, <1>3

\* The records stay as a run makes them, when a request adds what was missing.
LEMMA ServedClean ==
  ASSUME BundleInv, Clean, NEW r, RequestOK(r), Serve(r), bundle' = bundle,
         r.kind = "project" => projects = <<>>, r.kind = "quote" => Marked(r.ref) = {}
  PROVE  /\ \A p \in DOMAIN projects' : p = 1 /\ projects'[p] = NewProject'
         /\ AsMade(quotes')
         /\ invoice' # NoInvoice => invoice'.right /\ invoice'.draft /\ (bundle = "awarded" => invoice'.project = 1)
<1>1. /\ \A p \in DOMAIN projects : p = 1 /\ projects[p] = NewProject
      /\ AsMade(quotes)
      /\ invoice # NoInvoice => invoice.right /\ invoice.draft /\ (bundle = "awarded" => invoice.project = 1)
  BY DEF BundleInv, Untouched
<1>2. NewProject' = NewProject /\ RecordsOK
  BY DEF NewProject, Opening, BundleInv
<1>3. \A p \in DOMAIN projects' : p = 1 /\ projects'[p] = NewProject'
  <2>1. CASE r.kind = "project"
    <3> PICK n : n = Len(projects) + 1
      OBVIOUS
    <3>1. projects = <<>> /\ projects' = Append(projects, NewProject) /\ n = 1
      BY <2>1 DEF Serve
    <3>2. DOMAIN projects' = DOMAIN projects \cup {n} /\ projects'[n] = NewProject /\ DOMAIN projects = {}
      BY <1>2, <3>1, ProjectServed
    <3>3. QED
      BY <1>2, <3>1, <3>2
  <2>2. CASE r.kind # "project"
    BY <1>1, <1>2, <2>2 DEF Serve
  <2>3. QED
    BY <2>1, <2>2
<1>4. AsMade(quotes')
  <2>1. CASE r.kind = "quote"
    <3> PICK n : n = Len(quotes) + 1
      OBVIOUS
    <3>1. quotes' = Append(quotes, NewQuote(r))
      BY <2>1 DEF Serve
    <3>2. /\ DOMAIN quotes' = DOMAIN quotes \cup {n} /\ quotes'[n].ref = r.ref
          /\ \A q \in DOMAIN quotes : quotes'[q] = quotes[q]
          /\ quotes'[n].marked /\ quotes'[n].project = r.project /\ quotes'[n].right /\ quotes'[n].status = "draft"
      BY <1>2, <2>1, <3>1, QuoteServed
    <3>3. r.project = 1
      BY <1>1, <2>1 DEF RequestOK
    <3>4. \A q \in DOMAIN quotes : quotes[q].ref # r.ref
      BY <1>1, <2>1 DEF Marked, AsMade
    <3>5. QED
      BY <1>1, <3>2, <3>3, <3>4 DEF AsMade
  <2>2. CASE r.kind # "quote"
    BY <1>1, <2>2 DEF Serve
  <2>3. QED
    BY <2>1, <2>2
<1>5. invoice' # NoInvoice => invoice'.right /\ invoice'.draft /\ (bundle = "awarded" => invoice'.project = 1)
  <2>1. CASE r.kind = "invoice"
    <3>1. /\ invoice'.right = TRUE /\ invoice'.draft = TRUE /\ invoice'.project = r.project
      BY <2>1 DEF Serve
    <3>2. bundle = "awarded" => r.project = 1
      BY <1>1, <2>1 DEF RequestOK
    <3>3. QED
      BY <3>1, <3>2
  <2>2. CASE r.kind # "invoice"
    BY <1>1, <2>2 DEF Serve
  <2>3. QED
    BY <2>1, <2>2
<1>6. QED
  BY <1>3, <1>4, <1>5

\* The script goes on with what it asked for.
LEMMA AnsweredTo ==
  ASSUME BundleInv, script.at = "asking", NEW r, r = script.request, Serve(r), NEW next, script' = next,
         UNCHANGED <<bundle, late, chat, evidence, histories, blocked>>,
         next.at \in Places, PlaceOK(next)',
         next.at = "quote" => (~overtaken => ListsAll(next)') /\ (Clean => AsMade(next.listing)),
         ~touched => Established(next)'
  PROVE  BundleInv'
<1>1. /\ UNCHANGED <<bundle, late, chat, evidence, attempts, edits, overtaken, touched, blocked>>
      /\ From(script)' = next /\ script'.at # "asking" /\ script'.at # "idle"
  BY DEF histories, From, Places
<1>2. AskingOK(script) /\ RequestOK(r) /\ evidence = NoEvidence
  BY DEF BundleInv, ScriptOK, AskingOK
<1>3. RecordsOK' /\ DOMAIN projects \subseteq DOMAIN projects'
  BY <1>1, <1>2, RecordsServed DEF BundleInv
<1>4. late # NoRequest => late.attempt # attempts
  BY DEF BundleInv, LateOK
<1>5. LateOK'
  BY <1>1, <1>3, <1>4, ProjectsLast DEF BundleInv, LateOK
<1>6. ScriptOK'
  BY <1>1, <1>2 DEF ScriptOK, Places, NoEvidence
<1>7. /\ ~Late("project")' /\ ~Late("quote")' /\ ~Late("invoice")'
      /\ ~Asked("project")' /\ ~Asked("quote")' /\ ~Asked("invoice")'
  BY <1>1, <1>4 DEF Late, Asked
<1>8. ASSUME ~overtaken PROVE AskedOnce'
  <2>1. r.kind = "quote" => Marked(r.ref) = {}
    BY <1>8 DEF BundleInv, AskedOnce, Asked
  <2>2. QED
    BY <1>1, <1>2, <1>7, <1>8, <2>1, ServedOnce DEF AskedOnce
<1>9. ASSUME Clean PROVE Untouched'
  <2>1. /\ r.kind = "quote" => Marked(r.ref) = {}
        /\ r.kind = "project" => projects = <<>>
        /\ ~blocked
    BY <1>9 DEF BundleInv, AskedOnce, Untouched, Asked, Clean
  <2>2. /\ \A p \in DOMAIN projects' : p = 1 /\ projects'[p] = NewProject'
        /\ AsMade(quotes')
        /\ invoice' # NoInvoice => invoice'.right /\ invoice'.draft /\ (bundle = "awarded" => invoice'.project = 1)
    BY <1>1, <1>2, <1>9, <2>1, ServedClean
  <2>3. NoInvoice' = NoInvoice
    BY DEF NoInvoice
  <2>4. (From(script).at = "quote" => AsMade(From(script).listing))'
    BY <1>1, <1>9 DEF AsMade
  <2>5. AsMade(quotes)'
    BY <2>2 DEF AsMade
  <2>6. QED
    BY <1>1, <1>7, <2>1, <2>2, <2>3, <2>4, <2>5 DEF Untouched
<1>10. ASSUME ~touched PROVE VerifiedInRun'
  BY <1>1, <1>2, <1>7, <1>10 DEF VerifiedInRun, NoEvidence
<1>11. ASSUME Clean' PROVE Clean
  <2>1. invoice' = invoice \/ invoice = NoInvoice
    BY DEF Serve, Rejected
  <2>2. QED
    BY <1>1, <1>11, <2>1 DEF Clean, NoInvoice
<1>12. QED
  BY <1>1, <1>3, <1>5, <1>6, <1>8, <1>9, <1>10, <1>11 DEF BundleInv

\* The answer comes: a project, a quote, the invoice or completed work.
LEMMA AnsweredStep ==
  ASSUME BundleInv, Answered
  PROVE  BundleInv'
<1> PICK r, y, n, m : r = script.request /\ y = script.from /\ n = Len(projects) + 1 /\ m = Len(quotes) + 1
  OBVIOUS
<1>1. /\ script.at = "asking" /\ Serve(r) /\ From(script) = y
      /\ UNCHANGED <<bundle, late, chat, evidence, histories, blocked>>
      /\ bundle' = bundle /\ RecordsOK
  BY DEF Answered, From, BundleInv
<1>2. AskingOK(script) /\ RequestOK(r) /\ PlaceOK(y) /\ bundle \in {"business", "awarded"}
  BY <1>1 DEF BundleInv, ScriptOK, AskingOK, RecordsOK
<1>3. DOMAIN projects \subseteq DOMAIN projects' /\ PlaceOK(y)'
  <2>1. UNCHANGED <<bundle, chat, evidence, attempts, edits>>
    BY <1>1 DEF histories
  <2>2. DOMAIN projects \subseteq DOMAIN projects'
    BY <1>1, <1>2, <2>1, RecordsServed
  <2>3. QED
    BY <1>1, <1>2, <2>2, ProjectsLast
<1>4. ~touched => Established(y)
  BY <1>1 DEF BundleInv, VerifiedInRun
<1>5. CASE r.kind = "project"
  <2> PICK next : next = [at |-> AfterProject, project |-> n]
    OBVIOUS
  <2>1. /\ projects' = Append(projects, NewProject) /\ UNCHANGED <<quotes, invoice, work>>
    BY <1>1, <1>5 DEF Serve
  <2>2. Len(projects') = n /\ n \in DOMAIN projects' /\ Keyed' = Keyed \cup {n} /\ VerifyProject(n)'
    BY <1>1, <2>1, ProjectServed
  <2>3. script' = next
    BY <1>5, <2>2 DEF Answered
  <2>4. /\ next.at \in {"quotes", "invoice"} /\ next.project = n
        /\ next.at = "invoice" => bundle = "awarded"
    BY <1>2 DEF AfterProject
  <2>5. PlaceOK(next)'
    BY <2>2, <2>4 DEF PlaceOK, Places
  <2>6. ASSUME ~touched PROVE Established(next)'
    <3>1. Keyed = {}
      BY <1>1, <1>5, <2>6 DEF BundleInv, VerifiedInRun, Asked
    <3>2. (Keyed = {next.project})' /\ VerifyProject(next.project)'
      BY <2>2, <2>4, <3>1
    <3>3. QED
      BY <1>1, <2>4, <3>2 DEF Established
  <2>7. QED
    BY <1>1, <2>3, <2>4, <2>5, <2>6, AnsweredTo DEF Places
<1>6. CASE r.kind = "quote"
  <2>1. y.at = "quote" /\ r.project = y.project /\ r.ref \notin y.done /\ r.ref \in Quotes
    BY <1>2, <1>6 DEF AskingOK, RequestOK
  <2> PICK next : next = [at |-> "quote", project |-> y.project, listing |-> y.listing, done |-> y.done \cup {r.ref}]
    OBVIOUS
  <2>2. script' = next
    <3>1. script' = [y EXCEPT !.done = @ \cup {r.ref}]
      BY <1>6 DEF Answered
    <3>2. PICK p, l, d : p = y.project /\ l = y.listing /\ d = y.done
      OBVIOUS
    <3>3. y = [at |-> "quote", project |-> p, listing |-> l, done |-> d]
      BY <1>2, <2>1, <3>2 DEF PlaceOK
    <3>4. [y EXCEPT !.done = @ \cup {r.ref}] = [at |-> "quote", project |-> p, listing |-> l, done |-> d \cup {r.ref}]
      BY ONLY <3>3
    <3>5. QED
      BY <3>1, <3>2, <3>4
  <2>3. next.at = "quote" /\ next.project = y.project /\ next.listing = y.listing /\ next.done = y.done \cup {r.ref}
    OBVIOUS
  <2>4. /\ quotes' = Append(quotes, NewQuote(r)) /\ UNCHANGED <<projects, invoice, work>>
    BY <1>1, <1>6 DEF Serve
  <2>5. /\ DOMAIN quotes' = DOMAIN quotes \cup {m} /\ m \notin DOMAIN quotes
        /\ \A q \in DOMAIN quotes : quotes'[q] = quotes[q]
        /\ quotes'[m].marked /\ quotes'[m].ref = r.ref /\ quotes'[m].project = r.project
        /\ quotes'[m].right /\ quotes'[m].status = "draft"
        /\ Marked(r.ref)' = Marked(r.ref) \cup {m} /\ \A ref : ref # r.ref => Marked(ref)' = Marked(ref)
    <3>1. RecordsOK /\ RequestOK(r) /\ r.kind = "quote" /\ m = Len(quotes) + 1 /\ quotes' = Append(quotes, NewQuote(r))
      BY <1>1, <1>2, <1>6, <2>4
    <3>2. QED
      BY ONLY <3>1, QuoteServed
  <2>6. PlaceOK(next)'
    <3>1. y.project \in DOMAIN projects' /\ y.listing \in Seq(QuoteRows)
      BY <1>3, <2>1 DEF PlaceOK, Places
    <3>2. QED
      BY <2>3, <3>1 DEF PlaceOK, Places
  <2>7. ASSUME ~overtaken PROVE ListsAll(next)'
    <3>1. ListsAll(y)
      BY <1>1, <2>1, <2>7 DEF BundleInv, AskedOnce
    <3>2. QED
      BY <2>3, <2>5, <3>1 DEF ListsAll
  <2>8. Clean => AsMade(next.listing)
    BY <1>1, <2>1, <2>3 DEF BundleInv, Untouched
  <2>9. ASSUME ~touched PROVE Established(next)'
    <3>1. Established(y) /\ Marked(r.ref) = {}
      BY <1>1, <1>4, <1>6, <2>9 DEF BundleInv, VerifiedInRun, Asked
    <3>2. (Keyed = {next.project})' /\ VerifyProject(next.project)'
      BY <1>1, <2>1, <2>3, <2>4, <3>1 DEF Established, Places, Keyed, Listed, VerifyProject, Opening
    <3>3. /\ \A q \in DOMAIN next.listing : q \in DOMAIN quotes' /\ quotes'[q] = next.listing[q]
          /\ \A q \in DOMAIN quotes' : q \notin DOMAIN next.listing => quotes'[q].ref \in next.done
      BY <2>1, <2>3, <2>5, <3>1 DEF Established
    <3>4. QuoteVerified(r.ref, y.project)'
      BY <2>1, <2>5, <3>1 DEF QuoteVerified, VerifyQuote
    <3>5. ASSUME NEW ref \in y.done PROVE QuoteVerified(ref, y.project)'
      <4>1. ref # r.ref /\ Marked(ref)' = Marked(ref) /\ QuoteVerified(ref, y.project)
        BY <2>1, <2>5, <3>1, <3>5 DEF Established
      <4>2. PICK q \in Marked(ref) : Marked(ref) = {q} /\ VerifyQuote(quotes[q], y.project)
        BY <4>1 DEF QuoteVerified
      <4>3. q \in Marked(ref)' /\ Marked(ref)' = {q} /\ quotes'[q] = quotes[q]
        BY <2>5, <4>1, <4>2 DEF Marked
      <4>4. QED
        BY <4>2, <4>3 DEF QuoteVerified, VerifyQuote
    <3>6. \A ref \in next.done : QuoteVerified(ref, next.project)'
      BY <2>3, <3>4, <3>5
    <3>7. QED
      BY <1>1, <2>3, <3>2, <3>3, <3>6 DEF Established
  <2>10. QED
    BY <1>1, <2>2, <2>3, <2>6, <2>7, <2>8, <2>9, AnsweredTo DEF Places
<1>7. CASE r.kind = "invoice"
  <2> PICK next : next = [at |-> "work", project |-> y.project]
    OBVIOUS
  <2>1. next.at = "work" /\ next.project = y.project /\ script' = next
    BY <1>7 DEF Answered
  <2>2. y.at = "invoice" /\ (bundle = "awarded" => r.project = y.project)
    BY <1>2, <1>7 DEF AskingOK
  <2>3. /\ invoice' = [project |-> r.project, right |-> TRUE, draft |-> TRUE, by |-> "bundle"]
        /\ UNCHANGED <<projects, quotes, work>>
    BY <1>1, <1>7 DEF Serve
  <2>4. invoice' # NoInvoice /\ invoice'.right = TRUE /\ invoice'.draft = TRUE /\ invoice'.project = r.project
    BY <2>3 DEF NoInvoice
  <2>5. PlaceOK(next)'
    BY <1>3, <2>1, <2>2 DEF PlaceOK, Places
  <2>6. ASSUME ~touched PROVE Established(next)'
    <3>1. Established(y)
      BY <1>4, <2>6
    <3>2. (Keyed = {next.project})' /\ VerifyProject(next.project)'
      BY <1>1, <2>1, <2>2, <2>3, <3>1 DEF Established, Places, Keyed, Listed, VerifyProject, Opening
    <3>3. bundle = "business" => \A ref \in Quotes : QuoteVerified(ref, next.project)'
      BY <1>1, <2>1, <2>2, <2>3, <3>1 DEF Established, QuoteVerified, Marked, VerifyQuote
    <3>4. (invoice # NoInvoice /\ VerifyInvoice(next.project))'
      BY <1>1, <2>1, <2>2, <2>4 DEF VerifyInvoice, NoInvoice
    <3>5. QED
      BY <1>1, <2>1, <3>2, <3>3, <3>4 DEF Established
  <2>7. QED
    BY <1>1, <2>1, <2>5, <2>6, AnsweredTo DEF Places
<1>8. CASE r.kind = "work"
  <2>1. y.at = "lines" /\ r.project = y.project
    BY <1>2, <1>8 DEF AskingOK
  <2> PICK next : next = [at |-> "lines", project |-> y.project, todo |-> y.todo \ {r.line}]
    OBVIOUS
  <2>2. script' = next
    <3>1. script' = [y EXCEPT !.todo = @ \ {r.line}]
      BY <1>8 DEF Answered
    <3>2. PICK p, t : p = y.project /\ t = y.todo
      OBVIOUS
    <3>3. y = [at |-> "lines", project |-> p, todo |-> t]
      BY <1>2, <2>1, <3>2 DEF PlaceOK
    <3>4. [y EXCEPT !.todo = @ \ {r.line}] = [at |-> "lines", project |-> p, todo |-> t \ {r.line}]
      BY ONLY <3>3
    <3>5. QED
      BY <3>1, <3>2, <3>4
  <2>3. next.at = "lines" /\ next.project = y.project /\ next.todo = y.todo \ {r.line}
    OBVIOUS
  <2>4. work' = work \cup {<<r.project, r.line>>} /\ UNCHANGED <<projects, quotes, invoice>>
    BY <1>1, <1>8 DEF Serve
  <2>5. PlaceOK(next)'
    BY <1>3, <2>1, <2>3 DEF PlaceOK, Places
  <2>6. ASSUME ~touched PROVE Established(next)'
    <3>1. Established(y)
      BY <1>4, <2>6
    <3>2. (Keyed = {next.project})' /\ VerifyProject(next.project)'
      BY <1>1, <2>1, <2>3, <2>4, <3>1 DEF Established, Places, Keyed, Listed, VerifyProject, Opening
    <3>3. bundle = "business" => \A ref \in Quotes : QuoteVerified(ref, next.project)'
      BY <1>1, <2>1, <2>3, <2>4, <3>1 DEF Established, QuoteVerified, Marked, VerifyQuote
    <3>4. (invoice # NoInvoice /\ VerifyInvoice(next.project))'
      BY <1>1, <2>1, <2>3, <2>4, <3>1 DEF Established, VerifyInvoice, NoInvoice
    <3>5. bundle = "awarded" => \A l \in Lines : l \notin next.todo => <<next.project, l>> \in work'
      BY <2>1, <2>3, <2>4, <3>1 DEF Established
    <3>6. QED
      BY <1>1, <2>3, <3>2, <3>3, <3>4, <3>5 DEF Established
  <2>7. QED
    BY <1>1, <2>2, <2>3, <2>5, <2>6, AnsweredTo DEF Places
<1>9. QED
  BY <1>2, <1>5, <1>6, <1>7, <1>8 DEF RequestOK

\* An error is an answer that only others can have caused.
LEMMA NotServedStep ==
  ASSUME BundleInv, NotServed
  PROVE  BundleInv'
<1>1. script.at = "asking" /\ Rejected(script.request) /\ Refuse
  BY DEF NotServed
<1>2. AskingOK(script)
  BY <1>1 DEF BundleInv, ScriptOK
<1>3. ASSUME Clean PROVE FALSE
  <2>1. /\ \A p \in DOMAIN projects : projects[p].stage = Opening
        /\ Asked("invoice") => invoice = NoInvoice
    BY <1>3, NewRows DEF BundleInv, Untouched
  <2>2. Opening # "archived"
    BY DEF Opening
  <2>3. QED
    BY <1>1, <1>2, <2>1, <2>2 DEF Rejected, Asked, AskingOK, RequestOK
<1>4. QED
  BY <1>1, <1>3, RefuseStep

\* What the run was waiting for may be served later.
LEMMA DieStep ==
  ASSUME BundleInv, Die
  PROVE  BundleInv'
<1>1. /\ script # NoScript /\ script' = NoScript /\ script'.at = "idle" /\ From(script)' = NoScript
      /\ UNCHANGED <<bundle, projects, quotes, invoice, work, chat, evidence, attempts, edits, overtaken, touched, blocked>>
  BY DEF Die, NoScript, From, tables, histories
<1>2. script.at # "idle"
  <2>1. PlaceOK(From(script)) /\ (script.at = "idle" => From(script) = script)
    BY DEF BundleInv, ScriptOK, From
  <2>2. QED
    BY <1>1, <2>1 DEF PlaceOK
<1>3. RecordsOK' /\ attempts \in Nat
  BY <1>1 DEF BundleInv, RecordsOK, BundleTypeOK, ChatIsWhole
<1>4. ScriptOK'
  BY <1>1 DEF ScriptOK, PlaceOK, Places
<1>5. late # NoRequest => late.attempt # attempts
  BY <1>2 DEF BundleInv, LateOK
<1>6. \/ late' = late
      \/ script.at = "asking" /\ late'.attempt = attempts /\ late'.request = script.request
  BY DEF Die
<1>7. \A kind \in {"project", "quote", "invoice"} : Late(kind)' => Asked(kind) /\ late'.request = script.request
  BY <1>1, <1>5, <1>6 DEF Late, Asked, NoRequest
<1>8. script.at = "asking" => RequestOK(script.request)
  BY DEF BundleInv, ScriptOK, AskingOK
<1>9. LateOK'
  BY <1>1, <1>3, <1>6, <1>8, ProjectsLast DEF BundleInv, LateOK, NoRequest
<1>10. ~Asked("project")' /\ ~Asked("quote")' /\ ~Asked("invoice")'
  BY <1>1 DEF Asked
<1>11. ASSUME ~overtaken PROVE AskedOnce'
  <2>1. (Late("quote") => Marked(late.request.ref) = {})'
    BY <1>1, <1>7, <1>11 DEF BundleInv, AskedOnce, Marked
  <2>2. QED
    BY <1>1, <1>10, <1>11, <2>1 DEF BundleInv, AskedOnce
<1>12. ASSUME Clean PROVE Untouched'
  <2>1. /\ \A p \in DOMAIN projects : p = 1 /\ projects[p] = NewProject
        /\ AsMade(quotes)
        /\ invoice # NoInvoice => invoice.right /\ invoice.draft /\ (bundle = "awarded" => invoice.project = 1)
        /\ Asked("project") => projects = <<>>
        /\ Asked("invoice") => invoice = NoInvoice
        /\ ~blocked
    BY <1>12 DEF BundleInv, Untouched
  <2>2. (Late("project")' => projects = <<>>) /\ (Late("invoice")' => invoice = NoInvoice)
    BY <1>7, <2>1
  <2>3. NoScript.at # "quote"
    BY DEF NoScript
  <2>4. QED
    BY <1>1, <1>10, <2>1, <2>2, <2>3 DEF Untouched, AsMade, NewProject, Opening
<1>13. ASSUME ~touched PROVE VerifiedInRun'
  <2>1. evidence = NoEvidence
    BY <1>2 DEF BundleInv, ScriptOK
  <2>2. QED
    BY <1>1, <1>10, <2>1 DEF VerifiedInRun, Established, NoScript, Places, NoEvidence
<1>14. QED
  BY <1>1, <1>3, <1>4, <1>9, <1>11, <1>12, <1>13 DEF BundleInv, Clean

\* What the run has verified is complete when it ends.
LEMMA ReportStep ==
  ASSUME BundleInv, Report
  PROVE  BundleInv'
<1> PICK p : p = script.project
  OBVIOUS
<1>1. /\ script.at = "lines" /\ script.todo = {} /\ From(script) = script
      /\ script' = NoScript /\ script'.at = "idle" /\ From(script)' = NoScript /\ evidence' = [project |-> p]
      /\ UNCHANGED <<bundle, projects, quotes, invoice, work, late, chat, attempts, edits, overtaken, touched, blocked>>
  BY DEF Report, NoScript, From, tables, histories
<1>2. p \in DOMAIN projects
  BY <1>1 DEF BundleInv, ScriptOK, PlaceOK, Places
<1>3. RecordsOK'
  BY <1>1, <1>2 DEF BundleInv, RecordsOK, BundleTypeOK, ChatIsWhole
<1>4. ScriptOK'
  BY <1>1 DEF ScriptOK, PlaceOK, Places
<1>5. late # NoRequest => late.attempt # attempts
  BY <1>1 DEF BundleInv, LateOK
<1>6. LateOK'
  BY <1>1, ProjectsLast DEF BundleInv, LateOK
<1>7. /\ ~Late("project")' /\ ~Late("quote")' /\ ~Late("invoice")'
      /\ ~Asked("project")' /\ ~Asked("quote")' /\ ~Asked("invoice")'
  BY <1>1, <1>5 DEF Late, Asked
<1>8. ASSUME ~overtaken PROVE AskedOnce'
  BY <1>1, <1>7, <1>8 DEF BundleInv, AskedOnce, NoScript
<1>9. ASSUME Clean PROVE Untouched'
  BY <1>1, <1>7, <1>9 DEF BundleInv, Untouched, AsMade, NoScript, NewProject, Opening
<1>10. ASSUME ~touched PROVE VerifiedInRun'
  <2>1. Established(script)
    BY <1>1, <1>10 DEF BundleInv, VerifiedInRun
  <2>2. Complete(p)
    <3>1. Keyed = {p} /\ VerifyProject(p) /\ invoice # NoInvoice /\ VerifyInvoice(p)
      BY <1>1, <2>1 DEF Established, Places
    <3>2. bundle = "business" => \A ref \in Quotes : \E q \in Marked(ref) : Marked(ref) = {q} /\ VerifyQuote(quotes[q], p)
      BY <1>1, <2>1 DEF Established, QuoteVerified
    <3>3. bundle = "awarded" => {p} \X Lines \subseteq work
      BY <1>1, <2>1 DEF Established
    <3>4. QED
      BY <3>1, <3>2, <3>3 DEF Complete
  <2>3. Complete(p)'
    BY <1>1, <2>2 DEF Complete, Keyed, Listed, VerifyProject, VerifyInvoice, VerifyQuote, Marked, Opening
  <2>4. Established(From(script))'
    BY <1>1 DEF Established, NoScript, Places
  <2>5. QED
    BY <1>1, <1>7, <2>3, <2>4 DEF VerifiedInRun
<1>11. QED
  BY <1>1, <1>3, <1>4, <1>6, <1>8, <1>9, <1>10 DEF BundleInv, Clean

\* A late request of the run that ended last adds what was missing; an older one
\* may do so twice.
LEMMA ServeLateStep ==
  ASSUME BundleInv, ServeLate
  PROVE  BundleInv'
<1> PICK r : r = late.request
  OBVIOUS
<1>1. /\ late # NoRequest /\ late' = NoRequest /\ overtaken' = (overtaken \/ attempts > late.attempt) /\ touched' = TRUE
      /\ UNCHANGED <<bundle, script, chat, evidence, attempts, edits, blocked>>
      /\ Serve(r) \/ (Rejected(r) /\ UNCHANGED <<projects, quotes, invoice, work>>)
  BY DEF ServeLate, tables
<1>2. /\ RequestOK(r) /\ late.attempt \in Nat /\ late.attempt <= attempts /\ attempts \in Nat
      /\ late.attempt = attempts => script.at = "idle"
  BY <1>1 DEF BundleInv, LateOK, RecordsOK
<1>3. RecordsOK' /\ DOMAIN projects \subseteq DOMAIN projects'
  <2>1. CASE Serve(r)
    BY <1>1, <1>2, <2>1, RecordsServed DEF BundleInv
  <2>2. CASE UNCHANGED <<projects, quotes, invoice, work>>
    BY <1>1, <2>2 DEF BundleInv, RecordsOK, BundleTypeOK, ChatIsWhole
  <2>3. QED
    BY <1>1, <2>1, <2>2
<1>4. ScriptOK'
  <2>1. From(script)' = From(script)
    BY <1>1 DEF From
  <2>2. QED
    BY <1>1, <1>3, <2>1, ProjectsLast DEF BundleInv, ScriptOK, NoEvidence
<1>5. LateOK'
  BY <1>1 DEF LateOK, NoRequest
<1>6. CASE overtaken'
  BY <1>1, <1>3, <1>4, <1>5, <1>6 DEF BundleInv, Clean
<1>7. CASE ~overtaken'
  <2>1. ~overtaken /\ late.attempt = attempts /\ script.at = "idle"
    <3>1. ~overtaken /\ ~(attempts > late.attempt)
      BY ONLY <1>1, <1>7, Zenon
    <3>2. late.attempt = attempts
      BY ONLY <1>2, <3>1, SMT
    <3>3. QED
      BY <1>2, <3>1, <3>2
  <2>2. /\ ~Late("project")' /\ ~Late("quote")' /\ ~Late("invoice")'
        /\ ~Asked("project")' /\ ~Asked("quote")' /\ ~Asked("invoice")'
        /\ From(script)'.at # "quote"
    BY <1>1, <2>1 DEF Late, Asked, From, NoRequest
  <2>3. r.kind = "quote" => Marked(r.ref) = {}
    BY <1>1, <2>1 DEF BundleInv, AskedOnce, Late
  <2>4. AskedOnce'
    <3>1. CASE Serve(r)
      BY <1>2, <2>1, <2>2, <2>3, <3>1, ServedOnce DEF AskedOnce
    <3>2. CASE UNCHANGED <<projects, quotes, invoice, work>>
      BY <2>1, <2>2, <3>2 DEF BundleInv, AskedOnce
    <3>3. QED
      BY <1>1, <3>1, <3>2
  <2>5. ASSUME Clean PROVE Untouched'
    <3>1. (r.kind = "project" => projects = <<>>) /\ ~blocked
      BY <1>1, <2>1, <2>5 DEF BundleInv, Untouched, Late
    <3>2. CASE Serve(r)
      <4>1. /\ \A p \in DOMAIN projects' : p = 1 /\ projects'[p] = NewProject'
            /\ AsMade(quotes')
            /\ invoice' # NoInvoice => invoice'.right /\ invoice'.draft /\ (bundle = "awarded" => invoice'.project = 1)
        BY <1>1, <1>2, <2>3, <2>5, <3>1, <3>2, ServedClean
      <4>2. AsMade(quotes)' /\ NoInvoice' = NoInvoice
        BY <4>1 DEF AsMade, NoInvoice
      <4>3. QED
        BY <1>1, <2>2, <3>1, <4>1, <4>2 DEF Untouched
    <3>3. CASE UNCHANGED <<projects, quotes, invoice, work>>
      BY <1>1, <2>2, <2>5, <3>1, <3>3 DEF BundleInv, Untouched, AsMade, NewProject, Opening
    <3>4. QED
      BY <1>1, <3>2, <3>3
  <2>6. ASSUME Clean' PROVE Clean
    <3>1. invoice' = invoice \/ invoice = NoInvoice
      BY <1>1 DEF Serve, Rejected
    <3>2. QED
      BY <1>1, <2>1, <2>6, <3>1 DEF Clean, NoInvoice
  <2>7. QED
    BY <1>1, <1>3, <1>4, <1>5, <2>4, <2>5, <2>6 DEF BundleInv
<1>8. QED
  BY <1>6, <1>7

----------------------------------------------------------------------------
\* The chat and the office

\* Nothing but what the chat is about to write has changed.
LEMMA OnlyTheChat ==
  ASSUME BundleInv,
         UNCHANGED <<bundle, projects, quotes, invoice, work, script, late, evidence, attempts, edits, overtaken, touched, blocked>>,
         chat'.at = "commit" => chat'.project \in {0} \cup DOMAIN projects /\ chat'.create \in BOOLEAN /\ chat'.right \in BOOLEAN
  PROVE  BundleInv'
<1>1. RecordsOK'
  BY DEF BundleInv, RecordsOK, BundleTypeOK, ChatIsWhole
<1>2. From(script)' = From(script)
  BY DEF From
<1>3. ScriptOK' /\ LateOK'
  BY <1>2, ProjectsLast DEF BundleInv, ScriptOK, LateOK, NoEvidence
<1>4. ASSUME ~overtaken PROVE AskedOnce'
  <2>1. AskedOnce
    BY <1>4 DEF BundleInv
  <2>2. QED
    BY <1>2, <2>1 DEF AskedOnce, Asked, Late, Marked, ListsAll
<1>5. ASSUME Clean PROVE Untouched'
  <2>1. Untouched
    BY <1>5 DEF BundleInv
  <2>2. QED
    BY <1>2, <2>1 DEF Untouched, AsMade, Asked, Late, NewProject, Opening
<1>6. ASSUME ~touched PROVE VerifiedInRun'
  <2>1. VerifiedInRun
    BY <1>6 DEF BundleInv
  <2>2. Established(From(script))'
    BY <1>2, <2>1 DEF VerifiedInRun, Established, QuoteVerified, Marked, Keyed, Listed, VerifyProject, VerifyQuote, VerifyInvoice, Opening
  <2>3. evidence # NoEvidence => Complete(evidence.project)'
    BY <2>1 DEF VerifiedInRun, Complete, Keyed, Listed, VerifyProject, VerifyInvoice, VerifyQuote, Marked, Opening
  <2>4. (Asked("project") => Keyed = {})' /\ (Asked("quote") => Marked(script.request.ref) = {})'
    BY <2>1 DEF VerifiedInRun, Asked, Keyed, Listed, Marked
  <2>5. QED
    BY <2>2, <2>3, <2>4 DEF VerifiedInRun, NoEvidence
<1>7. QED
  BY <1>1, <1>3, <1>4, <1>5, <1>6 DEF BundleInv, Clean

\* Someone else has written: no quote is added, and rows stay what they are of.
LEMMA WrittenByOthers ==
  ASSUME BundleInv, touched' = TRUE, ~Clean', RecordsOK', UNCHANGED <<bundle, script, late, evidence, attempts, overtaken>>,
         DOMAIN projects \subseteq DOMAIN projects', DOMAIN quotes' = DOMAIN quotes,
         \A q \in DOMAIN quotes : quotes'[q].ref = quotes[q].ref /\ (quotes'[q].marked => quotes[q].marked)
  PROVE  BundleInv'
<1>1. From(script)' = From(script)
  BY DEF From
<1>2. ScriptOK' /\ LateOK'
  BY <1>1, ProjectsLast DEF BundleInv, ScriptOK, LateOK, NoEvidence
<1>3. ASSUME ~overtaken PROVE AskedOnce'
  <2>1. AskedOnce
    BY <1>3 DEF BundleInv
  <2>2. \A ref : Marked(ref) = {} => Marked(ref)' = {}
    BY DEF Marked
  <2>3. ListsAll(From(script)) => ListsAll(From(script))'
    BY <1>1 DEF ListsAll
  <2>4. /\ Asked("quote")' => Asked("quote") /\ script'.request = script.request
        /\ Late("quote")' => Late("quote") /\ late'.request = late.request
    BY DEF Asked, Late
  <2>5. QED
    BY <1>1, <2>1, <2>2, <2>3, <2>4 DEF AskedOnce
<1>4. QED
  BY <1>2, <1>3 DEF BundleInv

\* The intake from the chat reads the records,
LEMMA ReadChatStep ==
  ASSUME BundleInv, NEW create \in BOOLEAN, NEW right \in BOOLEAN, ReadChat(create, right)
  PROVE  BundleInv'
<1> PICK p : p = IF Conflicting # {} THEN CHOOSE q \in Conflicting : TRUE ELSE 0
  OBVIOUS
<1>1. /\ UNCHANGED <<bundle, projects, quotes, invoice, work, script, late, evidence, attempts, edits, overtaken, touched, blocked>>
      /\ chat' = [at |-> "commit", right |-> right, project |-> p, create |-> create /\ Conflicting = {}]
  BY DEF ReadChat, tables, histories
<1>2. p \in {0} \cup DOMAIN projects
  <2>1. CASE Conflicting # {}
    <3>1. p \in Conflicting
      BY <2>1
    <3>2. QED
      BY <3>1, RecordFacts DEF BundleInv
  <2>2. CASE Conflicting = {}
    BY <2>2
  <2>3. QED
    BY <2>1, <2>2
<1>3. PICK c \in BOOLEAN : c = (create /\ Conflicting = {})
  OBVIOUS
<1>4. chat'.project = p /\ chat'.create = c /\ chat'.right = right
  BY <1>1, <1>3
<1>5. QED
  BY <1>1, <1>2, <1>4, OnlyTheChat

\* and commits its invoice, with a project of its own or without.
LEMMA CommitChatStep ==
  ASSUME BundleInv, CommitChat
  PROVE  BundleInv'
<1>1. /\ chat.at = "commit" /\ chat' = NoChat /\ chat'.at # "commit"
      /\ UNCHANGED <<bundle, quotes, work, script, late, evidence, attempts, edits, overtaken, blocked>>
      /\ RecordsOK
  BY DEF CommitChat, NoChat, BundleInv
<1>2. CASE UNCHANGED <<projects, invoice, touched>>
  BY <1>1, <1>2, OnlyTheChat
<1>3. CASE /\ invoice = NoInvoice
           /\ projects' = IF chat.create
                          THEN Append(projects, [NewProject EXCEPT !.key = FALSE, !.stage = "construction", !.by = "chat"])
                          ELSE projects
           /\ invoice' = [project |-> IF chat.create THEN Len(projects') ELSE chat.project,
                          right |-> chat.right, draft |-> TRUE, by |-> "chat"]
           /\ touched' = TRUE
  <2> PICK row, n, p : /\ row = [NewProject EXCEPT !.key = FALSE, !.stage = "construction", !.by = "chat"]
                       /\ n = Len(projects) + 1 /\ p = IF chat.create THEN Len(projects') ELSE chat.project
    OBVIOUS
  <2>1. row \in ProjectRows
    BY DEF NewProject, ProjectRows
  <2>2. chat.project \in {0} \cup DOMAIN projects /\ chat.create \in BOOLEAN /\ chat.right \in BOOLEAN
    BY <1>1 DEF RecordsOK
  <2>3. \A q \in DOMAIN projects : projects[q].by # "chat"
    BY <1>1, <1>3 DEF RecordsOK, ChatIsWhole, NoInvoice
  <2>4. /\ projects' \in Seq(ProjectRows) /\ DOMAIN projects \subseteq DOMAIN projects'
        /\ p \in {0} \cup DOMAIN projects' /\ p \in Nat
        /\ \A q \in DOMAIN projects' : projects'[q].by = "chat" => q = p
    <3>1. CASE chat.create
      <4>1. projects' = Append(projects, row) /\ projects \in Seq(ProjectRows)
        BY <1>1, <1>3, <3>1 DEF RecordsOK
      <4>2. /\ projects' \in Seq(ProjectRows) /\ Len(projects) \in Nat /\ Len(projects') = n
            /\ DOMAIN projects' = DOMAIN projects \cup {n}
            /\ \A q \in DOMAIN projects : projects'[q] = projects[q]
        BY <2>1, <4>1, Appended
      <4>3. p = n /\ n \in Nat
        BY <3>1, <4>2
      <4>4. QED
        BY <2>3, <4>2, <4>3
    <3>2. CASE ~chat.create
      BY <1>1, <1>3, <2>2, <2>3, <3>2, RecordFacts DEF RecordsOK
    <3>3. QED
      BY <3>1, <3>2
  <2>5. invoice' = [project |-> p, right |-> chat.right, draft |-> TRUE, by |-> "chat"]
    BY <1>3
  <2>6. invoice' \in InvoiceRows /\ invoice'.project = p /\ invoice'.by = "chat"
    BY <2>2, <2>4, <2>5 DEF InvoiceRows
  <2>7. BundleTypeOK'
    BY <1>1, <2>4, <2>6 DEF RecordsOK, BundleTypeOK
  <2>8. ChatIsWhole'
    BY <2>4, <2>6 DEF ChatIsWhole
  <2>9. RecordsOK'
    BY <1>1, <2>4, <2>6, <2>7, <2>8 DEF RecordsOK
  <2>10. ~Clean'
    BY <2>6 DEF Clean
  <2>11. QED
    BY <1>1, <1>3, <2>4, <2>9, <2>10, WrittenByOthers
<1>4. QED
  BY <1>2, <1>3 DEF CommitChat

\* The office edits rows of the tables, and adds none.
LEMMA EditsStep ==
  ASSUME BundleInv, Edits, projects' \in Seq(ProjectRows), quotes' \in Seq(QuoteRows),
         DOMAIN projects' = DOMAIN projects, DOMAIN quotes' = DOMAIN quotes,
         \A p \in DOMAIN projects : projects'[p].by = projects[p].by,
         \A q \in DOMAIN quotes : /\ quotes'[q].ref = quotes[q].ref /\ quotes'[q].project = quotes[q].project
                                  /\ quotes'[q].marked => quotes[q].marked,
         invoice' = NoInvoice \/ invoice' \in InvoiceRows, invoice'.project = invoice.project, invoice'.by = invoice.by
  PROVE  BundleInv'
<1>1. /\ edits' = edits + 1 /\ touched' = TRUE /\ RecordsOK
      /\ UNCHANGED <<bundle, work, script, late, chat, evidence, attempts, overtaken, blocked>>
  BY DEF Edits, BundleInv
<1>2. BundleTypeOK'
  BY <1>1 DEF RecordsOK, BundleTypeOK
<1>3. ChatIsWhole'
  BY <1>1 DEF RecordsOK, ChatIsWhole
<1>4. RecordsOK'
  BY <1>1, <1>2, <1>3 DEF RecordsOK
<1>5. edits' # 0
  BY <1>1 DEF RecordsOK
<1>6. QED
  BY <1>1, <1>4, <1>5, WrittenByOthers DEF Clean

\* A row that is edited stays a row of its table.
LEMMA Edited ==
  ASSUME NEW S, NEW table \in Seq(S), NEW i \in DOMAIN table, NEW row \in S
  PROVE  /\ [table EXCEPT ![i] = row] \in Seq(S) /\ DOMAIN [table EXCEPT ![i] = row] = DOMAIN table
         /\ [table EXCEPT ![i] = row][i] = row
         /\ \A j \in DOMAIN table \ {i} : [table EXCEPT ![i] = row][j] = table[j]
<1>1. Len(table) \in Nat /\ DOMAIN table = 1..Len(table)
  BY LenProperties
<1>2. [table EXCEPT ![i] = row] \in Seq(S)
  BY <1>1, ExceptSeq
<1>3. QED
  BY <1>2

\* The office edits a project,
LEMMA EditProjectStep ==
  ASSUME BundleInv, NEW p \in DOMAIN projects, EditProject(p)
  PROVE  BundleInv'
<1>1. RecordsOK /\ Edits /\ UNCHANGED <<quotes, invoice>> /\ projects \in Seq(ProjectRows) /\ projects[p] \in ProjectRows
  BY RecordFacts DEF EditProject, BundleInv, RecordsOK
<1>2. PICK row \in ProjectRows : projects' = [projects EXCEPT ![p] = row] /\ row.by = projects[p].by
  <2>1. PICK a, d : a = projects[p] /\ d = ~projects[p].deleted
    OBVIOUS
  <2>2. a \in ProjectRows /\ d \in BOOLEAN
    BY <1>1, <2>1 DEF ProjectRows
  <2>3. \E row \in {[a EXCEPT !.key = FALSE], [a EXCEPT !.named = FALSE], [a EXCEPT !.stage = "archived"],
                    [a EXCEPT !.stage = "awarded"], [a EXCEPT !.deleted = d]} :
          projects' = [projects EXCEPT ![p] = row]
    BY <2>1 DEF EditProject
  <2>4. \A row \in {[a EXCEPT !.key = FALSE], [a EXCEPT !.named = FALSE], [a EXCEPT !.stage = "archived"],
                    [a EXCEPT !.stage = "awarded"], [a EXCEPT !.deleted = d]} : row \in ProjectRows /\ row.by = a.by
    BY <2>2 DEF ProjectRows
  <2>5. QED
    BY <2>1, <2>3, <2>4
<1>3. /\ projects' \in Seq(ProjectRows) /\ DOMAIN projects' = DOMAIN projects /\ projects'[p] = row
      /\ \A j \in DOMAIN projects \ {p} : projects'[j] = projects[j]
  BY <1>1, <1>2, Edited
<1>4. \A j \in DOMAIN projects : projects'[j].by = projects[j].by
  BY <1>2, <1>3
<1>5. QED
  BY <1>1, <1>3, <1>4, EditsStep DEF RecordsOK

\* a quote and the project of it,
LEMMA EditQuoteStep ==
  ASSUME BundleInv, NEW q \in DOMAIN quotes, EditQuote(q)
  PROVE  BundleInv'
<1>1. /\ RecordsOK /\ Edits /\ UNCHANGED invoice /\ projects \in Seq(ProjectRows) /\ quotes \in Seq(QuoteRows)
      /\ quotes[q] \in QuoteRows /\ quotes[q].project \in DOMAIN projects
  BY RecordFacts DEF EditQuote, BundleInv, RecordsOK
<1>2. PICK p \in DOMAIN projects : p = quotes[q].project
  BY <1>1
<1>3. PICK a, b : a = quotes[q] /\ b = projects[p]
  OBVIOUS
<1>4. a \in QuoteRows /\ b \in ProjectRows
  BY <1>1, <1>3, RecordFacts
<1>5. PICK row \in QuoteRows :
        quotes' = [quotes EXCEPT ![q] = row] /\ row.ref = a.ref /\ row.project = a.project /\ (row.marked => a.marked)
  <2>1. \E row \in {[a EXCEPT !.status = "draft", !.marked = FALSE], [a EXCEPT !.status = "draft", !.right = FALSE]} :
          quotes' = [quotes EXCEPT ![q] = row]
    BY <1>3 DEF EditQuote
  <2>2. \A row \in {[a EXCEPT !.status = "draft", !.marked = FALSE], [a EXCEPT !.status = "draft", !.right = FALSE]} :
          row \in QuoteRows /\ row.ref = a.ref /\ row.project = a.project /\ (row.marked => a.marked)
    BY <1>4 DEF QuoteRows
  <2>3. QED
    BY <2>1, <2>2
<1>6. PICK new \in ProjectRows : projects' = [projects EXCEPT ![p] = new] /\ new.by = b.by
  <2>1. projects' = [projects EXCEPT ![p] = [b EXCEPT !.owned = FALSE]]
    BY <1>2, <1>3 DEF EditQuote
  <2>2. [b EXCEPT !.owned = FALSE] \in ProjectRows /\ [b EXCEPT !.owned = FALSE].by = b.by
    BY <1>4 DEF ProjectRows
  <2>3. QED
    BY <2>1, <2>2
<1>7. /\ quotes' \in Seq(QuoteRows) /\ DOMAIN quotes' = DOMAIN quotes /\ quotes'[q] = row
      /\ \A j \in DOMAIN quotes \ {q} : quotes'[j] = quotes[j]
  BY <1>1, <1>5, Edited
<1>8. /\ projects' \in Seq(ProjectRows) /\ DOMAIN projects' = DOMAIN projects /\ projects'[p] = new
      /\ \A j \in DOMAIN projects \ {p} : projects'[j] = projects[j]
  BY <1>1, <1>6, Edited
<1>9. \A j \in DOMAIN quotes : /\ quotes'[j].ref = quotes[j].ref /\ quotes'[j].project = quotes[j].project
                               /\ quotes'[j].marked => quotes[j].marked
  BY <1>3, <1>5, <1>7
<1>10. \A j \in DOMAIN projects : projects'[j].by = projects[j].by
  BY <1>3, <1>6, <1>8
<1>11. QED
  BY <1>1, <1>7, <1>8, <1>9, <1>10, EditsStep DEF RecordsOK

\* the status of a quote,
LEMMA MoveQuoteStep ==
  ASSUME BundleInv, NEW q \in DOMAIN quotes, MoveQuote(q)
  PROVE  BundleInv'
<1>1. /\ RecordsOK /\ Edits /\ UNCHANGED <<projects, invoice>> /\ projects \in Seq(ProjectRows) /\ quotes \in Seq(QuoteRows)
      /\ quotes[q] \in QuoteRows
  BY RecordFacts DEF MoveQuote, BundleInv, RecordsOK
<1>2. PICK a \in QuoteRows : a = quotes[q]
  BY <1>1
<1>3. PICK row \in QuoteRows :
        quotes' = [quotes EXCEPT ![q] = row] /\ row.ref = a.ref /\ row.project = a.project /\ (row.marked => a.marked)
  <2>1. \E row \in {[a EXCEPT !.status = "closed"], [a EXCEPT !.status = "closed", !.marked = FALSE],
                    [a EXCEPT !.status = "issued"]} :
          quotes' = [quotes EXCEPT ![q] = row]
    BY <1>2 DEF MoveQuote
  <2>2. \A row \in {[a EXCEPT !.status = "closed"], [a EXCEPT !.status = "closed", !.marked = FALSE],
                    [a EXCEPT !.status = "issued"]} :
          row \in QuoteRows /\ row.ref = a.ref /\ row.project = a.project /\ (row.marked => a.marked)
    BY <1>2 DEF QuoteRows
  <2>3. QED
    BY <2>1, <2>2
<1>4. /\ quotes' \in Seq(QuoteRows) /\ DOMAIN quotes' = DOMAIN quotes /\ quotes'[q] = row
      /\ \A j \in DOMAIN quotes \ {q} : quotes'[j] = quotes[j]
  BY <1>1, <1>3, Edited
<1>5. \A j \in DOMAIN quotes : /\ quotes'[j].ref = quotes[j].ref /\ quotes'[j].project = quotes[j].project
                               /\ quotes'[j].marked => quotes[j].marked
  BY <1>2, <1>3, <1>4
<1>6. QED
  BY <1>1, <1>4, <1>5, EditsStep DEF RecordsOK

\* or the invoice.
LEMMA MoveInvoiceStep ==
  ASSUME BundleInv, MoveInvoice
  PROVE  BundleInv'
<1>1. /\ RecordsOK /\ Edits /\ UNCHANGED <<projects, quotes>> /\ projects \in Seq(ProjectRows) /\ quotes \in Seq(QuoteRows)
      /\ invoice \in InvoiceRows
  BY DEF MoveInvoice, BundleInv, RecordsOK
<1>2. PICK d \in BOOLEAN : invoice' = [invoice EXCEPT !.draft = d]
  BY <1>1 DEF MoveInvoice, InvoiceRows
<1>3. invoice' \in InvoiceRows /\ invoice'.project = invoice.project /\ invoice'.by = invoice.by
  BY <1>1, <1>2 DEF InvoiceRows
<1>4. QED
  BY <1>1, <1>3, EditsStep

----------------------------------------------------------------------------
\* Every step keeps the invariant.
LEMMA BundleStep ==
  ASSUME BundleInv, [BundleNext]_bundleVars
  PROVE  BundleInv'
<1>1. CASE UNCHANGED bundleVars
  <2>1. UNCHANGED <<bundle, projects, quotes, invoice, work, script, late, chat, evidence, attempts, edits, overtaken, touched, blocked>>
    BY <1>1 DEF bundleVars
  <2>2. chat'.at = "commit" => chat'.project \in {0} \cup DOMAIN projects /\ chat'.create \in BOOLEAN /\ chat'.right \in BOOLEAN
    BY <2>1 DEF BundleInv, RecordsOK
  <2>3. QED
    BY <2>1, <2>2, OnlyTheChat
<1>2. CASE FindProject \/ ListQuotes \/ QuotesDone \/ FindInvoice \/ ListWork \/ Report
  BY <1>2, FindProjectStep, ListQuotesStep, QuotesDoneStep, FindInvoiceStep, ListWorkStep, ReportStep
<1>3. CASE (\E ref \in Quotes : FindQuote(ref)) \/ (\E line \in Lines : SendLine(line))
  BY <1>3, FindQuoteStep, SendLineStep
<1>4. CASE Answered \/ NotServed \/ Die \/ ServeLate
  BY <1>4, AnsweredStep, NotServedStep, DieStep, ServeLateStep
<1>5. CASE (\E create, right \in BOOLEAN : ReadChat(create, right)) \/ CommitChat
  BY <1>5, ReadChatStep, CommitChatStep
<1>6. CASE \/ \E p \in DOMAIN projects : EditProject(p)
           \/ \E q \in DOMAIN quotes : EditQuote(q) \/ MoveQuote(q)
           \/ MoveInvoice
  BY <1>6, EditProjectStep, EditQuoteStep, MoveQuoteStep, MoveInvoiceStep
<1>7. QED
  BY <1>1, <1>2, <1>3, <1>4, <1>5, <1>6 DEF BundleNext

\* The promise of the bundles (ops/scripts/production_business_import.py,
\* production_awarded_invoice_import.py): while no request is served after the next
\* run has begun, nothing is imported twice that has its mark, wherever runs end;
\* a run refuses what an edit or the chat has changed and nothing else; and what a
\* run reports is there, once, until something but the script writes.
THEOREM BundlesAreImportedOnce == BundleSpec => []BundlesHold
<1>1. BundleInit => BundleInv
  BY BundleInitInv
<1>2. BundleInv /\ [BundleNext]_bundleVars => BundleInv'
  BY BundleStep
<1>3. BundleInv => BundlesHold
  BY BundleInvHolds
<1>4. QED
  BY <1>1, <1>2, <1>3, PTL DEF BundleSpec

-----------------------------------------------------------------------------
(* The registry.                                                           *)

\* A checkout of its own repository, which never changes once it is there
Cloned(p) == checkouts[DirectoryOf[p]] = RepositoryOf[p]
\* A project that may be in the file
Enrolled(p) == p \in Enrolments /\ Cloned(p) /\ RepositoryOf[p] \in labelled

\* What a directory of the workspace holds
Repositories == {NoRepository} \cup Range(RepositoryOf)

\* The places of a registration, by what it has done before them
AfterVerification == {"labels", "load", "read", "replace", "reload", "source", "restart", "health"}
AfterLabels == AfterVerification \ {"labels"}
InRegistry == {"reload", "source", "restart", "health"}

\* What a registration has found when it comes to each place.
RunOK(run) ==
  /\ run.at \in {"idle", "clone", "stage", "rename", "identity"} \cup AfterVerification
  /\ run.at # "idle" => run.project \in Enrolments
  /\ run.at \notin {"idle", "read", "replace"} => run = [at |-> run.at, project |-> run.project]
  /\ run.at \in AfterVerification => Cloned(run.project)
  /\ run.at \in AfterLabels => RepositoryOf[run.project] \in labelled
  /\ run.at \in {"read", "replace"} => run.loaded \in Seq(Enrolments)
  /\ run.at = "replace" => run.payload \in Seq(Enrolments) /\ \A i \in 1..Len(run.payload) : Enrolled(run.payload[i])

\* While no file was replaced that had changed, the file grows by one project at
\* a time, and what a registration has loaded can take its project.
GrowsWith(run) ==
  /\ run.at \in {"read", "replace"} =>
       /\ Loads(run.loaded) /\ run.project \notin Range(run.loaded) /\ Registrable(run.project, run.loaded)
       /\ Len(run.loaded) <= Len(registry)
  /\ run.at = "replace" /\ run.loaded = registry => run.payload = Append(registry, run.project)
  /\ run.at \in InRegistry => run.project \in Range(registry)

\* What is kept as long as no file was replaced that had changed
ServedAndKept ==
  /\ Loads(registry) /\ Seed \in Range(registry) /\ service # {}
  /\ acknowledged \subseteq Range(registry) \cap service
  /\ \A r \in Registrars : GrowsWith(registering[r])

\* The invariant
RegistryInv ==
  /\ registry \in Seq(Enrolments) /\ \A i \in 1..Len(registry) : Enrolled(registry[i])
  /\ \A p \in service : Enrolled(p)
  /\ checkouts \in [Directories -> Repositories] /\ staging \in [Directories -> Repositories]
  /\ intakeState \in [Keys -> {"none", "ready", "blocked"}]
  /\ registering = [r \in Registrars |-> registering[r]] /\ \A r \in Registrars : RunOK(registering[r])
  /\ ~displaced => ServedAndKept

\* A registry file is its entries.
LEMMA FileRange ==
  ASSUME NEW s \in Seq(Enrolments)
  PROVE  /\ Len(s) \in Nat /\ DOMAIN s = 1..Len(s) /\ Range(s) = {s[i] : i \in 1..Len(s)} /\ Range(s) \subseteq Enrolments
<1>1. Len(s) \in Nat /\ DOMAIN s = 1..Len(s) /\ \A i \in 1..Len(s) : s[i] \in Enrolments
  BY LenProperties, ElementOfSeq
<1>2. QED
  BY <1>1 DEF Range

\* What a project of the fleet has is of the workspace and of the service.
LEMMA RepositoryTypes ==
  \A p \in Enrolments : /\ RepositoryOf[p] \in Repositories /\ RepositoryOf[p] # NoRepository
                        /\ DirectoryOf[p] \in Directories /\ KeyOf[p] \in Keys
BY RegistryAssumption DEF Repositories, Range, NoRepository, Directories, Keys

\* It is true of the service with its seed.
LEMMA RegistryInitInv == RegistryInit => RegistryInv
<1> SUFFICES ASSUME RegistryInit PROVE RegistryInv
  OBVIOUS
<1>1. Seed \in Enrolments
  BY RegistryAssumption
<1>2. registry = <<Seed>> /\ registry \in Seq(Enrolments) /\ Len(registry) = 1 /\ registry[1] = Seed
  BY <1>1 DEF RegistryInit
<1>3. DirectoryOf[Seed] \in Directories /\ RepositoryOf[Seed] \in Repositories
  BY <1>1, RepositoryTypes
<1>4. Enrolled(Seed)
  BY <1>1, <1>3 DEF RegistryInit, Enrolled, Cloned
<1>5. \A i \in 1..Len(registry) : i = 1 /\ registry[i] = Seed
  BY <1>2
<1>6. Range(registry) = {Seed}
  <2>1. Range(registry) = {registry[i] : i \in 1..Len(registry)}
    BY <1>2, FileRange
  <2>2. 1 \in 1..Len(registry)
    BY <1>2
  <2>3. QED
    BY <1>5, <2>1, <2>2
<1>7. DOMAIN registry = 1..1
  BY <1>2
<1>8. Loads(registry)
  BY <1>7 DEF Loads
<1>9. checkouts \in [Directories -> Repositories] /\ staging \in [Directories -> Repositories]
  BY <1>3 DEF RegistryInit, Repositories
<1>10. \A r \in Registrars : registering[r] = NotRegistering
  BY DEF RegistryInit
<1>11. \A r \in Registrars : RunOK(registering[r]) /\ GrowsWith(registering[r])
  BY <1>10 DEF RunOK, GrowsWith, NotRegistering, AfterVerification, AfterLabels, InRegistry
<1>12. QED
  BY <1>2, <1>4, <1>5, <1>6, <1>8, <1>9, <1>11 DEF RegistryInit, RegistryInv, ServedAndKept

\* It implies what the run checks.
LEMMA RegistryInvHolds == RegistryInv => RegistryHolds
<1> SUFFICES ASSUME RegistryInv PROVE RegistryHolds
  OBVIOUS
<1>1. Range(registry) = {registry[i] : i \in 1..Len(registry)} /\ Range(registry) \subseteq Enrolments
  BY FileRange DEF RegistryInv
<1>2. \A p \in Range(registry) \cup service : Enrolled(p)
  BY <1>1 DEF RegistryInv
<1>3. RegistryTypeOK
  BY <1>1, <1>2 DEF RegistryTypeOK, RegistryInv, Repositories, Enrolled
<1>4. QED
  BY <1>2, <1>3 DEF RegistryHolds, Enrolled, Cloned, RegistryInv, ServedAndKept

\* Checkouts that are there stay, and labels do: whoever was enrolled is.
LEMMA EnrolledStay ==
  ASSUME RegistryInv, labelled \subseteq labelled',
         \A d \in Directories : checkouts[d] # NoRepository => checkouts'[d] = checkouts[d]
  PROVE  /\ \A p \in Enrolments : Cloned(p) => Cloned(p)'
         /\ \A p : Enrolled(p) => Enrolled(p)'
         /\ \A run : RunOK(run) => RunOK(run)'
<1>1. \A p \in Enrolments : Cloned(p) => Cloned(p)'
  BY RepositoryTypes DEF Cloned
<1>2. \A p : Enrolled(p) => Enrolled(p)'
  BY <1>1 DEF Enrolled
<1>3. ASSUME NEW run, RunOK(run) PROVE RunOK(run)'
  <2>1. run.at \in AfterVerification => run.project \in Enrolments
    BY <1>3 DEF RunOK, AfterVerification
  <2>2. run.at = "replace" => \A i \in 1..Len(run.payload) : Enrolled(run.payload[i])'
    BY <1>2, <1>3 DEF RunOK
  <2>3. QED
    BY <1>1, <1>3, <2>1, <2>2 DEF RunOK
<1>4. QED
  BY <1>1, <1>2, <1>3

\* One registration goes on, and the registry file stays as it is.
LEMMA GoesOn ==
  ASSUME RegistryInv, NEW r \in Registrars, NEW state, Proceeds(r, state), RunOK(state)',
         registry' = registry, labelled \subseteq labelled', displaced' = displaced,
         \A d \in Directories : checkouts[d] # NoRepository => checkouts'[d] = checkouts[d],
         checkouts' \in [Directories -> Repositories], staging' \in [Directories -> Repositories],
         intakeState' \in [Keys -> {"none", "ready", "blocked"}],
         service' \in {service, Range(registry)} \/ (service' = {} /\ ~Loads(registry)),
         ~displaced => GrowsWith(state),
         ~displaced => acknowledged' \subseteq acknowledged \cup (Range(registry) \cap service')
  PROVE  RegistryInv'
<1>1. /\ \A p : Enrolled(p) => Enrolled(p)'
      /\ \A run : RunOK(run) => RunOK(run)'
  BY EnrolledStay
<1>2. /\ registering' = [q \in Registrars |-> registering'[q]] /\ registering'[r] = state
      /\ \A q \in Registrars : q # r => registering'[q] = registering[q]
  BY DEF RegistryInv, Proceeds
<1>3. \A q \in Registrars : RunOK(registering[q])'
  BY <1>1, <1>2 DEF RegistryInv
<1>4. Range(registry) = {registry[i] : i \in 1..Len(registry)}
  BY FileRange DEF RegistryInv
<1>5. \A p \in service' : Enrolled(p)'
  BY <1>1, <1>4 DEF RegistryInv
<1>6. \A i \in 1..Len(registry) : Enrolled(registry[i])'
  BY <1>1 DEF RegistryInv
<1>7. ASSUME ~displaced PROVE ServedAndKept'
  <2>1. ServedAndKept
    BY <1>7 DEF RegistryInv
  <2>2. \A run : GrowsWith(run)' <=> GrowsWith(run)
    BY DEF GrowsWith, Loads, Registrable
  <2>3. \A q \in Registrars : GrowsWith(registering[q])'
    BY <1>2, <1>7, <2>1, <2>2 DEF ServedAndKept
  <2>4. service' # {} /\ acknowledged' \subseteq Range(registry) \cap service'
    BY <1>7, <2>1 DEF ServedAndKept
  <2>5. QED
    BY <2>1, <2>3, <2>4 DEF ServedAndKept, Loads
<1>8. QED
  BY <1>2, <1>3, <1>5, <1>6, <1>7 DEF RegistryInv

\* Who registers nothing has found nothing.
LEMMA NothingBegun == RunOK(NotRegistering) /\ RunOK(NotRegistering)' /\ GrowsWith(NotRegistering)
BY DEF RunOK, GrowsWith, NotRegistering, AfterVerification, AfterLabels, InRegistry

\* What is outside of the registry file and of the registrations
Around ==
  /\ registry' = registry /\ displaced' = displaced
  /\ labelled \subseteq labelled'
  /\ \A d \in Directories : checkouts[d] # NoRepository => checkouts'[d] = checkouts[d]
  /\ checkouts' \in [Directories -> Repositories] /\ staging' \in [Directories -> Repositories]
  /\ intakeState' \in [Keys -> {"none", "ready", "blocked"}]

\* A registration goes from one place to the next with its project, and has
\* found what that place asks for.
LEMMA PlaceStep ==
  ASSUME RegistryInv, NEW r \in Registrars, NEW p, p = registering[r].project, NEW place, GoesTo(r, place), Around,
         registering[r].at \notin {"idle", "read", "replace"},
         place \in {"clone", "stage", "rename", "identity", "labels", "load", "source", "restart", "health"},
         place \in AfterVerification => Cloned(p)',
         place \in AfterLabels => RepositoryOf[p] \in labelled',
         ~displaced /\ place \in InRegistry => p \in Range(registry),
         service' \in {service, Range(registry)} \/ (service' = {} /\ ~Loads(registry)),
         acknowledged' = acknowledged
  PROVE  RegistryInv'
<1> PICK run : run = registering[r]
  OBVIOUS
<1>1. RunOK(run) /\ run.project \in Enrolments /\ run = [at |-> run.at, project |-> run.project]
  <2>1. RunOK(run)
    BY DEF RegistryInv
  <2>2. QED
    BY <2>1 DEF RunOK
<1> PICK state : state = [at |-> place, project |-> p]
  OBVIOUS
<1>2. [run EXCEPT !.at = place] = state
  BY <1>1
<1>3. Proceeds(r, state)
  BY <1>2 DEF GoesTo
<1>5. RunOK(state)'
  BY <1>1 DEF RunOK, AfterVerification
<1>6. ~displaced => GrowsWith(state)
  BY DEF GrowsWith
<1>7. QED
  BY <1>3, <1>5, <1>6, GoesOn DEF Around

\* A registration ends.
LEMMA QuitStep ==
  ASSUME RegistryInv, NEW r \in Registrars, Proceeds(r, NotRegistering), Around, service' = service,
         ~displaced => acknowledged' \subseteq acknowledged \cup (Range(registry) \cap service)
  PROVE  RegistryInv'
BY NothingBegun, GoesOn DEF Around

\* Where a registration is, and what it has found
LEMMA RunFacts ==
  ASSUME RegistryInv, NEW r \in Registrars, registering[r].at # "idle"
  PROVE  /\ RunOK(registering[r]) /\ registering[r].project \in Enrolments
         /\ ~displaced => GrowsWith(registering[r])
         /\ Range(registry) \subseteq Enrolments
BY FileRange DEF RegistryInv, RunOK, ServedAndKept

\* A registration begins.
LEMMA StartStep ==
  ASSUME RegistryInv, NEW r \in Registrars, NEW p \in Enrolments, StartRegistration(r, p)
  PROVE  RegistryInv'
<1> PICK state : state = [at |-> "clone", project |-> p]
  OBVIOUS
<1>1. Proceeds(r, state) /\ Around /\ service' = service /\ acknowledged' = acknowledged
  BY DEF StartRegistration, Around, workspace, outside, RegistryInv
<1>2. RunOK(state)' /\ GrowsWith(state)
  BY DEF RunOK, GrowsWith, AfterVerification, AfterLabels, InRegistry
<1>3. QED
  BY <1>1, <1>2, GoesOn DEF Around

\* It clones into the staging directory and moves the clone into place.
LEMMA CloneSteps ==
  ASSUME RegistryInv, NEW r \in Registrars,
         ReuseCheckout(r) \/ BeginClone(r) \/ CloneStaged(r) \/ RenameStaged(r)
  PROVE  RegistryInv'
<1> PICK p : p = registering[r].project
  OBVIOUS
<1>1. registering[r].at \in {"clone", "stage", "rename"}
  BY DEF ReuseCheckout, BeginClone, CloneStaged, RenameStaged, Registering
<1>2. p \in Enrolments /\ RepositoryOf[p] \in Repositories /\ DirectoryOf[p] \in Directories /\ Directory(r) = DirectoryOf[p]
  BY <1>1, RunFacts, RepositoryTypes DEF Directory
<1>3. CASE ReuseCheckout(r) \/ BeginClone(r)
  <2>1. PICK place \in {"identity", "stage"} : GoesTo(r, place)
    BY <1>3 DEF ReuseCheckout, BeginClone
  <2>2. Around /\ service' = service /\ acknowledged' = acknowledged
    BY <1>3 DEF ReuseCheckout, BeginClone, Around, workspace, outside, counts, RegistryInv
  <2>3. QED
    BY <1>1, <2>1, <2>2, PlaceStep DEF AfterVerification, AfterLabels, InRegistry
<1>4. CASE CloneStaged(r)
  <2>1. Around /\ service' = service /\ acknowledged' = acknowledged
    <3>1. staging' \in [Directories -> Repositories]
      BY <1>2, <1>4 DEF CloneStaged, RegistryInv, Repositories
    <3>2. QED
      BY <1>4, <3>1 DEF CloneStaged, Around, outside, counts, RegistryInv
  <2>2. GoesTo(r, "rename") \/ Proceeds(r, NotRegistering)
    BY <1>4 DEF CloneStaged
  <2>3. QED
    BY <1>1, <2>1, <2>2, PlaceStep, QuitStep DEF AfterVerification, AfterLabels, InRegistry
<1>5. CASE RenameStaged(r)
  <2>1. Around /\ service' = service /\ acknowledged' = acknowledged
    <3>1. staging' \in [Directories -> Repositories]
      BY <1>2, <1>5 DEF RenameStaged, RegistryInv, Repositories
    <3>2. checkouts' \in [Directories -> Repositories]
      BY <1>2, <1>5 DEF RenameStaged, RegistryInv
    <3>3. \A d \in Directories : checkouts[d] # NoRepository => checkouts'[d] = checkouts[d]
      BY <1>2, <1>5 DEF RenameStaged, RegistryInv
    <3>4. QED
      BY <1>5, <3>1, <3>2, <3>3 DEF RenameStaged, Around, outside, counts, RegistryInv
  <2>2. GoesTo(r, "identity") \/ Proceeds(r, NotRegistering)
    BY <1>5 DEF RenameStaged
  <2>3. QED
    BY <1>1, <2>1, <2>2, PlaceStep, QuitStep DEF AfterVerification, AfterLabels, InRegistry
<1>6. QED
  BY <1>3, <1>4, <1>5

\* It verifies the repository, and makes the labels.
LEMMA VerifySteps ==
  ASSUME RegistryInv, NEW r \in Registrars, VerifyCheckout(r) \/ EnsureLabels(r)
  PROVE  RegistryInv'
<1> PICK p : p = registering[r].project
  OBVIOUS
<1>1. registering[r].at \in {"identity", "labels"}
  BY DEF VerifyCheckout, EnsureLabels, Registering
<1>2. p \in Enrolments /\ Directory(r) = DirectoryOf[p] /\ RunOK(registering[r])
  BY <1>1, RunFacts DEF Directory
<1>3. Around /\ service' = service /\ acknowledged' = acknowledged /\ checkouts' = checkouts
  BY DEF VerifyCheckout, EnsureLabels, Around, workspace, outside, counts, RegistryInv
<1>4. CASE VerifyCheckout(r) /\ OriginMatches(r)
  <2>1. GoesTo(r, "labels") /\ Cloned(p)'
    BY <1>2, <1>3, <1>4 DEF VerifyCheckout, OriginMatches, Cloned
  <2>2. QED
    BY <1>1, <1>3, <2>1, PlaceStep DEF AfterVerification, AfterLabels, InRegistry
<1>5. CASE VerifyCheckout(r) /\ ~OriginMatches(r)
  BY <1>3, <1>5, QuitStep DEF VerifyCheckout
<1>6. CASE EnsureLabels(r)
  <2>1. GoesTo(r, "load") /\ RepositoryOf[p] \in labelled' /\ registering[r].at = "labels"
    BY <1>6 DEF EnsureLabels, Registering
  <2>2. Cloned(p)'
    BY <1>2, <1>3, <2>1 DEF RunOK, AfterVerification, Cloned
  <2>3. QED
    BY <1>1, <1>3, <2>1, <2>2, PlaceStep DEF AfterVerification, AfterLabels, InRegistry
<1>7. QED
  BY <1>4, <1>5, <1>6

\* It loads the registry and looks whether the project can be added.
LEMMA LoadStep ==
  ASSUME RegistryInv, NEW r \in Registrars, LoadRegistry(r)
  PROVE  RegistryInv'
<1> PICK p : p = registering[r].project
  OBVIOUS
<1>1. registering[r].at = "load" /\ Around /\ service' = service /\ acknowledged' = acknowledged /\ UNCHANGED <<checkouts, labelled>>
  BY DEF LoadRegistry, Registering, Around, workspace, outside, counts, RegistryInv
<1>2. p \in Enrolments /\ Cloned(p) /\ RepositoryOf[p] \in labelled
  BY <1>1, RunFacts DEF RunOK, AfterVerification, AfterLabels
<1>3. CASE ~Loads(registry) \/ ~Registrable(p, registry)
  BY <1>1, <1>3, QuitStep DEF LoadRegistry
<1>4. CASE Loads(registry) /\ Registrable(p, registry) /\ p \in Range(registry)
  <2>1. GoesTo(r, "source")
    BY <1>4 DEF LoadRegistry
  <2>2. Cloned(p)' /\ RepositoryOf[p] \in labelled'
    BY <1>1, <1>2 DEF Cloned
  <2>3. QED
    BY <1>1, <1>4, <2>1, <2>2, PlaceStep
<1>5. CASE Loads(registry) /\ Registrable(p, registry) /\ p \notin Range(registry)
  <2> PICK state : state = [at |-> "read", project |-> p, loaded |-> registry]
    OBVIOUS
  <2>1. Proceeds(r, state)
    BY <1>5 DEF LoadRegistry
  <2>2. RunOK(state)'
    BY <1>1, <1>2 DEF RunOK, AfterVerification, AfterLabels, Cloned, RegistryInv, Around
  <2>3. Len(registry) \in Nat
    BY FileRange DEF RegistryInv
  <2>4. GrowsWith(state)
    BY <1>5, <2>3 DEF GrowsWith, InRegistry
  <2>5. QED
    BY <1>1, <2>1, <2>2, <2>4, GoesOn DEF Around
<1>6. QED
  BY <1>3, <1>4, <1>5

\* It reads the file again, to write it with the project.
LEMMA ReadStep ==
  ASSUME RegistryInv, NEW r \in Registrars, ReadRegistry(r)
  PROVE  RegistryInv'
<1> PICK p, loaded, payload : p = registering[r].project /\ loaded = registering[r].loaded /\ payload = Append(registry, p)
  OBVIOUS
<1> PICK state : state = [at |-> "replace", project |-> p, loaded |-> loaded, payload |-> payload]
  OBVIOUS
<1>1. /\ registering[r].at = "read" /\ Around /\ service' = service /\ acknowledged' = acknowledged
      /\ UNCHANGED <<checkouts, labelled>> /\ Proceeds(r, state)
  BY DEF ReadRegistry, Registering, Around, workspace, outside, counts, RegistryInv
<1>2. p \in Enrolments /\ Cloned(p) /\ RepositoryOf[p] \in labelled /\ loaded \in Seq(Enrolments)
  BY <1>1, RunFacts DEF RunOK, AfterVerification, AfterLabels
<1>3. payload \in Seq(Enrolments) /\ \A i \in 1..Len(payload) : Enrolled(payload[i])
  <2>1. registry \in Seq(Enrolments) /\ \A i \in 1..Len(registry) : Enrolled(registry[i])
    BY DEF RegistryInv
  <2>2. /\ payload \in Seq(Enrolments) /\ Len(payload) = Len(registry) + 1 /\ Len(registry) \in Nat
        /\ \A i \in 1..Len(registry) : payload[i] = registry[i]
        /\ payload[Len(registry) + 1] = p
    BY <1>2, <2>1, AppendProperties, LenProperties
  <2>3. \A i \in 1..Len(payload) : i \in 1..Len(registry) \/ i = Len(registry) + 1
    BY <2>2
  <2>4. Enrolled(p)
    BY <1>2 DEF Enrolled
  <2>5. QED
    BY <2>1, <2>2, <2>3, <2>4
<1>4. \A i \in 1..Len(payload) : Enrolled(payload[i])'
  BY <1>1, <1>3 DEF Enrolled, Cloned
<1>5. RunOK(state)'
  BY <1>1, <1>2, <1>3, <1>4 DEF RunOK, AfterVerification, AfterLabels, Cloned
<1>6. ASSUME ~displaced PROVE GrowsWith(state)
  <2>1. GrowsWith(registering[r])
    BY <1>1, <1>6, RunFacts
  <2>2. QED
    BY <1>1, <2>1 DEF GrowsWith, InRegistry
<1>7. QED
  BY <1>1, <1>5, <1>6, GoesOn DEF Around

\* What was read is what had been checked, if the file has not changed since.
LEMMA ReplaceStep ==
  ASSUME RegistryInv, NEW r \in Registrars, ReplaceRegistry(r)
  PROVE  RegistryInv'
<1> PICK run : run = registering[r]
  OBVIOUS
<1> PICK state : state = [at |-> "reload", project |-> run.project]
  OBVIOUS
<1>1. /\ run.at = "replace" /\ registry' = run.payload /\ displaced' = (displaced \/ registry # run.loaded)
      /\ Proceeds(r, state) /\ UNCHANGED <<checkouts, staging, labelled, intakeState, service, acknowledged>>
  BY DEF ReplaceRegistry, Registering, outside
<1>2. /\ run.project \in Enrolments /\ Cloned(run.project) /\ RepositoryOf[run.project] \in labelled
      /\ run.payload \in Seq(Enrolments) /\ \A i \in 1..Len(run.payload) : Enrolled(run.payload[i])
  BY <1>1, RunFacts DEF RunOK, AfterVerification, AfterLabels
<1>3. /\ \A p : Enrolled(p) => Enrolled(p)'
      /\ \A x : RunOK(x) => RunOK(x)'
  BY <1>1, EnrolledStay
<1>4. /\ registering' = [q \in Registrars |-> registering'[q]] /\ registering'[r] = state
      /\ \A q \in Registrars : q # r => registering'[q] = registering[q]
  BY <1>1 DEF RegistryInv, Proceeds
<1>5. RunOK(state)'
  BY <1>1, <1>2 DEF RunOK, AfterVerification, AfterLabels, Cloned
<1>6. \A q \in Registrars : RunOK(registering[q])'
  BY <1>3, <1>4, <1>5 DEF RegistryInv
<1>7. registry' \in Seq(Enrolments) /\ (\A i \in 1..Len(registry) : Enrolled(registry[i]))'
  <2> PICK file : file = run.payload
    OBVIOUS
  <2>1. \A i \in 1..Len(file) : Enrolled(file[i])'
    BY <1>2, <1>3
  <2>2. registry' = file
    BY <1>1
  <2>3. file \in Seq(Enrolments)
    BY <1>2
  <2>4. QED
    BY <2>1, <2>2, <2>3
<1>8. \A p \in service' : Enrolled(p)'
  BY <1>1, <1>3 DEF RegistryInv
<1>9. ASSUME ~displaced' PROVE ServedAndKept'
  <2>1. ~displaced /\ registry = run.loaded /\ ServedAndKept /\ GrowsWith(run)
    BY <1>1, <1>9, RunFacts DEF RegistryInv
  <2> PICK p \in Enrolments : p = run.project
    BY <1>2
  <2>2. registry \in Seq(Enrolments) /\ Loads(registry) /\ p \notin Range(registry) /\ Registrable(p, registry) /\ registry' = Append(registry, p)
    BY <1>1, <2>1 DEF GrowsWith, RegistryInv
  <2>3. /\ registry' \in Seq(Enrolments) /\ Len(registry') = Len(registry) + 1 /\ Len(registry) \in Nat
        /\ \A i \in 1..Len(registry) : registry'[i] = registry[i]
        /\ registry'[Len(registry) + 1] = p
    BY <2>2, AppendProperties, LenProperties
  <2>4. DOMAIN registry = 1..Len(registry) /\ DOMAIN registry' = 1..(Len(registry) + 1)
    BY <2>2, <2>3, LenProperties
  <2>5. \A i \in DOMAIN registry' : i \in DOMAIN registry \/ i = Len(registry) + 1
    BY <2>3, <2>4
  <2>6. Range(registry) = {registry[i] : i \in DOMAIN registry} /\ Range(registry)' = {registry'[i] : i \in DOMAIN registry'}
    BY DEF Range
  <2>7. Range(registry)' = Range(registry) \cup {p}
    <3>1. \A i \in DOMAIN registry : i \in DOMAIN registry'
      BY <2>3, <2>4
    <3>2. Len(registry) + 1 \in DOMAIN registry'
      BY <2>3, <2>4
    <3>3. QED
      BY <2>3, <2>4, <2>5, <2>6, <3>1, <3>2
  <2>8. Loads(registry)'
    <3>1. \A i \in DOMAIN registry : ~Overlap(p, registry[i]) /\ ~Overlap(registry[i], p)
      BY <2>2, <2>6 DEF Registrable, Overlap
    <3>2. ASSUME NEW i \in DOMAIN registry', NEW j \in DOMAIN registry', i # j PROVE ~Overlap(registry'[i], registry'[j])
      <4>1. CASE i \in DOMAIN registry /\ j \in DOMAIN registry
        BY <2>2, <2>3, <2>4, <3>2, <4>1 DEF Loads
      <4>2. CASE i = Len(registry) + 1 /\ j \in DOMAIN registry
        BY <2>3, <2>4, <3>1, <4>2
      <4>3. CASE i \in DOMAIN registry /\ j = Len(registry) + 1
        BY <2>3, <2>4, <3>1, <4>3
      <4>4. QED
        BY <2>5, <3>2, <4>1, <4>2, <4>3
    <3>3. QED
      BY <3>2 DEF Loads
  <2>9. ASSUME NEW q \in Registrars PROVE GrowsWith(registering[q])'
    <3>1. CASE q = r
      <4> PICK now : now = registering'[q]
        OBVIOUS
      <4>1. now.at = "reload" /\ now.project = p
        BY <1>4, <3>1
      <4>2. QED
        BY <2>7, <4>1 DEF GrowsWith
    <3>2. CASE q # r
      <4> PICK x : x = registering[q]
        OBVIOUS
      <4>1. registering'[q] = x /\ GrowsWith(x)
        BY <1>4, <2>1, <3>2 DEF ServedAndKept
      <4>2. x.at \in {"read", "replace"} => x.loaded \in Seq(Enrolments)
        BY DEF RegistryInv, RunOK
      <4>3. x.at \in {"read", "replace"} => Len(x.loaded) <= Len(registry') /\ x.loaded # registry'
        BY <2>3, <4>1, <4>2, LenProperties DEF GrowsWith
      <4>4. x.at \in {"read", "replace"} => Loads(x.loaded) /\ x.project \notin Range(x.loaded) /\ Registrable(x.project, x.loaded)
        BY <4>1 DEF GrowsWith
      <4>5. x.at \in InRegistry => x.project \in Range(registry)'
        BY <2>7, <4>1 DEF GrowsWith
      <4>6. GrowsWith(x)'
        BY <4>3, <4>4, <4>5 DEF GrowsWith
      <4>7. QED
        BY <4>1, <4>6
    <3>3. QED
      BY <3>1, <3>2
  <2>10. Seed \in Range(registry)' /\ service' # {} /\ acknowledged' \subseteq Range(registry)' \cap service'
    BY <1>1, <2>1, <2>7 DEF ServedAndKept
  <2>11. QED
    BY <2>8, <2>9, <2>10 DEF ServedAndKept
<1>10. checkouts' \in [Directories -> Repositories] /\ staging' \in [Directories -> Repositories] /\ intakeState' \in [Keys -> {"none", "ready", "blocked"}]
  BY <1>1 DEF RegistryInv
<1>11. QED
  BY <1>4, <1>6, <1>7, <1>8, <1>9, <1>10 DEF RegistryInv

\* It loads what it has written, and records the source of the intake.
LEMMA ReloadStep ==
  ASSUME RegistryInv, NEW r \in Registrars, ReloadRegistry(r) \/ RecordSource(r)
  PROVE  RegistryInv'
<1> PICK p : p = registering[r].project
  OBVIOUS
<1>1. /\ registering[r].at \in {"reload", "source"} /\ service' = service /\ acknowledged' = acknowledged
      /\ UNCHANGED <<registry, checkouts, staging, labelled, displaced>>
  BY DEF ReloadRegistry, RecordSource, Registering, workspace, outside, counts
<1>2. p \in Enrolments /\ Cloned(p) /\ RepositoryOf[p] \in labelled /\ KeyOf[p] \in Keys
  BY <1>1, RunFacts, RepositoryTypes DEF RunOK, AfterVerification, AfterLabels
<1>3. Cloned(p)' /\ RepositoryOf[p] \in labelled'
  BY <1>1, <1>2 DEF Cloned
<1>4. ~displaced => p \in Range(registry)
  BY <1>1, RunFacts DEF GrowsWith, InRegistry
<1>5. Around
  <2>1. intakeState' \in [Keys -> {"none", "ready", "blocked"}]
    BY <1>2 DEF ReloadRegistry, RecordSource, outside, RegistryInv
  <2>2. QED
    BY <1>1, <2>1 DEF Around, RegistryInv
<1>6. \/ \E place \in {"source", "restart"} : GoesTo(r, place)
      \/ Proceeds(r, NotRegistering)
  BY DEF ReloadRegistry, RecordSource
<1>7. QED
  BY <1>1, <1>3, <1>4, <1>5, <1>6, PlaceStep, QuitStep

\* It starts the service again.
LEMMA RestartStep ==
  ASSUME RegistryInv, NEW r \in Registrars, RestartAgent(r)
  PROVE  RegistryInv'
<1> PICK p : p = registering[r].project
  OBVIOUS
<1>1. /\ registering[r].at = "restart" /\ acknowledged' = acknowledged /\ GoesTo(r, "health")
      /\ UNCHANGED <<registry, checkouts, staging, labelled, displaced, intakeState>>
  BY DEF RestartAgent, Registering, workspace, counts
<1>2. p \in Enrolments /\ Cloned(p) /\ RepositoryOf[p] \in labelled
  BY <1>1, RunFacts DEF RunOK, AfterVerification, AfterLabels
<1>3. Cloned(p)' /\ RepositoryOf[p] \in labelled'
  BY <1>1, <1>2 DEF Cloned
<1>4. ~displaced => p \in Range(registry)
  BY <1>1, RunFacts DEF GrowsWith, InRegistry
<1>5. Around
  BY <1>1 DEF Around, RegistryInv
<1>6. service' \in {service, Range(registry)} \/ (service' = {} /\ ~Loads(registry))
  BY DEF RestartAgent, Started
<1>7. QED
  BY <1>1, <1>3, <1>4, <1>5, <1>6, PlaceStep

\* It asks the service whether the project is served.
LEMMA HealthStep ==
  ASSUME RegistryInv, NEW r \in Registrars, CheckHealth(r)
  PROVE  RegistryInv'
<1> PICK p : p = registering[r].project
  OBVIOUS
<1>1. /\ registering[r].at = "health" /\ Proceeds(r, NotRegistering)
      /\ UNCHANGED <<registry, checkouts, staging, labelled, displaced, intakeState, service>>
      /\ acknowledged' = acknowledged \/ (p \in service /\ acknowledged' = acknowledged \cup {p})
  BY DEF CheckHealth, Registering, workspace, outside
<1>2. ~displaced => p \in Range(registry)
  BY <1>1, RunFacts DEF GrowsWith, InRegistry
<1>3. Around
  BY <1>1 DEF Around, RegistryInv
<1>4. ~displaced => acknowledged' \subseteq acknowledged \cup (Range(registry) \cap service)
  BY <1>1, <1>2
<1>5. QED
  BY <1>1, <1>3, <1>4, QuitStep

\* It fails, or dies.
LEMMA FailSteps ==
  ASSUME RegistryInv, NEW r \in Registrars, RegistrationFails(r) \/ RegistrationDies(r)
  PROVE  RegistryInv'
<1>1. /\ registering[r] # NotRegistering /\ Proceeds(r, NotRegistering)
      /\ UNCHANGED <<registry, checkouts, labelled, displaced, intakeState, service, acknowledged>>
  BY DEF RegistrationFails, RegistrationDies, NotRegistering, workspace, outside, counts
<1>2. staging' \in [Directories -> Repositories]
  BY DEF RegistrationFails, RegistrationDies, workspace, RegistryInv, Repositories
<1>3. Around
  BY <1>1, <1>2 DEF Around, RegistryInv
<1>4. QED
  BY <1>1, <1>3, QuitStep

\* The service is started again, or polls one of its projects.
LEMMA ServiceSteps ==
  ASSUME RegistryInv, AgentFails \/ \E p \in Enrolments : PollProject(p)
  PROVE  RegistryInv'
<1>1. /\ UNCHANGED <<registry, checkouts, staging, labelled, displaced, registering, acknowledged>>
      /\ service' \in {service, Range(registry)} \/ (service' = {} /\ ~Loads(registry))
  BY DEF AgentFails, PollProject, Started, workspace, outside, counts
<1>2. intakeState' \in [Keys -> {"none", "ready", "blocked"}]
  <2>1. CASE AgentFails
    BY <2>1 DEF AgentFails, RegistryInv
  <2>2. ASSUME NEW p \in Enrolments, PollProject(p) PROVE intakeState' \in [Keys -> {"none", "ready", "blocked"}]
    BY <2>2, RepositoryTypes DEF PollProject, RegistryInv
  <2>3. QED
    BY <2>1, <2>2
<1>3. /\ \A p : Enrolled(p) => Enrolled(p)'
      /\ \A run : RunOK(run) => RunOK(run)'
  BY <1>1, EnrolledStay
<1>4. Range(registry) = {registry[i] : i \in 1..Len(registry)}
  BY FileRange DEF RegistryInv
<1>5. \A p \in service' : Enrolled(p)'
  BY <1>1, <1>3, <1>4 DEF RegistryInv
<1>6. (\A i \in 1..Len(registry) : Enrolled(registry[i]))' /\ (\A q \in Registrars : RunOK(registering[q]))'
  BY <1>1, <1>3 DEF RegistryInv
<1>7. ASSUME ~displaced PROVE ServedAndKept'
  <2>1. ServedAndKept
    BY <1>7 DEF RegistryInv
  <2>2. (\A q \in Registrars : GrowsWith(registering[q]))'
    BY <1>1, <2>1 DEF ServedAndKept, GrowsWith, Loads, Registrable
  <2>3. service' # {} /\ acknowledged' \subseteq Range(registry) \cap service'
    BY <1>1, <2>1 DEF ServedAndKept
  <2>4. QED
    BY <1>1, <2>1, <2>2, <2>3 DEF ServedAndKept, Loads
<1>8. QED
  BY <1>1, <1>2, <1>5, <1>6, <1>7 DEF RegistryInv

\* Every step keeps the invariant.
LEMMA RegistryStep == RegistryInv /\ [RegistryNext]_registryVars => RegistryInv'
<1> SUFFICES ASSUME RegistryInv, [RegistryNext]_registryVars PROVE RegistryInv'
  OBVIOUS
<1>1. ASSUME NEW r \in Registrars, RegistrarStep(r) PROVE RegistryInv'
  BY <1>1, StartStep, CloneSteps, VerifySteps, LoadStep, ReadStep, ReplaceStep, ReloadStep, RestartStep, HealthStep, FailSteps
     DEF RegistrarStep
<1>2. CASE AgentFails \/ \E p \in Enrolments : PollProject(p)
  BY <1>2, ServiceSteps
<1>3. CASE UNCHANGED registryVars
  <2>1. UNCHANGED <<registry, checkouts, staging, labelled, intakeState, service, registering, acknowledged, displaced>>
    BY <1>3 DEF registryVars
  <2>2. /\ \A p : Enrolled(p) => Enrolled(p)'
        /\ \A run : RunOK(run) => RunOK(run)'
    BY <2>1, EnrolledStay
  <2>3. (\A i \in 1..Len(registry) : Enrolled(registry[i]))' /\ (\A q \in Registrars : RunOK(registering[q]))'
    BY <2>1, <2>2 DEF RegistryInv
  <2>4. ASSUME ~displaced PROVE ServedAndKept'
    BY <2>1, <2>4 DEF RegistryInv, ServedAndKept, GrowsWith, Loads, Registrable
  <2>5. QED
    BY <2>1, <2>2, <2>3, <2>4 DEF RegistryInv
<1>4. QED
  BY <1>1, <1>2, <1>3 DEF RegistryNext

\* The promise of the registration (agent_registration.py): the service never
\* serves a project without its checkout and labels; and as long as no file was
\* replaced that had changed, the registry loads, keeps its seed, and a project
\* that was acknowledged is in the file and served.
THEOREM EnrolmentsAreKept == RegistrySpec => []RegistryHolds
<1>1. RegistryInit => RegistryInv
  BY RegistryInitInv
<1>2. RegistryInv /\ [RegistryNext]_registryVars => RegistryInv'
  BY RegistryStep
<1>3. RegistryInv => RegistryHolds
  BY RegistryInvHolds
<1>4. QED
  BY <1>1, <1>2, <1>3, PTL DEF RegistrySpec


-----------------------------------------------------------------------------
(* The staging pilots.                                                     *)

\* A row of the quote, and the tables as far as they concern the job
JobQuotes ==
  [status : {"none", "draft", "accepted", "declined"}, issue : {"none", "draft", "review"},
   source : {"none", "approved", "changed"}, right : BOOLEAN, revision : Nat, by : {"nobody", "pilot", "office"}]

\* What was put into the field so far
JobFields == [control : {0, 1}, record : {0, 1}, sheet : {0, 1}, person : {0, 1}]

\* The tables, as far as they concern the job
JobTables ==
  [estimate : {"approved", "changed"}, quote : JobQuotes, stage : {"opportunity", "awarded"}, job : Nat, next : Nat,
   baseline : {"none", "open", "allocated"}, plan : {"none", "shell", "four"}, approval : BOOLEAN,
   launch : {"none", "blocked", "reviewed"}, shell : Nat, entries : Nat, exact : BOOLEAN,
   manual : {"none", "budget", "cost"}, made : Nat, field : JobFields]

\* What an import has read of them
ImportSights ==
  [estimate : {"approved", "changed"}, stage : {"opportunity", "awarded"}, baseline : {"none", "open", "allocated"},
   plan : {"none", "shell", "four"}, approval : BOOLEAN, launch : {"none", "blocked", "reviewed"}, shell : Nat,
   exact : BOOLEAN, entries : Nat, manual : {"none", "budget", "cost"}]

\* What a pilot keeps of what it has seen
Sights ==
  [fits : BOOLEAN, stage : {"none", "opportunity", "awarded"}, job : Nat, plan : {"none", "shell", "four"},
   launch : {"none", "blocked", "reviewed"}, revision : Nat, first : Nat,
   counts : {<<>>} \cup [GateCounts -> {0, 1}] \cup [LaunchCounts -> {0, 1}]]

\* A run of a pilot
PilotRuns(p) == [at : 0..Len(Programs[p]), saw : Sights, read : {NoRead} \cup ImportSights]
\* A request that is sent to the server
Requests == [pilot : {"draft", "award", "budget", "plan", "launch"}, revision : Nat, read : {NoRead} \cup ImportSights]

\* What an import has read of numbers and of the entries has not been taken back.
ReadStands(read) ==
  /\ read.shell <= os.made /\ (read.launch = "none" <=> read.shell = 0)
  /\ read.entries # 0 => os.entries = read.entries

\* The quote has its approved text, as long as it is in the revision that the
\* pilot verified.
SeenRight(revision) ==
  /\ revision <= os.quote.revision
  /\ revision = os.quote.revision => os.quote.right /\ os.quote.issue = "draft"

\* The numbers of the tables, and the quote that a pilot has accepted
TablesOK ==
  /\ os \in JobTables
  /\ os.shell <= os.made /\ os.entries <= os.made
  /\ os.launch = "none" <=> os.shell = 0
  /\ os.quote.status = "accepted" /\ os.quote.by = "pilot" => os.quote.right /\ os.quote.issue = "draft"

\* Where the project, the quote and the estimate are being read to be verified together
Verifying == [draft |-> {}, award |-> {}, budget |-> {2, 3}, plan |-> {2, 3}, launch |-> {2, 3}, gate |-> {3, 4}]

\* A run is where its program is, and what it holds is still there.
PilotOK(p) ==
  /\ runOf[p] \in PilotRuns(p)
  /\ runOf[p].read # NoRead => Posting(p) /\ p \in BudgetPilots /\ ReadStands(runOf[p].read)
  /\ p = "award" /\ runOf[p].at \in {4, 5} => SeenRight(runOf[p].saw.revision)
  /\ runOf[p].at \notin Verifying[p] => runOf[p].saw.fits

\* A request that outlived its run is one that the run could send.
UnansweredOK ==
  unanswered # NoneUnanswered =>
    /\ unanswered \in Requests
    /\ unanswered.read # NoRead => ReadStands(unanswered.read)
    /\ unanswered.pilot = "award" => SeenRight(unanswered.revision)

\* What a pilot that was let alone has seen of the job, it would see again.
KnowsDraft ==
  LET r == runOf["draft"] IN
  /\ r.at >= 2 => os.stage = "opportunity" /\ os.job = 0
  /\ r.at >= 4 => DraftQuote
  /\ r.at = 4 => r.saw.first = 1

\* The award: the quote in its revision, then the project that it has made of it
KnowsAward ==
  LET r == runOf["award"] IN
  /\ r.at \in 2..4 => r.saw.stage = os.stage /\ r.saw.job = os.job
  /\ r.at = 4 => r.saw.revision = os.quote.revision
  /\ r.at >= 5 => PilotQuote /\ r.saw.job = os.job
  /\ r.at = 5 => r.saw.first = os.quote.revision
  /\ r.at >= 7 => AwardedProject(r.saw)
  /\ r.at >= 9 => NoneOf({"control"})

\* The budget: that what it has verified together fits, then its entries
KnowsBudget ==
  LET r == runOf["budget"] IN
  /\ r.at = 2 => (r.saw.fits <=> Awarded)
  /\ r.at = 3 => (r.saw.fits <=> Awarded /\ Accepted)
  /\ r.at >= 4 => Awarded /\ Accepted
  /\ r.at >= 6 => Budgeted
  /\ r.at = 6 => r.saw.first = os.entries
  /\ r.at >= 8 => AllocatedProject

\* The plan: what it found of the plan, then the four requirements without an approval
KnowsPlan ==
  LET r == runOf["plan"] IN
  /\ r.at = 2 => (r.saw.fits <=> Awarded /\ PlanIsSafe)
  /\ r.at = 3 => (r.saw.fits <=> Awarded /\ PlanIsSafe /\ Accepted)
  /\ r.at \in 2..6 => r.saw.plan = os.plan
  /\ r.at >= 4 => Awarded /\ Accepted
  /\ r.at >= 7 => os.plan = "four"
  /\ r.at \in 7..8 => r.saw.first = os.entries /\ Budgeted
  /\ r.at >= 8 => ~os.approval

\* The launch: the counts, which its request leaves as they were, and the blocked shell
KnowsLaunch ==
  LET r == runOf["launch"] IN
  /\ r.at = 2 => (r.saw.fits <=> Awarded /\ PlanVerified)
  /\ r.at = 3 => (r.saw.fits <=> Awarded /\ PlanVerified /\ Accepted)
  /\ r.at \in 2..5 => r.saw.launch = os.launch
  /\ r.at >= 4 => Awarded /\ PlanVerified /\ Accepted
  /\ r.at >= 6 => r.saw.counts = Counts("launch")
  /\ r.at >= 7 => LaunchVerified
  /\ r.at = 7 => r.saw.first = os.shell
  /\ r.at >= 11 => LaunchDashboard

\* The gate reads only: each of its verifications is still true.
KnowsGate ==
  LET r == runOf["gate"] IN
  /\ r.at >= 2 => r.saw.counts = Counts("gate")
  /\ r.at = 3 => (r.saw.fits <=> Awarded /\ PlanVerified /\ LaunchVerified)
  /\ r.at = 4 => (r.saw.fits <=> Awarded /\ PlanVerified /\ LaunchVerified /\ Accepted)
  /\ r.at >= 5 => Awarded /\ PlanVerified /\ LaunchVerified /\ Accepted
  /\ r.at >= 7 => GateDashboard

\* What a pilot knows, by its kind
Knows(p) ==
  /\ runOf[p].read # NoRead => runOf[p].read = ImportSight(os)
  /\ CASE p = "draft"  -> KnowsDraft
       [] p = "award"  -> KnowsAward
       [] p = "budget" -> KnowsBudget
       [] p = "plan"   -> KnowsPlan
       [] p = "launch" -> KnowsLaunch
       [] p = "gate"   -> KnowsGate

\* The job as pilots leave it by themselves, however many of their runs died
SoundRead(read) ==
  /\ read.estimate = "approved" /\ read.manual = "none" /\ ~read.approval /\ read.exact
  /\ read.launch \in {"none", "blocked"} /\ read.stage = "awarded"
  /\ read.baseline = (IF read.entries # 0 THEN "allocated" ELSE "open")
  /\ read.plan # "none" /\ (read.plan = "four" => read.entries # 0)

\* No handler of a pilot leaves anything else.
SoundJob ==
  /\ os.estimate = "approved" /\ os.manual = "none" /\ ~os.approval /\ os.exact
  /\ os.launch \in {"none", "blocked"}
  /\ os.field = [control |-> 0, record |-> 0, sheet |-> 0, person |-> 0]
  /\ \/ os.quote = NoQuote
     \/ /\ os.quote.source = "approved" /\ os.quote.right /\ os.quote.issue = "draft"
        /\ \/ os.quote.status = "draft"
           \/ os.quote.status = "accepted" /\ os.quote.by = "pilot"
  /\ IF os.quote.status = "accepted"
     THEN /\ os.stage = "awarded" /\ os.job = 1 /\ os.next = 2
          /\ os.baseline = (IF os.entries # 0 THEN "allocated" ELSE "open")
          /\ os.plan # "none" /\ (os.plan = "four" => os.entries # 0)
     ELSE /\ os.stage = "opportunity" /\ os.job = 0 /\ os.next = 1
          /\ os.baseline = "none" /\ os.plan = "none" /\ os.entries = 0

\* An import of theirs began after the award, and has read such a job.
SoundRun(p) ==
  p \in BudgetPilots =>
    /\ runOf[p].at >= 2 /\ runOf[p].saw.fits => os.stage = "awarded"
    /\ runOf[p].read # NoRead => SoundRead(runOf[p].read)

\* So has one that is served late.
SoundUnanswered ==
  unanswered.pilot \in BudgetPilots =>
    /\ os.stage = "awarded"
    /\ unanswered.read # NoRead => SoundRead(unanswered.read)

\* As long as the office has written nothing, the job is as pilots leave it.
Sound == writes = 0 => SoundJob /\ (\A p \in Pilots : SoundRun(p)) /\ SoundUnanswered

\* A decision of the office stands, unless an import fell over it.
Decisions ==
  ~raced => /\ "plan" \in decided => os.approval
            /\ "launch" \in decided => os.launch = "reviewed"

\* What is known of the pilots since whose beginning nobody else has changed anything
UntouchedPilots ==
  /\ \A p \in untouched \cap Active : Knows(p)
  /\ \A p \in untouched \ Active : Reported(p)

\* The invariant
PilotsInv ==
  /\ TablesOK
  /\ DOMAIN runOf = Pilots /\ \A p \in Pilots : PilotOK(p)
  /\ UnansweredOK /\ writes \in Nat
  /\ untouched \subseteq Pilots /\ UntouchedPilots
  /\ Sound /\ stuck = {}
  /\ decided \subseteq {"plan", "launch"} /\ Decisions

-----------------------------------------------------------------------------

\* Where a pilot is in its program
LEMMA PilotPlaces ==
  /\ Pilots = {"draft", "award", "budget", "plan", "launch", "gate"}
  /\ Len(Programs["draft"]) = 5 /\ Len(Programs["award"]) = 9 /\ Len(Programs["budget"]) = 9
  /\ Len(Programs["plan"]) = 10 /\ Len(Programs["launch"]) = 11 /\ Len(Programs["gate"]) = 9
  BY DEF Pilots, Stages, Programs, DraftProgram, AwardProgram, BudgetProgram, PlanProgram, LaunchProgram, GateProgram

\* The places of the draft,
LEMMA DraftPlaces ==
  ASSUME runOf["draft"].at \in 1..5
  PROVE  /\ runOf["draft"].at = 1 => Step("draft") = "project"
         /\ runOf["draft"].at = 2 => Step("draft") = "estimate"
         /\ runOf["draft"].at = 3 => Step("draft") = "post"
         /\ runOf["draft"].at = 4 => Step("draft") = "again"
         /\ runOf["draft"].at = 5 => Step("draft") = "register"
  BY DEF Step, Programs, DraftProgram

\* of the award,
LEMMA AwardPlaces ==
  ASSUME runOf["award"].at \in 1..9
  PROVE  /\ runOf["award"].at = 1 => Step("award") = "project"
         /\ runOf["award"].at = 2 => Step("award") = "estimate"
         /\ runOf["award"].at = 3 => Step("award") = "quote"
         /\ runOf["award"].at = 4 => Step("award") = "post"
         /\ runOf["award"].at = 5 => Step("award") = "again"
         /\ runOf["award"].at = 6 => Step("award") = "outcome"
         /\ runOf["award"].at = 7 => Step("award") = "workspace"
         /\ runOf["award"].at = 8 => Step("award") = "checklist"
         /\ runOf["award"].at = 9 => Step("award") = "dashboard"
  BY DEF Step, Programs, AwardProgram

\* of the budget,
LEMMA BudgetPlaces ==
  ASSUME runOf["budget"].at \in 1..9
  PROVE  /\ runOf["budget"].at = 1 => Step("budget") = "project"
         /\ runOf["budget"].at = 2 => Step("budget") = "quote"
         /\ runOf["budget"].at = 3 => Step("budget") = "estimate"
         /\ runOf["budget"].at = 4 => Step("budget") = "finance"
         /\ runOf["budget"].at = 5 => Step("budget") = "post"
         /\ runOf["budget"].at = 6 => Step("budget") = "again"
         /\ runOf["budget"].at = 7 => Step("budget") = "outcome"
         /\ runOf["budget"].at = 8 => Step("budget") = "dashboard"
         /\ runOf["budget"].at = 9 => Step("budget") = "codes"
  BY DEF Step, Programs, BudgetProgram

\* of the plan,
LEMMA PlanPlaces ==
  ASSUME runOf["plan"].at \in 1..10
  PROVE  /\ runOf["plan"].at = 1 => Step("plan") = "project"
         /\ runOf["plan"].at = 2 => Step("plan") = "quote"
         /\ runOf["plan"].at = 3 => Step("plan") = "estimate"
         /\ runOf["plan"].at = 4 => Step("plan") = "finance"
         /\ runOf["plan"].at = 5 => Step("plan") = "before"
         /\ runOf["plan"].at = 6 => Step("plan") = "post"
         /\ runOf["plan"].at \in {7, 9} => Step("plan") = "outcome"
         /\ runOf["plan"].at = 8 => Step("plan") = "again"
         /\ runOf["plan"].at = 10 => Step("plan") = "dashboard"
  BY DEF Step, Programs, PlanProgram

\* of the launch,
LEMMA LaunchPlaces ==
  ASSUME runOf["launch"].at \in 1..11
  PROVE  /\ runOf["launch"].at = 1 => Step("launch") = "project"
         /\ runOf["launch"].at = 2 => Step("launch") = "quote"
         /\ runOf["launch"].at = 3 => Step("launch") = "estimate"
         /\ runOf["launch"].at = 4 => Step("launch") = "finance"
         /\ runOf["launch"].at = 5 => Step("launch") = "count"
         /\ runOf["launch"].at = 6 => Step("launch") = "post"
         /\ runOf["launch"].at = 7 => Step("launch") = "again"
         /\ runOf["launch"].at = 8 => Step("launch") = "outcome"
         /\ runOf["launch"].at = 9 => Step("launch") = "workspace"
         /\ runOf["launch"].at = 10 => Step("launch") = "dashboard"
         /\ runOf["launch"].at = 11 => Step("launch") = "recount"
  BY DEF Step, Programs, LaunchProgram

\* and of the gate.
LEMMA GatePlaces ==
  ASSUME runOf["gate"].at \in 1..9
  PROVE  /\ runOf["gate"].at = 1 => Step("gate") = "count"
         /\ runOf["gate"].at = 2 => Step("gate") = "project"
         /\ runOf["gate"].at = 3 => Step("gate") = "quote"
         /\ runOf["gate"].at = 4 => Step("gate") = "estimate"
         /\ runOf["gate"].at = 5 => Step("gate") = "finance"
         /\ runOf["gate"].at = 6 => Step("gate") = "dashboard"
         /\ runOf["gate"].at = 7 => Step("gate") = "workspace"
         /\ runOf["gate"].at = 8 => Step("gate") = "sheets"
         /\ runOf["gate"].at = 9 => Step("gate") = "recount"
  BY DEF Step, Programs, GateProgram

\* What a handler makes of the tables of a job
LEMMA TablesOf ==
  ASSUME NEW s \in JobTables
  PROVE  /\ s.estimate \in {"approved", "changed"} /\ s.quote \in JobQuotes /\ s.stage \in {"opportunity", "awarded"}
         /\ s.job \in Nat /\ s.next \in Nat /\ s.baseline \in {"none", "open", "allocated"}
         /\ s.plan \in {"none", "shell", "four"} /\ s.approval \in BOOLEAN
         /\ s.launch \in {"none", "blocked", "reviewed"} /\ s.shell \in Nat /\ s.entries \in Nat /\ s.exact \in BOOLEAN
         /\ s.manual \in {"none", "budget", "cost"} /\ s.made \in Nat /\ s.field \in JobFields
  BY DEF JobTables

\* The quote is made from the estimate.
LEMMA QuoteMade ==
  ASSUME NEW s \in JobTables, s.quote = NoQuote, NEW t, t = FromEstimate(s)
  PROVE  /\ t \in JobTables
         /\ t.estimate = s.estimate /\ t.stage = s.stage /\ t.job = s.job /\ t.next = s.next
         /\ t.baseline = s.baseline /\ t.plan = s.plan /\ t.approval = s.approval /\ t.launch = s.launch
         /\ t.shell = s.shell /\ t.entries = s.entries /\ t.exact = s.exact /\ t.manual = s.manual
         /\ t.made = s.made /\ t.field = s.field
         /\ t.quote.status = "draft" /\ t.quote.issue = "draft" /\ t.quote.source = s.estimate
         /\ t.quote.right = (s.estimate = "approved") /\ t.quote.revision = 1 /\ t.quote.by = "nobody"
<1>1. PICK right : right = (s.estimate = "approved")
  OBVIOUS
<1>2. PICK q : q = [NoQuote EXCEPT !.status = "draft", !.issue = "draft", !.source = s.estimate,
                                   !.right = right, !.revision = 1]
  OBVIOUS
<1>3. right \in BOOLEAN /\ s.estimate \in {"none", "approved", "changed"}
  BY <1>1, TablesOf
<1>4. /\ q \in JobQuotes
      /\ q.status = "draft" /\ q.issue = "draft" /\ q.source = s.estimate
      /\ q.right = right /\ q.revision = 1 /\ q.by = "nobody"
  BY <1>2, <1>3 DEF NoQuote, JobQuotes
<1>5. t = [s EXCEPT !.quote = q]
  BY <1>1, <1>2 DEF FromEstimate
<1>6. /\ t \in JobTables /\ t.quote = q
      /\ t.estimate = s.estimate /\ t.stage = s.stage /\ t.job = s.job /\ t.next = s.next
      /\ t.baseline = s.baseline /\ t.plan = s.plan /\ t.approval = s.approval /\ t.launch = s.launch
      /\ t.shell = s.shell /\ t.entries = s.entries /\ t.exact = s.exact /\ t.manual = s.manual
      /\ t.made = s.made /\ t.field = s.field
  <2>1. q \in JobQuotes
    BY <1>4
  <2> QED  BY <1>5, <2>1 DEF JobTables
<1>7. QED
  BY <1>1, <1>4, <1>6

\* The shell of a launch is made.
LEMMA LaunchMade ==
  ASSUME NEW s \in JobTables, s.launch = "none", NEW t, t = InitializeLaunch(s)
  PROVE  /\ t \in JobTables
         /\ t.estimate = s.estimate /\ t.quote = s.quote /\ t.stage = s.stage /\ t.job = s.job /\ t.next = s.next
         /\ t.baseline = s.baseline /\ t.plan = s.plan /\ t.approval = s.approval /\ t.launch = "blocked"
         /\ t.shell = s.made + 1 /\ t.entries = s.entries /\ t.exact = s.exact /\ t.manual = s.manual
         /\ t.made = s.made + 1 /\ t.field = s.field
<1>1. t = [s EXCEPT !.launch = "blocked", !.shell = s.made + 1, !.made = s.made + 1]
  BY DEF InitializeLaunch
<1>2. s.made + 1 \in Nat
  BY DEF JobTables
<1> DEFINE n == s.made + 1
<1> HIDE DEF n
<1>3. QED
  BY <1>1, <1>2 DEF JobTables, n

\* The controls of an award are set once.
LEMMA ControlsMade ==
  ASSUME NEW s \in JobTables, NEW t, t = AwardControls(s)
  PROVE  /\ t \in JobTables
         /\ t.estimate = s.estimate /\ t.quote = s.quote /\ t.stage = s.stage /\ t.job = s.job /\ t.next = s.next
         /\ t.approval = s.approval /\ t.launch = s.launch
         /\ t.shell = s.shell /\ t.entries = s.entries /\ t.exact = s.exact /\ t.manual = s.manual
         /\ t.made = s.made /\ t.field = s.field
         /\ s.baseline = "none" => t.baseline = "open" /\ t.plan = "shell"
         /\ s.baseline # "none" => t = s
<1>1. CASE s.baseline = "none"
  <2>1. t = [s EXCEPT !.baseline = "open", !.plan = "shell"]
    BY <1>1 DEF AwardControls
  <2> QED  BY <1>1, <2>1 DEF JobTables
<1>2. CASE s.baseline # "none"
  BY <1>2 DEF AwardControls
<1> QED  BY <1>1, <1>2

\* A project is awarded.
LEMMA AwardMade ==
  ASSUME NEW s \in JobTables, NEW t, t = Award(s)
  PROVE  /\ t \in JobTables
         /\ t.estimate = s.estimate /\ t.quote = s.quote /\ t.stage = "awarded"
         /\ t.job = (IF s.job # 0 THEN s.job ELSE s.next) /\ t.next = (IF s.job # 0 THEN s.next ELSE s.next + 1)
         /\ t.baseline = s.baseline /\ t.plan = s.plan /\ t.approval = s.approval /\ t.launch = s.launch
         /\ t.shell = s.shell /\ t.entries = s.entries /\ t.exact = s.exact /\ t.manual = s.manual
         /\ t.made = s.made /\ t.field = s.field
<1>1. PICK j : j = IF s.job # 0 THEN s.job ELSE s.next
  OBVIOUS
<1>2. PICK n : n = IF s.job # 0 THEN s.next ELSE s.next + 1
  OBVIOUS
<1>3. t = [s EXCEPT !.stage = "awarded", !.job = j, !.next = n]
  BY <1>1, <1>2 DEF Award
<1>4. j \in Nat /\ n \in Nat
  BY <1>1, <1>2 DEF JobTables
<1>5. /\ t \in JobTables
      /\ t.estimate = s.estimate /\ t.quote = s.quote /\ t.stage = "awarded" /\ t.job = j /\ t.next = n
      /\ t.baseline = s.baseline /\ t.plan = s.plan /\ t.approval = s.approval /\ t.launch = s.launch
      /\ t.shell = s.shell /\ t.entries = s.entries /\ t.exact = s.exact /\ t.manual = s.manual
      /\ t.made = s.made /\ t.field = s.field
  BY <1>3, <1>4 DEF JobTables
<1>6. QED
  BY <1>1, <1>2, <1>5

\* A quote is accepted.
LEMMA AcceptanceMade ==
  ASSUME NEW s \in JobTables, s.quote.status # "accepted", NEW actor \in {"pilot", "office"}, NEW t, t = Accept(s, actor)
  PROVE  /\ t \in JobTables
         /\ t.estimate = s.estimate /\ t.stage = "awarded"
         /\ t.job = (IF s.job # 0 THEN s.job ELSE s.next) /\ t.next = (IF s.job # 0 THEN s.next ELSE s.next + 1)
         /\ t.approval = s.approval /\ t.launch = s.launch
         /\ t.shell = s.shell /\ t.entries = s.entries /\ t.exact = s.exact /\ t.manual = s.manual
         /\ t.made = s.made /\ t.field = s.field
         /\ s.baseline = "none" => t.baseline = "open" /\ t.plan = "shell"
         /\ s.baseline # "none" => t.baseline = s.baseline /\ t.plan = s.plan
         /\ t.quote.status = "accepted" /\ t.quote.issue = s.quote.issue /\ t.quote.source = s.quote.source
         /\ t.quote.right = s.quote.right /\ t.quote.revision = s.quote.revision + 1 /\ t.quote.by = actor
<1>1. PICK a : a = Award(s)
  OBVIOUS
<1>2. PICK n : n = s.quote.revision + 1
  OBVIOUS
<1>3. a \in JobTables /\ a.quote = s.quote
  BY <1>1, AwardMade
<1>4. PICK q : q = [s.quote EXCEPT !.status = "accepted", !.by = actor, !.revision = n]
  OBVIOUS
<1>5. /\ q \in JobQuotes
      /\ q.status = "accepted" /\ q.issue = s.quote.issue /\ q.source = s.quote.source
      /\ q.right = s.quote.right /\ q.revision = n /\ q.by = actor
  <2>1. s.quote \in JobQuotes
    BY TablesOf
  <2>2. n \in Nat
    BY <1>2, <2>1 DEF JobQuotes
  <2> QED  BY <1>4, <2>1, <2>2 DEF JobQuotes
<1>6. PICK b : b = [a EXCEPT !.quote = q]
  OBVIOUS
<1>7. b = [a EXCEPT !.quote.status = "accepted", !.quote.by = actor, !.quote.revision = @ + 1]
  <2>1. a.quote.revision = s.quote.revision
    BY <1>3
  <2> QED  BY <1>2, <1>3, <1>4, <1>6, <2>1
<1>8. t = AwardControls(b)
  BY <1>1, <1>7 DEF Accept
<1>9. /\ b \in JobTables
      /\ b.estimate = a.estimate /\ b.quote = q /\ b.stage = a.stage /\ b.job = a.job /\ b.next = a.next
      /\ b.baseline = a.baseline /\ b.plan = a.plan /\ b.approval = a.approval /\ b.launch = a.launch
      /\ b.shell = a.shell /\ b.entries = a.entries /\ b.exact = a.exact /\ b.manual = a.manual
      /\ b.made = a.made /\ b.field = a.field
  <2>1. q \in JobQuotes /\ a \in JobTables
    BY <1>3, <1>5
  <2> QED  BY <1>6, <2>1 DEF JobTables
<1>10. QED
  <2>1. /\ a.estimate = s.estimate /\ a.stage = "awarded"
        /\ a.job = (IF s.job # 0 THEN s.job ELSE s.next) /\ a.next = (IF s.job # 0 THEN s.next ELSE s.next + 1)
        /\ a.baseline = s.baseline /\ a.plan = s.plan /\ a.approval = s.approval /\ a.launch = s.launch
        /\ a.shell = s.shell /\ a.entries = s.entries /\ a.exact = s.exact /\ a.manual = s.manual
        /\ a.made = s.made /\ a.field = s.field
    BY <1>1, AwardMade
  <2>2. /\ t \in JobTables
        /\ t.estimate = b.estimate /\ t.quote = b.quote /\ t.stage = b.stage /\ t.job = b.job /\ t.next = b.next
        /\ t.approval = b.approval /\ t.launch = b.launch
        /\ t.shell = b.shell /\ t.entries = b.entries /\ t.exact = b.exact /\ t.manual = b.manual
        /\ t.made = b.made /\ t.field = b.field
        /\ b.baseline = "none" => t.baseline = "open" /\ t.plan = "shell"
        /\ b.baseline # "none" => t = b
    BY <1>8, <1>9, ControlsMade
  <2> QED  BY <1>2, <1>5, <1>9, <2>1, <2>2

\* An import writes the plan as it has read it, or nothing of it.
LEMMA ImportMade ==
  ASSUME NEW s \in JobTables, NEW read \in ImportSights, NEW planned \in BOOLEAN, NEW t, t = Import(s, read, planned)
  PROVE  /\ t \in JobTables
         /\ t.estimate = s.estimate /\ t.quote = s.quote /\ t.stage = s.stage /\ t.job = s.job /\ t.next = s.next
         /\ t.manual = s.manual /\ t.field = s.field
         /\ read.entries # 0 => t.entries = s.entries /\ t.made = s.made
         /\ read.entries = 0 => t.entries = s.made + 1 /\ t.made = s.made + 1
         /\ \/ /\ Metadata(Imported(read, planned)) = Metadata(read)
               /\ Metadata(t) = Metadata(s)
               /\ read.baseline = "allocated" /\ (planned => read.plan = "four")
            \/ /\ Metadata(Imported(read, planned)) # Metadata(read)
               /\ t.baseline = "allocated" /\ t.exact = (read.estimate = "approved")
               /\ t.plan = (IF planned THEN "four" ELSE read.plan)
               /\ t.approval = read.approval /\ t.launch = read.launch /\ t.shell = read.shell
<1>1. PICK e : e = (read.estimate = "approved")
  OBVIOUS
<1>2. PICK l : l = IF planned THEN "four" ELSE read.plan
  OBVIOUS
<1>3. PICK new : new = Imported(read, planned)
  OBVIOUS
<1>4. e \in BOOLEAN /\ l \in {"none", "shell", "four"}
  BY <1>1, <1>2 DEF ImportSights
<1>5. new = [read EXCEPT !.baseline = "allocated", !.exact = e, !.plan = l]
  BY <1>1, <1>2, <1>3 DEF Imported
<1>6. /\ new.baseline = "allocated" /\ new.exact = e /\ new.plan = l
      /\ new.approval = read.approval /\ new.launch = read.launch /\ new.shell = read.shell
  BY <1>5 DEF ImportSights
<1>7. PICK posted : posted = IF read.entries # 0 THEN s ELSE [s EXCEPT !.entries = s.made + 1, !.made = @ + 1]
  OBVIOUS
<1>8. /\ posted \in JobTables
      /\ posted.estimate = s.estimate /\ posted.quote = s.quote /\ posted.stage = s.stage /\ posted.job = s.job
      /\ posted.next = s.next /\ posted.manual = s.manual /\ posted.field = s.field
      /\ posted.baseline = s.baseline /\ posted.plan = s.plan /\ posted.approval = s.approval
      /\ posted.launch = s.launch /\ posted.shell = s.shell /\ posted.exact = s.exact
      /\ read.entries # 0 => posted.entries = s.entries /\ posted.made = s.made
      /\ read.entries = 0 => posted.entries = s.made + 1 /\ posted.made = s.made + 1
  <2>1. CASE read.entries # 0
    BY <1>7, <2>1
  <2>2. CASE read.entries = 0
    <3>1. PICK n : n = s.made + 1
      OBVIOUS
    <3>2. n \in Nat
      BY <3>1, TablesOf
    <3>3. posted = [s EXCEPT !.entries = n, !.made = n]
      BY <1>7, <2>2, <3>1
    <3> QED  BY <2>2, <3>1, <3>2, <3>3 DEF JobTables
  <2> QED  BY <2>1, <2>2
<1>9. t = IF Metadata(new) = Metadata(read) THEN posted
          ELSE [posted EXCEPT !.baseline = new.baseline, !.plan = new.plan, !.approval = new.approval,
                              !.launch = new.launch, !.shell = new.shell, !.exact = new.exact]
  BY <1>3, <1>7 DEF Import
<1>10. CASE Metadata(new) = Metadata(read)
  <2>1. read.baseline = "allocated" /\ read.plan = l
    BY <1>6, <1>10 DEF Metadata
  <2>2. t = posted /\ Metadata(t) = Metadata(s)
    BY <1>8, <1>9, <1>10 DEF Metadata
  <2> QED  BY <1>2, <1>3, <1>8, <1>10, <2>1, <2>2
<1>11. CASE Metadata(new) # Metadata(read)
  <2>1. t = [posted EXCEPT !.baseline = "allocated", !.plan = l, !.approval = read.approval,
                           !.launch = read.launch, !.shell = read.shell, !.exact = e]
    BY <1>6, <1>9, <1>11
  <2>2. PICK a, w, n : a = read.approval /\ w = read.launch /\ n = read.shell
    OBVIOUS
  <2>4. a \in BOOLEAN /\ w \in {"none", "blocked", "reviewed"} /\ n \in Nat
    BY <2>2 DEF ImportSights
  <2>5. t = [posted EXCEPT !.baseline = "allocated", !.plan = l, !.approval = a, !.launch = w, !.shell = n, !.exact = e]
    BY <2>1, <2>2
  <2>3. /\ t \in JobTables
        /\ t.estimate = posted.estimate /\ t.quote = posted.quote /\ t.stage = posted.stage /\ t.job = posted.job
        /\ t.next = posted.next /\ t.manual = posted.manual /\ t.field = posted.field
        /\ t.entries = posted.entries /\ t.made = posted.made
        /\ t.baseline = "allocated" /\ t.plan = l /\ t.approval = a /\ t.launch = w /\ t.shell = n /\ t.exact = e
    <3>1. posted \in JobTables
      BY <1>8
    <3>2. PICK u : u = [posted EXCEPT !.baseline = "allocated", !.plan = l, !.approval = a]
      OBVIOUS
    <3>3. /\ u \in JobTables
          /\ u.estimate = posted.estimate /\ u.quote = posted.quote /\ u.stage = posted.stage /\ u.job = posted.job
          /\ u.next = posted.next /\ u.manual = posted.manual /\ u.field = posted.field
          /\ u.entries = posted.entries /\ u.made = posted.made
          /\ u.baseline = "allocated" /\ u.plan = l /\ u.approval = a
      BY ZenonT(60), <1>4, <2>4, <3>1, <3>2 DEF JobTables
    <3>4. t = [u EXCEPT !.launch = w, !.shell = n, !.exact = e]
      BY <2>5, <3>2
    <3>5. /\ t \in JobTables
          /\ t.estimate = u.estimate /\ t.quote = u.quote /\ t.stage = u.stage /\ t.job = u.job
          /\ t.next = u.next /\ t.manual = u.manual /\ t.field = u.field
          /\ t.entries = u.entries /\ t.made = u.made
          /\ t.baseline = u.baseline /\ t.plan = u.plan /\ t.approval = u.approval
          /\ t.launch = w /\ t.shell = n /\ t.exact = e
      <4>1. u \in JobTables
        BY <3>3
      <4> QED  BY ZenonT(60), <1>4, <2>4, <3>4, <4>1 DEF JobTables
    <3> QED  BY <3>3, <3>5
  <2> QED  BY <1>1, <1>2, <1>3, <1>8, <1>11, <2>2, <2>3
<1>12. QED
  BY <1>10, <1>11

\* What no request takes back
Advances ==
  /\ TablesOK'
  /\ os.made <= os'.made /\ (os.entries # 0 => os'.entries = os.entries)
  /\ \A n \in Nat : SeenRight(n) => SeenRight(n)'
  /\ os.stage = "awarded" => os'.stage = "awarded"

\* The draft's request keeps the job,
LEMMA FromEstimateServed ==
  ASSUME TablesOK, os' = FromEstimate(os)
  PROVE  Advances /\ (SoundJob => SoundJob') /\ os'.approval = os.approval /\ os'.launch = os.launch
<1> os \in JobTables
  BY DEF TablesOK
<1>1. CASE os.quote # NoQuote
  <2>1. os' = os
    BY <1>1 DEF FromEstimate
  <2>2. Advances
    <3>1. os.made \in Nat
      BY TablesOf
    <3>2. TablesOK'
      BY <2>1 DEF TablesOK
    <3>3. \A n \in Nat : SeenRight(n) => SeenRight(n)'
      BY <2>1 DEF SeenRight
    <3> QED  BY <2>1, <3>1, <3>2, <3>3 DEF Advances
  <2>3. SoundJob => SoundJob'
    BY <2>1 DEF SoundJob
  <2> QED  BY <2>1, <2>2, <2>3
<1>2. CASE os.quote = NoQuote
  <2>1. /\ os' \in JobTables
        /\ os'.estimate = os.estimate /\ os'.stage = os.stage /\ os'.job = os.job /\ os'.next = os.next
        /\ os'.baseline = os.baseline /\ os'.plan = os.plan /\ os'.approval = os.approval /\ os'.launch = os.launch
        /\ os'.shell = os.shell /\ os'.entries = os.entries /\ os'.exact = os.exact /\ os'.manual = os.manual
        /\ os'.made = os.made /\ os'.field = os.field
        /\ os'.quote.status = "draft" /\ os'.quote.issue = "draft" /\ os'.quote.source = os.estimate
        /\ os'.quote.right = (os.estimate = "approved") /\ os'.quote.revision = 1
    BY <1>2, QuoteMade
  <2>2. os.quote.revision = 0 /\ ~os.quote.right /\ os.quote.status = "none"
    BY <1>2 DEF NoQuote
  <2>3. \A n \in Nat : ~SeenRight(n)
    BY <2>2 DEF SeenRight
  <2>4. Advances
    BY <2>1, <2>3 DEF Advances, TablesOK, JobTables
  <2>5. SoundJob => SoundJob'
    BY ZenonT(60), <2>1, <2>2 DEF SoundJob
  <2> QED  BY <2>1, <2>4, <2>5
<1>3. QED
  BY <1>1, <1>2

\* the launch's,
LEMMA LaunchServed ==
  ASSUME TablesOK, os' = InitializeLaunch(os)
  PROVE  /\ Advances /\ (SoundJob => SoundJob') /\ os'.approval = os.approval
         /\ os.launch # "none" => os'.launch = os.launch
<1> os \in JobTables
  BY DEF TablesOK
<1>1. CASE os.launch # "none"
  <2>1. os' = os
    BY <1>1 DEF InitializeLaunch
  <2>2. Advances
    <3>1. os.made \in Nat
      BY TablesOf
    <3>2. TablesOK'
      BY <2>1 DEF TablesOK
    <3>3. \A n \in Nat : SeenRight(n) => SeenRight(n)'
      BY <2>1 DEF SeenRight
    <3> QED  BY <2>1, <3>1, <3>2, <3>3 DEF Advances
  <2>3. SoundJob => SoundJob'
    BY <2>1 DEF SoundJob
  <2> QED  BY <2>1, <2>2, <2>3
<1>2. CASE os.launch = "none"
  <2>1. /\ os' \in JobTables
        /\ os'.estimate = os.estimate /\ os'.quote = os.quote /\ os'.stage = os.stage /\ os'.job = os.job
        /\ os'.next = os.next /\ os'.baseline = os.baseline /\ os'.plan = os.plan /\ os'.approval = os.approval
        /\ os'.launch = "blocked" /\ os'.shell = os.made + 1 /\ os'.entries = os.entries /\ os'.exact = os.exact
        /\ os'.manual = os.manual /\ os'.made = os.made + 1 /\ os'.field = os.field
    BY <1>2, LaunchMade
  <2>2. os.made \in Nat /\ os.entries \in Nat
    BY TablesOf
  <2>3. Advances
    BY <2>1, <2>2 DEF Advances, TablesOK, SeenRight
  <2>4. SoundJob => SoundJob'
    BY <2>1 DEF SoundJob
  <2> QED  BY <1>2, <2>1, <2>3, <2>4
<1>3. QED
  BY <1>1, <1>2

\* the award's, of the quote with its text,
LEMMA AcceptServed ==
  ASSUME TablesOK, NEW actor \in {"pilot", "office"}, os' = Accept(os, actor),
         actor = "pilot" /\ os.quote.status # "accepted" => os.quote.right /\ os.quote.issue = "draft"
  PROVE  /\ Advances /\ (SoundJob /\ actor = "pilot" => SoundJob')
         /\ os'.approval = os.approval /\ os'.launch = os.launch
<1> os \in JobTables
  BY DEF TablesOK
<1>1. CASE os.quote.status = "accepted"
  <2>1. os' = AwardControls(os)
    BY <1>1 DEF Accept
  <2>2. /\ os' \in JobTables
        /\ os'.estimate = os.estimate /\ os'.quote = os.quote /\ os'.stage = os.stage /\ os'.job = os.job
        /\ os'.next = os.next /\ os'.approval = os.approval /\ os'.launch = os.launch
        /\ os'.shell = os.shell /\ os'.entries = os.entries /\ os'.exact = os.exact /\ os'.manual = os.manual
        /\ os'.made = os.made /\ os'.field = os.field
        /\ os.baseline # "none" => os' = os
    BY <2>1, ControlsMade
  <2>3. Advances
    BY <2>2 DEF Advances, TablesOK, SeenRight, JobTables
  <2>4. SoundJob => os.baseline # "none"
    BY <1>1 DEF SoundJob
  <2>5. SoundJob => SoundJob'
    BY <2>2, <2>4 DEF SoundJob
  <2> QED  BY <2>2, <2>3, <2>5
<1>2. CASE os.quote.status # "accepted"
  <2>1. /\ os' \in JobTables
        /\ os'.estimate = os.estimate /\ os'.stage = "awarded"
        /\ os'.job = (IF os.job # 0 THEN os.job ELSE os.next)
        /\ os'.next = (IF os.job # 0 THEN os.next ELSE os.next + 1)
        /\ os'.approval = os.approval /\ os'.launch = os.launch
        /\ os'.shell = os.shell /\ os'.entries = os.entries /\ os'.exact = os.exact /\ os'.manual = os.manual
        /\ os'.made = os.made /\ os'.field = os.field
        /\ os.baseline = "none" => os'.baseline = "open" /\ os'.plan = "shell"
        /\ os'.quote.status = "accepted" /\ os'.quote.issue = os.quote.issue /\ os'.quote.source = os.quote.source
        /\ os'.quote.right = os.quote.right /\ os'.quote.revision = os.quote.revision + 1 /\ os'.quote.by = actor
    BY <1>2, AcceptanceMade
  <2>2. os.quote.revision \in Nat
    BY TablesOf DEF JobQuotes
  <2>3. \A n \in Nat : SeenRight(n) => SeenRight(n)'
    BY <2>1, <2>2 DEF SeenRight
  <2>4. TablesOK'
    BY <1>2, <2>1 DEF TablesOK
  <2>5. Advances
    BY <2>1, <2>3, <2>4 DEF Advances, JobTables
  <2>6. ASSUME SoundJob, actor = "pilot" PROVE SoundJob'
    <3>1. os.quote # NoQuote
      BY <2>6 DEF NoQuote
    <3>2. /\ os.stage = "opportunity" /\ os.job = 0 /\ os.next = 1
          /\ os.baseline = "none" /\ os.plan = "none" /\ os.entries = 0
      BY <1>2, <2>6 DEF SoundJob
    <3>3. os'.stage = "awarded" /\ os'.job = 1 /\ os'.next = 2
      BY <2>1, <3>2
    <3>4. os'.baseline = "open" /\ os'.plan = "shell" /\ os'.entries = 0
      BY <2>1, <3>2
    <3>5. /\ os'.quote.source = "approved" /\ os'.quote.right /\ os'.quote.issue = "draft"
          /\ os'.quote.status = "accepted" /\ os'.quote.by = "pilot"
      BY <2>1, <2>6, <3>1 DEF SoundJob
    <3>6. /\ os'.estimate = "approved" /\ os'.manual = "none" /\ ~os'.approval /\ os'.exact
          /\ os'.launch \in {"none", "blocked"}
          /\ os'.field = [control |-> 0, record |-> 0, sheet |-> 0, person |-> 0]
      BY <2>1, <2>6 DEF SoundJob
    <3> QED  BY <3>3, <3>4, <3>5, <3>6 DEF SoundJob
  <2> QED  BY <2>1, <2>5, <2>6
<1>3. QED
  BY <1>1, <1>2

\* and an import's, whose read still stands, unless it undoes a decision.
LEMMA ImportServed ==
  ASSUME TablesOK, NEW read \in ImportSights, ReadStands(read), NEW planned \in BOOLEAN,
         ~ImportRefused(read), os' = Import(os, read, planned)
  PROVE  /\ Advances
         /\ SoundJob /\ os.stage = "awarded" /\ SoundRead(read) => SoundJob'
         /\ Metadata(read) \in {Metadata(os), Metadata(Imported(read, planned))} =>
              os'.approval = os.approval /\ os'.launch = os.launch
<1> os \in JobTables
  BY DEF TablesOK
<1>1. /\ os' \in JobTables
      /\ os'.estimate = os.estimate /\ os'.quote = os.quote /\ os'.stage = os.stage /\ os'.job = os.job
      /\ os'.next = os.next /\ os'.manual = os.manual /\ os'.field = os.field
      /\ read.entries # 0 => os'.entries = os.entries /\ os'.made = os.made
      /\ read.entries = 0 => os'.entries = os.made + 1 /\ os'.made = os.made + 1
      /\ \/ /\ Metadata(Imported(read, planned)) = Metadata(read)
            /\ Metadata(os') = Metadata(os)
            /\ read.baseline = "allocated" /\ (planned => read.plan = "four")
         \/ /\ Metadata(Imported(read, planned)) # Metadata(read)
            /\ os'.baseline = "allocated" /\ os'.exact = (read.estimate = "approved")
            /\ os'.plan = (IF planned THEN "four" ELSE read.plan)
            /\ os'.approval = read.approval /\ os'.launch = read.launch /\ os'.shell = read.shell
  BY ImportMade
<1>2. /\ os.made \in Nat /\ os.entries \in Nat /\ os.shell \in Nat
      /\ read.entries \in Nat /\ read.shell \in Nat
  BY TablesOf DEF ImportSights
<1>3. /\ read.shell <= os.made /\ (read.launch = "none" <=> read.shell = 0)
      /\ read.entries # 0 => os.entries = read.entries
      /\ read.entries = 0 => os.entries = 0
  BY DEF ReadStands, ImportRefused
<1>4. CASE Metadata(Imported(read, planned)) = Metadata(read)
  <2>1. /\ os'.baseline = os.baseline /\ os'.plan = os.plan /\ os'.approval = os.approval /\ os'.launch = os.launch
        /\ os'.shell = os.shell /\ os'.exact = os.exact
    <3>1. Metadata(os') = Metadata(os)
      BY <1>1, <1>4
    <3> QED  BY <3>1 DEF Metadata
  <2>2. Advances
    BY <1>1, <1>2, <1>3, <2>1 DEF Advances, TablesOK, SeenRight
  <2>3. ASSUME SoundJob, os.stage = "awarded", SoundRead(read) PROVE SoundJob'
    <3>1. read.entries # 0
      BY <1>1, <1>4, <2>3 DEF SoundRead
    <3> QED  BY <1>1, <2>1, <2>3, <3>1 DEF SoundJob
  <2> QED  BY <2>1, <2>2, <2>3
<1>5. CASE Metadata(Imported(read, planned)) # Metadata(read)
  <2>1. /\ os'.baseline = "allocated" /\ os'.exact = (read.estimate = "approved")
        /\ os'.plan = (IF planned THEN "four" ELSE read.plan)
        /\ os'.approval = read.approval /\ os'.launch = read.launch /\ os'.shell = read.shell
    BY <1>1, <1>5
  <2>2. os'.entries # 0
    BY <1>1, <1>2, <1>3
  <2>3. Advances
    BY <1>1, <1>2, <1>3, <2>1 DEF Advances, TablesOK, SeenRight
  <2>4. ASSUME SoundJob, os.stage = "awarded", SoundRead(read) PROVE SoundJob'
    <3>1. os.quote.status = "accepted" /\ os.job = 1 /\ os.next = 2
      BY <2>4 DEF SoundJob
    <3>2. os'.plan # "none"
      BY <2>1, <2>4 DEF SoundRead
    <3>3. os'.estimate = "approved" /\ os'.manual = "none" /\ ~os'.approval /\ os'.launch \in {"none", "blocked"}
      BY <1>1, <2>1, <2>4 DEF SoundJob, SoundRead
    <3>4. os'.exact
      BY <2>1, <2>4 DEF SoundRead
    <3> QED  BY <1>1, <2>1, <2>2, <2>4, <3>1, <3>2, <3>3, <3>4 DEF SoundJob
  <2>5. Metadata(read) = Metadata(os) => os'.approval = os.approval /\ os'.launch = os.launch
    BY <2>1 DEF Metadata
  <2> QED  BY <1>5, <2>3, <2>4, <2>5
<1>6. QED
  BY <1>4, <1>5

\* A request is served, be it of a run or of one that is dead.
LEMMA RequestServed ==
  ASSUME TablesOK, NEW r \in Requests, ~HandlerRejects(r), os' = Served(r),
         r.pilot \in BudgetPilots => r.read \in ImportSights /\ ReadStands(r.read),
         r.pilot = "award" => SeenRight(r.revision)
  PROVE  /\ Advances
         /\ SoundJob /\ (r.pilot \in BudgetPilots => os.stage = "awarded" /\ SoundRead(r.read)) => SoundJob'
         /\ Decisions /\ (raced' <=> raced \/ Raced(r)) /\ decided' = decided => Decisions'
<1>1. r.pilot \in {"draft", "award", "budget", "plan", "launch"}
  BY DEF Requests
<1>2. CASE r.pilot = "draft"
  <2>1. os' = FromEstimate(os)
    BY <1>2 DEF Served, BudgetPilots
  <2>2. Advances /\ (SoundJob => SoundJob') /\ os'.approval = os.approval /\ os'.launch = os.launch
    BY <2>1, FromEstimateServed
  <2> QED  BY <1>2, <2>2 DEF Decisions
<1>3. CASE r.pilot = "award"
  <2>1. os' = Accept(os, "pilot")
    BY <1>3 DEF Served, BudgetPilots
  <2>2. os.quote.status # "accepted" => os.quote.right /\ os.quote.issue = "draft"
    BY <1>3 DEF HandlerRejects, AcceptRefused, SeenRight
  <2>3. Advances /\ (SoundJob => SoundJob') /\ os'.approval = os.approval /\ os'.launch = os.launch
    BY <2>1, <2>2, AcceptServed
  <2> QED  BY <1>3, <2>3 DEF Decisions
<1>4. CASE r.pilot = "launch"
  <2>1. os' = InitializeLaunch(os)
    BY <1>4 DEF Served, BudgetPilots
  <2>2. /\ Advances /\ (SoundJob => SoundJob') /\ os'.approval = os.approval
        /\ os.launch # "none" => os'.launch = os.launch
    BY <2>1, LaunchServed
  <2> QED  BY <1>4, <2>2 DEF Decisions
<1>5. CASE r.pilot \in BudgetPilots
  <2>1. PICK planned \in BOOLEAN : planned = (r.pilot = "plan")
    OBVIOUS
  <2>2. os' = Import(os, r.read, r.pilot = "plan")
    BY <1>5 DEF Served, BudgetPilots
  <2>3. ~ImportRefused(r.read)
    BY <1>5 DEF HandlerRejects, BudgetPilots
  <2>4. /\ Advances
        /\ SoundJob /\ os.stage = "awarded" /\ SoundRead(r.read) => SoundJob'
        /\ Metadata(r.read) \in {Metadata(os), Metadata(Imported(r.read, r.pilot = "plan"))} =>
             os'.approval = os.approval /\ os'.launch = os.launch
    BY <1>5, <2>1, <2>2, <2>3, ImportServed
  <2>5. ASSUME Decisions, raced' <=> raced \/ Raced(r), decided' = decided PROVE Decisions'
    <3>1. ~raced' => ~raced /\ os'.approval = os.approval /\ os'.launch = os.launch
      BY <1>5, <2>4, <2>5 DEF Raced
    <3> QED  BY <2>5, <3>1 DEF Decisions
  <2> QED  BY <1>5, <2>4, <2>5
<1>6. QED
  BY <1>1, <1>2, <1>3, <1>4, <1>5 DEF BudgetPilots

\* A write of the office: it takes nothing back that a request relies on.
LEMMA OfficeWrites ==
  ASSUME TablesOK, ChangeQuote \/ ChangeEstimate \/ AwardByHand \/ WriteLedger \/ DecideOn \/ FieldWork
  PROVE  /\ Advances
         /\ Decisions => Decisions'
         /\ writes' = writes + 1 /\ untouched' = Touched({})
         /\ UNCHANGED <<runOf, unanswered, stuck, raced>>
         /\ decided \subseteq {"plan", "launch"} => decided' \subseteq {"plan", "launch"}
<1> os \in JobTables
  BY DEF TablesOK
<1>t. /\ os.estimate \in {"approved", "changed"} /\ os.quote \in JobQuotes /\ os.stage \in {"opportunity", "awarded"}
      /\ os.job \in Nat /\ os.next \in Nat /\ os.shell \in Nat /\ os.entries \in Nat /\ os.made \in Nat
      /\ os.field \in JobFields /\ os.approval \in BOOLEAN
  BY TablesOf
<1>1. CASE ChangeQuote
  <2>1. PICK q : /\ q \in JobQuotes /\ q.status # "accepted" /\ q.revision = os.quote.revision + 1
                 /\ Office([os EXCEPT !.quote = q]) /\ decided' = decided
    <3>1. os.quote.revision + 1 \in Nat /\ os.quote \in JobQuotes
      BY <1>t DEF JobQuotes
    <3>2. PICK n : n = os.quote.revision + 1
      OBVIOUS
    <3>3. CASE \E right \in BOOLEAN :
                 Office([os EXCEPT !.quote.right = right, !.quote.status = "draft", !.quote.issue = "draft",
                                   !.quote.revision = @ + 1])
      <4>1. PICK right \in BOOLEAN :
                 Office([os EXCEPT !.quote.right = right, !.quote.status = "draft", !.quote.issue = "draft",
                                   !.quote.revision = @ + 1])
        BY <3>3
      <4>2. PICK q : q = [os.quote EXCEPT !.right = right, !.status = "draft", !.issue = "draft", !.revision = n]
        OBVIOUS
      <4>3. q \in JobQuotes /\ q.status = "draft" /\ q.revision = n
        BY <3>1, <3>2, <4>2 DEF JobQuotes
      <4>4. [os EXCEPT !.quote.right = right, !.quote.status = "draft", !.quote.issue = "draft",
                       !.quote.revision = @ + 1] = [os EXCEPT !.quote = q]
        BY <3>2, <4>2 DEF JobTables, JobQuotes
      <4> QED  BY <1>1, <3>2, <4>1, <4>3, <4>4 DEF ChangeQuote
    <3>4. CASE Office([os EXCEPT !.quote.status = "declined", !.quote.revision = @ + 1])
      <4>1. PICK q : q = [os.quote EXCEPT !.status = "declined", !.revision = n]
        OBVIOUS
      <4>2. q \in JobQuotes /\ q.status = "declined" /\ q.revision = n
        BY <3>1, <3>2, <4>1 DEF JobQuotes
      <4>3. [os EXCEPT !.quote.status = "declined", !.quote.revision = @ + 1] = [os EXCEPT !.quote = q]
        BY <3>2, <4>1 DEF JobTables, JobQuotes
      <4> QED  BY <1>1, <3>2, <3>4, <4>2, <4>3 DEF ChangeQuote
    <3>5. CASE os.quote.status = "draft" /\ Office([os EXCEPT !.quote.issue = "review", !.quote.revision = @ + 1])
      <4>1. PICK q : q = [os.quote EXCEPT !.issue = "review", !.revision = n]
        OBVIOUS
      <4>2. q \in JobQuotes /\ q.status = "draft" /\ q.revision = n
        BY <3>1, <3>2, <3>5, <4>1 DEF JobQuotes
      <4>3. [os EXCEPT !.quote.issue = "review", !.quote.revision = @ + 1] = [os EXCEPT !.quote = q]
        BY <3>2, <4>1 DEF JobTables, JobQuotes
      <4> QED  BY <1>1, <3>2, <3>5, <4>2, <4>3 DEF ChangeQuote
    <3> QED  BY <1>1, <3>3, <3>4, <3>5 DEF ChangeQuote
  <2>2. /\ os' = [os EXCEPT !.quote = q]
        /\ writes' = writes + 1 /\ untouched' = Touched({}) /\ UNCHANGED <<runOf, unanswered, stuck, raced>>
    BY <2>1 DEF Office
  <2>3. /\ os' \in JobTables /\ os'.quote = q
        /\ os'.stage = os.stage /\ os'.launch = os.launch /\ os'.shell = os.shell /\ os'.entries = os.entries
        /\ os'.made = os.made /\ os'.approval = os.approval
    BY <2>1, <2>2 DEF JobTables
  <2>4. \A n \in Nat : SeenRight(n) => SeenRight(n)'
    <3>1. os.quote.revision \in Nat
      BY <1>t DEF JobQuotes
    <3> QED  BY <2>1, <2>3, <3>1 DEF SeenRight
  <2>5. Advances
    BY <1>t, <2>1, <2>3, <2>4 DEF Advances, TablesOK
  <2>6. Decisions => Decisions'
    BY <2>1, <2>2, <2>3 DEF Decisions
  <2> QED  BY <2>1, <2>2, <2>5, <2>6
<1>2. CASE AwardByHand
  <2>1. /\ decided' = decided
        /\ \/ Office(Accept(os, "office"))
           \/ Office(Award(os))
           \/ Office([os EXCEPT !.next = 2])
    BY <1>2 DEF AwardByHand
  <2>2. /\ writes' = writes + 1 /\ untouched' = Touched({}) /\ UNCHANGED <<runOf, unanswered, stuck, raced>>
    BY <2>1 DEF Office
  <2>3. CASE Office(Accept(os, "office"))
    <3>1. os' = Accept(os, "office")
      BY <2>3 DEF Office
    <3>2. Advances /\ os'.approval = os.approval /\ os'.launch = os.launch
      BY <3>1, AcceptServed
    <3> QED  BY <2>1, <2>2, <3>2 DEF Decisions
  <2>4. CASE Office(Award(os))
    <3>1. os' = Award(os)
      BY <2>4 DEF Office
    <3>2. /\ os' \in JobTables /\ os'.quote = os.quote /\ os'.stage = "awarded"
          /\ os'.approval = os.approval /\ os'.launch = os.launch
          /\ os'.shell = os.shell /\ os'.entries = os.entries /\ os'.made = os.made
      BY <3>1, AwardMade
    <3>3. Advances
      BY <1>t, <3>2 DEF Advances, TablesOK, SeenRight
    <3> QED  BY <2>1, <2>2, <3>2, <3>3 DEF Decisions
  <2>5. CASE Office([os EXCEPT !.next = 2])
    <3>1. os' = [os EXCEPT !.next = 2]
      BY <2>5 DEF Office
    <3>2. /\ os' \in JobTables /\ os'.quote = os.quote /\ os'.stage = os.stage
          /\ os'.approval = os.approval /\ os'.launch = os.launch
          /\ os'.shell = os.shell /\ os'.entries = os.entries /\ os'.made = os.made
      BY <3>1 DEF JobTables
    <3>3. Advances
      BY <1>t, <3>2 DEF Advances, TablesOK, SeenRight
    <3> QED  BY <2>1, <2>2, <3>2, <3>3 DEF Decisions
  <2> QED  BY <2>1, <2>3, <2>4, <2>5
<1>3. CASE ChangeEstimate \/ WriteLedger \/ FieldWork
  <2>1. /\ decided' = decided
        /\ \/ Office([os EXCEPT !.estimate = "changed"])
           \/ \E kind \in {"budget", "cost"} : Office([os EXCEPT !.manual = kind])
           \/ \E k \in DOMAIN os.field, v \in {0, 1} : Office([os EXCEPT !.field[k] = v])
    <3>1. CASE FieldWork
      <4>1. CASE \E k \in DOMAIN os.field : os.field[k] = 0 /\ Office([os EXCEPT !.field[k] = 1])
        BY <3>1, <4>1 DEF FieldWork
      <4>2. CASE Office([os EXCEPT !.field.sheet = 0])
        <5>1. "sheet" \in DOMAIN os.field
          BY <1>t DEF JobFields
        <5> QED  BY <3>1, <4>2, <5>1 DEF FieldWork
      <4> QED  BY <3>1, <4>1, <4>2 DEF FieldWork
    <3> QED  BY <1>3, <3>1 DEF ChangeEstimate, WriteLedger
  <2>2. /\ os' \in JobTables /\ os'.quote = os.quote /\ os'.stage = os.stage
        /\ os'.approval = os.approval /\ os'.launch = os.launch
        /\ os'.shell = os.shell /\ os'.entries = os.entries /\ os'.made = os.made
    <3>1. CASE Office([os EXCEPT !.estimate = "changed"])
      BY <3>1 DEF Office, JobTables
    <3>2. CASE \E kind \in {"budget", "cost"} : Office([os EXCEPT !.manual = kind])
      BY <3>2 DEF Office, JobTables
    <3>3. CASE \E k \in DOMAIN os.field, v \in {0, 1} : Office([os EXCEPT !.field[k] = v])
      <4>1. PICK k \in DOMAIN os.field, v \in {0, 1} : os' = [os EXCEPT !.field[k] = v]
        BY <3>3 DEF Office
      <4>2. PICK f : f = [os.field EXCEPT ![k] = v]
        OBVIOUS
      <4>3. f \in JobFields
        BY <1>t, <4>2 DEF JobFields
      <4>4. os' = [os EXCEPT !.field = f]
        BY <4>1, <4>2
      <4> QED  BY <4>3, <4>4 DEF JobTables
    <3> QED  BY <2>1, <3>1, <3>2, <3>3
  <2>3. /\ writes' = writes + 1 /\ untouched' = Touched({}) /\ UNCHANGED <<runOf, unanswered, stuck, raced>>
    BY <2>1 DEF Office
  <2>4. Advances
    BY <1>t, <2>2 DEF Advances, TablesOK, SeenRight
  <2> QED  BY <2>1, <2>2, <2>3, <2>4 DEF Decisions
<1>4. CASE DecideOn
  <2>1. \/ Office([os EXCEPT !.approval = TRUE]) /\ decided' = decided \cup {"plan"}
        \/ /\ os.launch = "blocked" /\ Office([os EXCEPT !.launch = "reviewed"])
           /\ decided' = decided \cup {"launch"}
    BY <1>4 DEF DecideOn
  <2>2. /\ writes' = writes + 1 /\ untouched' = Touched({}) /\ UNCHANGED <<runOf, unanswered, stuck, raced>>
    BY <2>1 DEF Office
  <2>3. /\ os' \in JobTables /\ os'.quote = os.quote /\ os'.stage = os.stage
        /\ os'.shell = os.shell /\ os'.entries = os.entries /\ os'.made = os.made
        /\ \/ os'.approval /\ os'.launch = os.launch /\ decided' = decided \cup {"plan"}
           \/ /\ os.launch = "blocked" /\ os'.launch = "reviewed" /\ os'.approval = os.approval
              /\ decided' = decided \cup {"launch"}
    BY ZenonT(60), <2>1 DEF Office, JobTables
  <2>4. Advances
    BY <1>t, <2>3 DEF Advances, TablesOK, SeenRight
  <2>5. Decisions => Decisions'
    BY <2>2, <2>3 DEF Decisions
  <2> QED  BY <2>2, <2>3, <2>4, <2>5
<1>5. QED
  BY <1>1, <1>2, <1>3, <1>4

\* What is not written stays as it was known.
LEMMA NothingWritten ==
  ASSUME TablesOK, os' = os
  PROVE  Advances /\ (SoundJob => SoundJob') /\ (Decisions /\ raced' = raced /\ decided' = decided => Decisions')
<1>1. os.made \in Nat
  BY TablesOf DEF TablesOK
<1>2. TablesOK'
  BY DEF TablesOK
<1>3. \A n \in Nat : SeenRight(n) => SeenRight(n)'
  BY DEF SeenRight
<1>4. Advances
  BY <1>1, <1>2, <1>3 DEF Advances
<1>5. SoundJob => SoundJob'
  BY DEF SoundJob
<1> QED  BY <1>4, <1>5 DEF Decisions

\* What an import has read stays as true as it was.
LEMMA ReadStays ==
  ASSUME TablesOK, Advances, NEW read \in ImportSights, ReadStands(read)
  PROVE  ReadStands(read)'
<1>1. os.made \in Nat /\ os'.made \in Nat /\ read.shell \in Nat
  BY TablesOf DEF TablesOK, Advances, ImportSights
<1>2. os.made <= os'.made /\ (os.entries # 0 => os'.entries = os.entries)
  BY DEF Advances
<1> QED  BY <1>1, <1>2 DEF ReadStands

\* So does a run that takes no step,
LEMMA RunStays ==
  ASSUME TablesOK, Advances, NEW p \in Pilots, PilotOK(p), runOf'[p] = runOf[p]
  PROVE  PilotOK(p)' /\ (SoundRun(p) => SoundRun(p)')
<1>1. runOf[p] \in PilotRuns(p)
  BY DEF PilotOK
<1>2. runOf[p].saw.revision \in Nat /\ runOf[p].read \in {NoRead} \cup ImportSights
  BY <1>1 DEF PilotRuns, Sights
<1>3. runOf[p].read # NoRead => Posting(p)' /\ p \in BudgetPilots /\ ReadStands(runOf[p].read)'
  <2>1. runOf[p].read # NoRead => Posting(p) /\ p \in BudgetPilots /\ ReadStands(runOf[p].read)
    BY DEF PilotOK
  <2>2. Posting(p) => Posting(p)'
    BY DEF Posting, Step
  <2> QED  BY <1>2, <2>1, <2>2, ReadStays
<1>4. p = "award" /\ runOf[p].at \in {4, 5} => SeenRight(runOf[p].saw.revision)'
  BY <1>2 DEF PilotOK, Advances
<1>5. PilotOK(p)'
  <2>1. runOf[p].at \notin Verifying[p] => runOf[p].saw.fits
    BY DEF PilotOK
  <2>2. (runOf[p].read # NoRead => ReadStands(runOf[p].read))' <=> (runOf[p].read # NoRead => ReadStands(runOf[p].read)')
    BY DEF ReadStands
  <2> QED  BY <1>1, <1>3, <1>4, <2>1, <2>2 DEF PilotOK, PilotRuns, ReadStands, SeenRight
<1>6. SoundRun(p) => SoundRun(p)'
  BY DEF SoundRun, Advances, SoundRead
<1> QED  BY <1>5, <1>6

\* a request that is not served,
LEMMA UnansweredStays ==
  ASSUME TablesOK, Advances, UnansweredOK, unanswered' = unanswered
  PROVE  UnansweredOK' /\ (SoundUnanswered => SoundUnanswered')
<1>1. UnansweredOK'
  <2> SUFFICES ASSUME unanswered # NoneUnanswered PROVE UnansweredOK'
    BY DEF UnansweredOK
  <2>1. unanswered \in Requests
    BY DEF UnansweredOK
  <2>2. unanswered.read \in {NoRead} \cup ImportSights /\ unanswered.revision \in Nat
    BY <2>1 DEF Requests
  <2>3. unanswered.read # NoRead => ReadStands(unanswered.read)'
    BY <2>2, ReadStays DEF UnansweredOK
  <2>4. unanswered.pilot = "award" => SeenRight(unanswered.revision)'
    BY <2>2 DEF UnansweredOK, Advances
  <2> QED  BY <2>1, <2>3, <2>4 DEF UnansweredOK, ReadStands, SeenRight
<1>2. SoundUnanswered => SoundUnanswered'
  BY DEF SoundUnanswered, Advances, SoundRead
<1> QED  BY <1>1, <1>2

\* and what is known of a pilot, when nothing is written.
LEMMA KnowledgeStays ==
  ASSUME NEW p \in Pilots, os' = os, runOf'[p] = runOf[p]
  PROVE  (Knows(p) => Knows(p)') /\ (Reported(p) => Reported(p)')
<1>1. Reported(p) => Reported(p)'
  BY DEF Reported, DraftQuote, PilotQuote, AwardedProject, NoneOf, Awarded, Accepted, Budgeted, AllocatedProject,
         LaunchControls, PlanVerified, PlanIsSafe, LaunchDashboard, LaunchVerified, GateDashboard
<1>2. (runOf[p].read # NoRead => runOf[p].read = ImportSight(os)) => (runOf[p].read # NoRead => runOf[p].read = ImportSight(os))'
  OBVIOUS
<1>3. CASE p = "draft"
  BY <1>1, <1>2, <1>3 DEF Knows, KnowsDraft, DraftQuote
<1>4. CASE p = "award"
  BY <1>1, <1>2, <1>4 DEF Knows, KnowsAward, PilotQuote, Accepted, AwardedProject, PlanIsSafe, NoneOf
<1>5. CASE p = "budget"
  BY <1>1, <1>2, <1>5 DEF Knows, KnowsBudget, Awarded, Accepted, Budgeted, AllocatedProject, PlanIsSafe
<1>6. CASE p = "plan"
  BY <1>1, <1>2, <1>6 DEF Knows, KnowsPlan, Awarded, Accepted, Budgeted, PlanIsSafe
<1>7. CASE p = "launch"
  BY <1>1, <1>2, <1>7 DEF Knows, KnowsLaunch, Awarded, Accepted, PlanVerified, Counts, LaunchVerified, LaunchDashboard,
                          LaunchControls, NoneOf, Budgeted
<1>8. CASE p = "gate"
  BY <1>1, <1>2, <1>8 DEF Knows, KnowsGate, Awarded, Accepted, PlanVerified, Counts, LaunchVerified, GateDashboard,
                          LaunchDashboard, LaunchControls, NoneOf, Budgeted
<1> QED  BY <1>3, <1>4, <1>5, <1>6, <1>7, <1>8, PilotPlaces

\* A run that has just begun, or is over, knows nothing.
LEMMA NewRun ==
  ASSUME NEW p \in Pilots, runOf'[p] \in {NotRunning, [NotRunning EXCEPT !.at = 1]}
  PROVE  PilotOK(p)' /\ SoundRun(p)' /\ (runOf'[p].at # 0 => Knows(p)')
<1> DEFINE r == runOf'[p]
<1>1. /\ r.at \in {0, 1} /\ r.saw = NoSight /\ r.read = NoRead
      /\ r = [at |-> r.at, saw |-> NoSight, read |-> NoRead]
  BY DEF NotRunning
<1>2. NoSight \in Sights /\ NoSight.fits
  BY DEF NoSight, Sights
<1>3. Len(Programs[p]) \in Nat /\ Len(Programs[p]) >= 1
  <2>1. p \in {"draft", "award", "budget", "plan", "launch", "gate"}
    BY PilotPlaces
  <2>2. /\ p = "draft" => Len(Programs[p]) = 5
        /\ p = "award" => Len(Programs[p]) = 9
        /\ p = "budget" => Len(Programs[p]) = 9
        /\ p = "plan" => Len(Programs[p]) = 10
        /\ p = "launch" => Len(Programs[p]) = 11
        /\ p = "gate" => Len(Programs[p]) = 9
    BY PilotPlaces
  <2> QED  BY <2>1, <2>2
<1>4. r \in PilotRuns(p)
  <2>1. r.at \in 0..Len(Programs[p])
    BY <1>1, <1>3
  <2> HIDE DEF r
  <2> QED  BY <1>1, <1>2, <2>1 DEF PilotRuns
<1>5. PilotOK(p)'
  <2>1. runOf'[p].saw.fits
    BY <1>1, <1>2
  <2> QED  BY <1>1, <1>4, <2>1 DEF PilotOK, PilotRuns
<1>6. SoundRun(p)'
  BY <1>1 DEF SoundRun
<1>7. ASSUME r.at = 1 PROVE Knows(p)'
  <2>1. CASE p = "draft"
    BY <1>1, <1>7, <2>1 DEF Knows, KnowsDraft
  <2>2. CASE p = "award"
    BY <1>1, <1>7, <2>2 DEF Knows, KnowsAward
  <2>3. CASE p = "budget"
    BY <1>1, <1>7, <2>3 DEF Knows, KnowsBudget
  <2>4. CASE p = "plan"
    BY <1>1, <1>7, <2>4 DEF Knows, KnowsPlan
  <2>5. CASE p = "launch"
    BY <1>1, <1>7, <2>5 DEF Knows, KnowsLaunch
  <2>6. CASE p = "gate"
    BY <1>1, <1>7, <2>6 DEF Knows, KnowsGate
  <2> QED  BY <2>1, <2>2, <2>3, <2>4, <2>5, <2>6, PilotPlaces
<1> QED  BY <1>1, <1>5, <1>6, <1>7

\* A step of one pilot
LEMMA PilotMoves ==
  ASSUME PilotsInv, NEW p \in Pilots, NEW r, runOf' = [runOf EXCEPT ![p] = r],
         Advances, writes = 0 => SoundJob', Decisions', UNCHANGED <<writes, decided>>, stuck' = {},
         PilotOK(p)', writes = 0 => SoundRun(p)',
         UnansweredOK', writes = 0 => SoundUnanswered',
         untouched' \ {p} \subseteq untouched, os' # os => untouched' \subseteq {p},
         p \in untouched' => (IF r.at # 0 THEN Knows(p)' ELSE Reported(p)')
  PROVE  PilotsInv'
<1>1. runOf'[p] = r /\ DOMAIN runOf' = Pilots /\ \A q \in Pilots \ {p} : runOf'[q] = runOf[q]
  BY DEF PilotsInv
<1>2. TablesOK /\ TablesOK'
  BY DEF PilotsInv, Advances
<1>3. \A q \in Pilots : PilotOK(q)'
  <2> SUFFICES ASSUME NEW q \in Pilots, q # p PROVE PilotOK(q)'
    OBVIOUS
  <2> QED  BY <1>1, <1>2, RunStays DEF PilotsInv
<1>4. writes = 0 => \A q \in Pilots : SoundRun(q)'
  <2> SUFFICES ASSUME writes = 0, NEW q \in Pilots, q # p PROVE SoundRun(q)'
    OBVIOUS
  <2>1. SoundRun(q) /\ PilotOK(q)
    BY DEF PilotsInv, Sound
  <2> QED  BY <1>1, <1>2, <2>1, RunStays
<1>5. Sound'
  BY <1>4 DEF Sound
<1>6. ASSUME NEW q \in untouched', q # p
      PROVE  IF runOf'[q].at # 0 THEN Knows(q)' ELSE Reported(q)'
  <2>1. q \in untouched /\ q \in Pilots /\ os' = os
    BY <1>6 DEF PilotsInv
  <2>2. runOf'[q] = runOf[q]
    BY <1>1, <1>6, <2>1
  <2>3. IF runOf[q].at # 0 THEN Knows(q) ELSE Reported(q)
    BY <2>1 DEF PilotsInv, UntouchedPilots, Active
  <2> QED  BY <2>1, <2>2, <2>3, KnowledgeStays
<1>7. untouched' \subseteq Pilots
  BY DEF PilotsInv
<1>8. UntouchedPilots'
  BY <1>1, <1>6, <1>7 DEF UntouchedPilots, Active
<1>9. writes' \in Nat /\ decided' \subseteq {"plan", "launch"}
  BY DEF PilotsInv
<1>10. QED
  BY <1>1, <1>2, <1>3, <1>5, <1>7, <1>8, <1>9 DEF PilotsInv

\* What is verified together is true or false,
LEMMA FitsIsBoolean ==
  ASSUME NEW p \in {"budget", "plan", "launch", "gate"}, Step(p) \in {"project", "quote"}
  PROVE  Verified(p) \in BOOLEAN
<1>1. CASE Step(p) = "quote"
  <2>1. Verified(p) = Accepted
    BY <1>1 DEF Verified
  <2> QED  BY <2>1 DEF Accepted
<1>2. CASE Step(p) = "project"
  <2>1. Verified(p) = ProjectVerified(p)
    BY <1>2 DEF Verified
  <2>2. ProjectVerified(p) \in BOOLEAN
    BY DEF ProjectVerified, Awarded, PlanIsSafe, PlanVerified, LaunchVerified
  <2> QED  BY <2>1, <2>2
<1> QED  BY <1>1, <1>2

\* and what a pilot keeps of it is what it has read.
LEMMA SightKept ==
  ASSUME TablesOK, NEW p \in Pilots, PilotOK(p), NEW saw, saw = runOf[p].saw, NEW new, new = Sight(p)
  PROVE  /\ new \in Sights /\ new.first = saw.first
         /\ Step(p) = "quote" /\ p = "award" => new.revision = os.quote.revision
         /\ ~(Step(p) = "quote" /\ p = "award") => new.revision = saw.revision
         /\ Step(p) = "project" /\ p = "award" => new.stage = os.stage /\ new.job = os.job
         /\ ~(Step(p) = "project" /\ p = "award") => new.stage = saw.stage /\ new.job = saw.job
         /\ Step(p) = "project" /\ ReadsOn(p) =>
              new.plan = os.plan /\ new.launch = os.launch /\ (new.fits <=> Verified(p))
         /\ ~(Step(p) = "project" /\ ReadsOn(p)) => new.plan = saw.plan /\ new.launch = saw.launch
         /\ Step(p) = "quote" /\ ReadsOn(p) => (new.fits <=> saw.fits /\ Verified(p))
         /\ ~ReadsOn(p) => new.fits = saw.fits
         /\ Step(p) = "count" => new.counts = Counts(p)
         /\ Step(p) # "count" => new.counts = saw.counts
<1>1. saw \in Sights
  BY DEF PilotOK, PilotRuns
<1>2. /\ os.stage \in {"opportunity", "awarded"} /\ os.job \in Nat /\ os.plan \in {"none", "shell", "four"}
      /\ os.launch \in {"none", "blocked", "reviewed"} /\ os.quote.revision \in Nat /\ os.field \in JobFields
  BY TablesOf DEF TablesOK, JobQuotes
<1>3. CASE Step(p) = "project" /\ p = "award"
  <2>1. new = [saw EXCEPT !.stage = os.stage, !.job = os.job]
    BY <1>3 DEF Sight, ReadsOn
  <2> QED  BY <1>1, <1>2, <1>3, <2>1 DEF Sights, ReadsOn
<1>4. CASE Step(p) = "project" /\ ReadsOn(p)
  <2>1. p \in {"budget", "plan", "launch", "gate"}
    BY <1>4, PilotPlaces DEF ReadsOn
  <2>2. PICK v \in BOOLEAN : v = Verified(p)
    BY <1>4, <2>1, FitsIsBoolean
  <2>3. new = [saw EXCEPT !.fits = Verified(p), !.plan = os.plan, !.launch = os.launch]
    BY <1>4, <2>1 DEF Sight
  <2>4. PICK n, l : n = os.plan /\ l = os.launch
    OBVIOUS
  <2>5. new = [saw EXCEPT !.fits = v, !.plan = n, !.launch = l]
    BY <2>2, <2>3, <2>4
  <2>6. /\ new \in Sights /\ new.fits = v /\ new.plan = n /\ new.launch = l /\ new.first = saw.first
        /\ new.revision = saw.revision /\ new.stage = saw.stage /\ new.job = saw.job /\ new.counts = saw.counts
    BY <1>1, <1>2, <2>4, <2>5 DEF Sights
  <2> QED  BY <1>4, <2>1, <2>2, <2>4, <2>6
<1>5. CASE Step(p) = "quote" /\ ReadsOn(p)
  <2>1. p \in {"budget", "plan", "launch", "gate"}
    BY <1>5, PilotPlaces DEF ReadsOn
  <2>2. PICK v \in BOOLEAN : v = Verified(p)
    BY <1>5, <2>1, FitsIsBoolean
  <2>3. new = [saw EXCEPT !.fits = saw.fits /\ Verified(p)]
    BY <1>5, <2>1 DEF Sight
  <2>4. PICK w \in BOOLEAN : w = (saw.fits /\ v)
    OBVIOUS
  <2>5. new = [saw EXCEPT !.fits = w]
    BY <2>2, <2>3, <2>4
  <2>6. /\ new \in Sights /\ new.fits = w /\ new.plan = saw.plan /\ new.launch = saw.launch /\ new.first = saw.first
        /\ new.revision = saw.revision /\ new.stage = saw.stage /\ new.job = saw.job /\ new.counts = saw.counts
    BY <1>1, <2>5 DEF Sights
  <2> QED  BY <1>5, <2>1, <2>2, <2>4, <2>6
<1>6. CASE Step(p) = "quote" /\ p = "award"
  <2>1. new = [saw EXCEPT !.revision = os.quote.revision]
    BY <1>6 DEF Sight, ReadsOn
  <2> QED  BY <1>1, <1>2, <1>6, <2>1 DEF Sights, ReadsOn
<1>7. CASE Step(p) = "count"
  <2>1. new = [saw EXCEPT !.counts = Counts(p)]
    BY <1>7 DEF Sight
  <2>2. Counts(p) \in [GateCounts -> {0, 1}] \cup [LaunchCounts -> {0, 1}]
    BY <1>2 DEF Counts, GateCounts, LaunchCounts, JobFields
  <2>3. PICK c : c = Counts(p)
    OBVIOUS
  <2> QED  BY <1>1, <1>7, <2>1, <2>2, <2>3 DEF Sights, ReadsOn
<1>8. CASE ~(Step(p) = "project" /\ (p = "award" \/ ReadsOn(p))) /\ ~(Step(p) = "quote" /\ (p = "award" \/ ReadsOn(p))) /\ Step(p) # "count"
  <2>1. new = saw
    BY <1>8 DEF Sight
  <2>2. ~ReadsOn(p)
    BY <1>8 DEF ReadsOn
  <2> QED  BY <1>1, <1>8, <2>1, <2>2
<1> QED  BY <1>3, <1>4, <1>5, <1>6, <1>7, <1>8


\* Where a pilot reads on before it verifies
LEMMA ReadOnPlaces ==
  ASSUME NEW p \in Pilots, PilotOK(p), p \in Active
  PROVE  /\ ReadsOn(p) => runOf[p].at + 1 \in Verifying[p] /\ p \notin {"draft", "award"}
         /\ p \in BudgetPilots /\ Step(p) = "project" => runOf[p].at = 1
         /\ p \in BudgetPilots /\ Step(p) = "quote" => runOf[p].at = 2
<1>1. runOf[p].at \in 1..Len(Programs[p])
  BY PilotPlaces DEF PilotOK, PilotRuns, Active
<1>2. CASE p \in {"draft", "award"}
  BY <1>2 DEF ReadsOn, BudgetPilots
<1>3. CASE p = "budget"
  <2>1. runOf["budget"].at \in 1..9
    BY <1>1, <1>3, PilotPlaces
  <2> QED  BY <1>3, <2>1, BudgetPlaces DEF ReadsOn, Verifying, BudgetPilots
<1>4. CASE p = "plan"
  <2>1. runOf["plan"].at \in 1..10
    BY <1>1, <1>4, PilotPlaces
  <2> QED  BY <1>4, <2>1, PlanPlaces DEF ReadsOn, Verifying, BudgetPilots
<1>5. CASE p = "launch"
  <2>1. runOf["launch"].at \in 1..11
    BY <1>1, <1>5, PilotPlaces
  <2> QED  BY <1>5, <2>1, LaunchPlaces DEF ReadsOn, Verifying, BudgetPilots
<1>6. CASE p = "gate"
  <2>1. runOf["gate"].at \in 1..9
    BY <1>1, <1>6, PilotPlaces
  <2> QED  BY <1>6, <2>1, GatePlaces DEF ReadsOn, Verifying, BudgetPilots
<1> QED  BY <1>2, <1>3, <1>4, <1>5, <1>6, PilotPlaces

\* The next step of a run
LEMMA RunGoesOn ==
  ASSUME NEW p \in Pilots, PilotOK(p), runOf[p].at # Len(Programs[p]), NEW new \in Sights,
         runOf'[p] = [at |-> runOf[p].at + 1, saw |-> new, read |-> NoRead],
         p = "award" /\ runOf[p].at + 1 \in {4, 5} => SeenRight(new.revision)',
         runOf[p].at + 1 \notin Verifying[p] => new.fits
  PROVE  PilotOK(p)'
<1>1. runOf[p].at \in 0..Len(Programs[p])
  BY DEF PilotOK, PilotRuns
<1>2. Len(Programs[p]) \in Nat
  BY PilotPlaces
<1>3. runOf[p].at + 1 \in 0..Len(Programs[p])
  BY <1>1, <1>2
<1>4. runOf'[p].at = runOf[p].at + 1 /\ runOf'[p].saw = new /\ runOf'[p].read = NoRead
  OBVIOUS
<1>5. runOf'[p] \in PilotRuns(p)
  BY <1>3 DEF PilotRuns
<1>6. QED
  BY <1>4, <1>5 DEF PilotOK, PilotRuns, SeenRight

\* A verification takes a run to its next place.
LEMMA GetKeepsRun ==
  ASSUME PilotsInv, NEW p \in Active, ReadsOn(p) \/ (Verified(p) /\ runOf[p].saw.fits), os' = os, ~Posting(p),
         runOf'[p] = IF runOf[p].at = Len(Programs[p]) THEN NotRunning
                     ELSE [at |-> runOf[p].at + 1, saw |-> Sight(p), read |-> NoRead]
  PROVE  PilotOK(p)' /\ (writes = 0 => SoundRun(p)')
<1>1. p \in Pilots /\ PilotOK(p) /\ TablesOK /\ runOf[p].at \in Nat \ {0}
  BY SMTT(30), PilotPlaces DEF PilotsInv, Active, PilotOK, PilotRuns
<1>2. CASE runOf[p].at = Len(Programs[p])
  BY <1>1, <1>2, NewRun
<1>3. CASE runOf[p].at # Len(Programs[p])
  <2>1. PICK new : new = Sight(p)
    OBVIOUS
  <2>2. PICK saw : saw = runOf[p].saw
    OBVIOUS
  <2>3. /\ new \in Sights
        /\ Step(p) = "quote" /\ p = "award" => new.revision = os.quote.revision
        /\ Step(p) = "project" /\ ReadsOn(p) => (new.fits <=> Verified(p))
        /\ Step(p) = "quote" /\ ReadsOn(p) => (new.fits <=> saw.fits /\ Verified(p))
        /\ ~ReadsOn(p) => new.fits = saw.fits
    BY <1>1, <2>1, <2>2, SightKept
  <2>4. runOf'[p] = [at |-> runOf[p].at + 1, saw |-> new, read |-> NoRead]
    BY <1>3, <2>1
  <2>5. ASSUME p = "award", runOf[p].at + 1 \in {4, 5} PROVE SeenRight(new.revision)'
    <3>1. runOf["award"].at \in 1..9
      BY <1>1, <2>5, PilotPlaces DEF PilotOK, PilotRuns
    <3>2. runOf["award"].at = 3 /\ Step("award") = "quote"
      BY <2>5, <3>1, AwardPlaces DEF Posting
    <3>3. Verified("award")
      BY <2>5 DEF ReadsOn
    <3>4. PreState(runOf["award"].saw)
      BY <3>2, <3>3 DEF Verified
    <3>5. new.revision = os.quote.revision /\ os.quote.revision \in Nat
      BY <1>1, <2>3, <2>5, <3>2, TablesOf DEF TablesOK, JobQuotes
    <3> QED  BY <3>4, <3>5 DEF PreState, SeenRight
  <2>6. runOf[p].at + 1 \notin Verifying[p] => new.fits
    BY <1>1, <2>2, <2>3, ReadOnPlaces
  <2>7. PilotOK(p)'
    BY <1>1, <1>3, <2>3, <2>4, <2>5, <2>6, RunGoesOn
  <2>8. ASSUME writes = 0, p \in BudgetPilots, new.fits PROVE os.stage = "awarded"
    <3>1. runOf[p].at >= 2 /\ saw.fits => os.stage = "awarded"
      BY <1>1, <2>2, <2>8 DEF PilotsInv, Sound, SoundRun
    <3>2. CASE Step(p) = "project"
      <4>1. ReadsOn(p)
        BY <2>8, <3>2 DEF ReadsOn, BudgetPilots
      <4>2. ProjectVerified(p)
        BY <2>3, <2>8, <3>2, <4>1 DEF Verified
      <4> QED  BY <2>8, <4>2 DEF ProjectVerified, BudgetPilots, Awarded
    <3>3. CASE Step(p) # "project"
      <4>1. runOf[p].at >= 2
        <5>0. runOf[p].at \in 1..Len(Programs[p])
          BY <1>1, PilotPlaces DEF PilotOK, PilotRuns
        <5>1. p = "budget" => runOf["budget"].at \in 1..9
          BY <5>0, PilotPlaces
        <5>2. p = "plan" => runOf["plan"].at \in 1..10
          BY <5>0, PilotPlaces
        <5> QED  BY <2>8, <3>3, <5>1, <5>2, BudgetPlaces, PlanPlaces DEF BudgetPilots
      <4>2. saw.fits
        BY <2>3, <2>8, <3>3 DEF ReadsOn
      <4> QED  BY <3>1, <4>1, <4>2
    <3> QED  BY <3>2, <3>3
  <2>9. writes = 0 => SoundRun(p)'
    BY <2>4, <2>8 DEF SoundRun
  <2> QED  BY <2>7, <2>9
<1> QED  BY <1>2, <1>3

\* What is said of the tables is the same of the same tables.
LEMMA SameJob ==
  ASSUME os' = os
  PROVE  /\ DraftQuote' <=> DraftQuote
         /\ PilotQuote' <=> PilotQuote
         /\ Awarded' <=> Awarded
         /\ Accepted' <=> Accepted
         /\ Budgeted' <=> Budgeted
         /\ PlanIsSafe' <=> PlanIsSafe
         /\ PlanVerified' <=> PlanVerified
         /\ LaunchVerified' <=> LaunchVerified
         /\ AllocatedProject' <=> AllocatedProject
         /\ LaunchControls' <=> LaunchControls
         /\ LaunchDashboard' <=> LaunchDashboard
         /\ GateDashboard' <=> GateDashboard
         /\ NoneOf({"control"})' <=> NoneOf({"control"})
         /\ Counts("launch")' = Counts("launch")
         /\ Counts("gate")' = Counts("gate")
  BY DEF DraftQuote, PilotQuote, Awarded, Accepted, Budgeted, PlanIsSafe, PlanVerified, LaunchVerified, AllocatedProject,
         LaunchControls, LaunchDashboard, GateDashboard, NoneOf, Counts


\* What the draft has verified, it knows; so with the others.
LEMMA DraftLearns ==
  ASSUME TablesOK, PilotOK("draft"), runOf["draft"].at # 0, ~Posting("draft"), Knows("draft"), os' = os,
         ReadsOn("draft") \/ (Verified("draft") /\ runOf["draft"].saw.fits),
         runOf'["draft"] = IF runOf["draft"].at = Len(Programs["draft"]) THEN NotRunning
                         ELSE [at |-> runOf["draft"].at + 1, saw |-> Sight("draft"), read |-> NoRead]
  PROVE  IF runOf'["draft"].at # 0 THEN Knows("draft")' ELSE Reported("draft")'
<1>1. "draft" \in Pilots /\ runOf["draft"].at \in 1..5 /\ Len(Programs["draft"]) = 5
  BY PilotPlaces DEF PilotOK, PilotRuns
<1>2. PICK r, saw, new, next : r = runOf["draft"] /\ saw = r.saw /\ new = Sight("draft") /\ next = runOf'["draft"]
  OBVIOUS
<1>3. r.at # 5 => next.at = r.at + 1 /\ next.saw = new /\ next.read = NoRead
  <2> SUFFICES ASSUME r.at # 5 PROVE next.at = r.at + 1 /\ next.saw = new /\ next.read = NoRead
    OBVIOUS
  <2>1. runOf["draft"].at # Len(Programs["draft"])
    BY <1>1, <1>2
  <2>2. next = [at |-> runOf["draft"].at + 1, saw |-> Sight("draft"), read |-> NoRead]
    BY <1>2, <2>1
  <2> QED  BY <1>2, <2>2
<1>4. r.at = 5 => next.at = 0
  BY <1>1, <1>2 DEF NotRunning
<1>5. /\ new.first = saw.first
      /\ Step("draft") = "quote" /\ ReadsOn("draft") => (new.fits <=> saw.fits /\ Verified("draft"))
      /\ Step("draft") = "count" => new.counts = Counts("draft")
      /\ Step("draft") # "count" => new.counts = saw.counts
  BY <1>1, <1>2, SightKept
<1>6. KnowsDraft
  BY DEF Knows
<1>7. CASE r.at = 1
  <2>1. Step("draft") = "project"
    BY <1>1, <1>2, <1>7, DraftPlaces
  <2>2. os.stage = "opportunity" /\ os.job = 0
    BY <1>2, <2>1 DEF Verified, ProjectVerified, ReadsOn
  <2> QED  BY <1>2, <1>3, <1>5, <1>6, <1>7, <2>1, <2>2, SameJob DEF Knows, KnowsDraft, ReadsOn
<1>8. CASE r.at = 2
  <2>1. Step("draft") = "estimate"
    BY <1>1, <1>2, <1>8, DraftPlaces
  <2> QED  BY <1>2, <1>3, <1>5, <1>6, <1>8, <2>1, SameJob DEF Knows, KnowsDraft, ReadsOn
<1>9. CASE r.at = 5
  <2>1. Step("draft") = "register"
    BY <1>1, <1>2, <1>9, DraftPlaces
  <2> QED  BY <1>2, <1>4, <1>6, <1>9, <2>1, SameJob DEF Reported, KnowsDraft
<1>10. r.at \in {1, 2, 5}
  BY <1>1, <1>2, DraftPlaces DEF Posting
<1> QED  BY <1>7, <1>8, <1>9, <1>10

\* The award
LEMMA AwardLearns ==
  ASSUME TablesOK, PilotOK("award"), runOf["award"].at # 0, ~Posting("award"), Knows("award"), os' = os,
         ReadsOn("award") \/ (Verified("award") /\ runOf["award"].saw.fits),
         runOf'["award"] = IF runOf["award"].at = Len(Programs["award"]) THEN NotRunning
                         ELSE [at |-> runOf["award"].at + 1, saw |-> Sight("award"), read |-> NoRead]
  PROVE  IF runOf'["award"].at # 0 THEN Knows("award")' ELSE Reported("award")'
<1>1. "award" \in Pilots /\ runOf["award"].at \in 1..9 /\ Len(Programs["award"]) = 9
  BY PilotPlaces DEF PilotOK, PilotRuns
<1>2. PICK r, saw, new, next : r = runOf["award"] /\ saw = r.saw /\ new = Sight("award") /\ next = runOf'["award"]
  OBVIOUS
<1>3. r.at # 9 => next.at = r.at + 1 /\ next.saw = new /\ next.read = NoRead
  <2> SUFFICES ASSUME r.at # 9 PROVE next.at = r.at + 1 /\ next.saw = new /\ next.read = NoRead
    OBVIOUS
  <2>1. runOf["award"].at # Len(Programs["award"])
    BY <1>1, <1>2
  <2>2. next = [at |-> runOf["award"].at + 1, saw |-> Sight("award"), read |-> NoRead]
    BY <1>2, <2>1
  <2> QED  BY <1>2, <2>2
<1>4. r.at = 9 => next.at = 0
  BY <1>1, <1>2 DEF NotRunning
<1>5. /\ new.first = saw.first
      /\ Step("award") = "quote" /\ "award" = "award" => new.revision = os.quote.revision
      /\ ~(Step("award") = "quote" /\ "award" = "award") => new.revision = saw.revision
      /\ Step("award") = "project" /\ "award" = "award" => new.stage = os.stage /\ new.job = os.job
      /\ ~(Step("award") = "project" /\ "award" = "award") => new.stage = saw.stage /\ new.job = saw.job
      /\ Step("award") = "quote" /\ ReadsOn("award") => (new.fits <=> saw.fits /\ Verified("award"))
      /\ Step("award") = "count" => new.counts = Counts("award")
      /\ Step("award") # "count" => new.counts = saw.counts
  BY <1>1, <1>2, SightKept
<1>6. KnowsAward
  BY DEF Knows
<1>7. CASE r.at = 1
  <2>1. Step("award") = "project"
    BY <1>1, <1>2, <1>7, AwardPlaces
  <2> QED  BY <1>2, <1>3, <1>5, <1>6, <1>7, <2>1, SameJob DEF Knows, KnowsAward, ReadsOn, AwardedProject, PlanIsSafe
<1>8. CASE r.at = 2
  <2>1. Step("award") = "estimate"
    BY <1>1, <1>2, <1>8, AwardPlaces
  <2> QED  BY <1>2, <1>3, <1>5, <1>6, <1>8, <2>1, SameJob DEF Knows, KnowsAward, ReadsOn, AwardedProject, PlanIsSafe
<1>9. CASE r.at = 3
  <2>1. Step("award") = "quote"
    BY <1>1, <1>2, <1>9, AwardPlaces
  <2> QED  BY <1>2, <1>3, <1>5, <1>6, <1>9, <2>1, SameJob DEF Knows, KnowsAward, ReadsOn, AwardedProject, PlanIsSafe
<1>10. CASE r.at = 6
  <2>1. Step("award") = "outcome"
    BY <1>1, <1>2, <1>10, AwardPlaces
  <2>2. AwardedProject(saw)
    BY <1>2, <2>1 DEF Verified, OutcomeVerified, ReadsOn
  <2> QED  BY <1>2, <1>3, <1>5, <1>6, <1>10, <2>1, <2>2, SameJob DEF Knows, KnowsAward, ReadsOn, AwardedProject, PlanIsSafe
<1>11. CASE r.at = 7
  <2>1. Step("award") = "workspace"
    BY <1>1, <1>2, <1>11, AwardPlaces
  <2> QED  BY <1>2, <1>3, <1>5, <1>6, <1>11, <2>1, SameJob DEF Knows, KnowsAward, ReadsOn, AwardedProject, PlanIsSafe
<1>12. CASE r.at = 8
  <2>1. Step("award") = "checklist"
    BY <1>1, <1>2, <1>12, AwardPlaces
  <2>2. NoneOf({"control"})
    BY <1>2, <2>1 DEF Verified, ReadsOn
  <2> QED  BY <1>2, <1>3, <1>5, <1>6, <1>12, <2>1, <2>2, SameJob DEF Knows, KnowsAward, ReadsOn, AwardedProject, PlanIsSafe
<1>13. CASE r.at = 9
  <2>1. Step("award") = "dashboard"
    BY <1>1, <1>2, <1>13, AwardPlaces
  <2> QED  BY <1>2, <1>4, <1>6, <1>13, <2>1, SameJob DEF Reported, KnowsAward, AwardedProject, PlanIsSafe
<1>14. r.at \in {1, 2, 3, 6, 7, 8, 9}
  BY <1>1, <1>2, AwardPlaces DEF Posting
<1> QED  BY <1>7, <1>8, <1>9, <1>10, <1>11, <1>12, <1>13, <1>14

\* The budget
LEMMA BudgetLearns ==
  ASSUME TablesOK, PilotOK("budget"), runOf["budget"].at # 0, ~Posting("budget"), Knows("budget"), os' = os,
         ReadsOn("budget") \/ (Verified("budget") /\ runOf["budget"].saw.fits),
         runOf'["budget"] = IF runOf["budget"].at = Len(Programs["budget"]) THEN NotRunning
                         ELSE [at |-> runOf["budget"].at + 1, saw |-> Sight("budget"), read |-> NoRead]
  PROVE  IF runOf'["budget"].at # 0 THEN Knows("budget")' ELSE Reported("budget")'
<1>1. "budget" \in Pilots /\ runOf["budget"].at \in 1..9 /\ Len(Programs["budget"]) = 9
  BY PilotPlaces DEF PilotOK, PilotRuns
<1>2. PICK r, saw, new, next : r = runOf["budget"] /\ saw = r.saw /\ new = Sight("budget") /\ next = runOf'["budget"]
  OBVIOUS
<1>3. r.at # 9 => next.at = r.at + 1 /\ next.saw = new /\ next.read = NoRead
  <2> SUFFICES ASSUME r.at # 9 PROVE next.at = r.at + 1 /\ next.saw = new /\ next.read = NoRead
    OBVIOUS
  <2>1. runOf["budget"].at # Len(Programs["budget"])
    BY <1>1, <1>2
  <2>2. next = [at |-> runOf["budget"].at + 1, saw |-> Sight("budget"), read |-> NoRead]
    BY <1>2, <2>1
  <2> QED  BY <1>2, <2>2
<1>4. r.at = 9 => next.at = 0
  BY <1>1, <1>2 DEF NotRunning
<1>5. /\ new.first = saw.first
      /\ Step("budget") = "project" /\ ReadsOn("budget") =>
           new.plan = os.plan /\ new.launch = os.launch /\ (new.fits <=> Verified("budget"))
      /\ ~(Step("budget") = "project" /\ ReadsOn("budget")) => new.plan = saw.plan /\ new.launch = saw.launch
      /\ Step("budget") = "quote" /\ ReadsOn("budget") => (new.fits <=> saw.fits /\ Verified("budget"))
      /\ ~ReadsOn("budget") => new.fits = saw.fits
      /\ Step("budget") = "count" => new.counts = Counts("budget")
      /\ Step("budget") # "count" => new.counts = saw.counts
  BY <1>1, <1>2, SightKept
<1>6. KnowsBudget
  BY DEF Knows
<1>7. CASE r.at = 1
  <2>1. Step("budget") = "project"
    BY <1>1, <1>2, <1>7, BudgetPlaces
  <2>2. ReadsOn("budget") /\ (Verified("budget") <=> Awarded)
    BY <1>2, <2>1 DEF Verified, ProjectVerified, ReadsOn
  <2> QED  BY <1>2, <1>3, <1>5, <1>6, <1>7, <2>1, <2>2, SameJob DEF Knows, KnowsBudget
<1>8. CASE r.at = 2
  <2>1. Step("budget") = "quote"
    BY <1>1, <1>2, <1>8, BudgetPlaces
  <2>2. ReadsOn("budget") /\ (Verified("budget") <=> Accepted)
    BY <1>2, <2>1 DEF Verified, ReadsOn
  <2> QED  BY <1>2, <1>3, <1>5, <1>6, <1>8, <2>1, <2>2, SameJob DEF Knows, KnowsBudget
<1>9. CASE r.at = 3
  <2>1. Step("budget") = "estimate"
    BY <1>1, <1>2, <1>9, BudgetPlaces
  <2>2. saw.fits
    BY <1>2, <2>1 DEF ReadsOn
  <2> QED  BY <1>2, <1>3, <1>5, <1>6, <1>9, <2>1, <2>2, SameJob DEF Knows, KnowsBudget, ReadsOn
<1>10. CASE r.at = 4
  <2>1. Step("budget") = "finance"
    BY <1>1, <1>2, <1>10, BudgetPlaces
  <2> QED  BY <1>2, <1>3, <1>5, <1>6, <1>10, <2>1, SameJob DEF Knows, KnowsBudget, ReadsOn
<1>11. CASE r.at = 7
  <2>1. Step("budget") = "outcome"
    BY <1>1, <1>2, <1>11, BudgetPlaces
  <2>2. AllocatedProject
    BY <1>2, <2>1 DEF Verified, OutcomeVerified, ReadsOn
  <2> QED  BY <1>2, <1>3, <1>5, <1>6, <1>11, <2>1, <2>2, SameJob DEF Knows, KnowsBudget, ReadsOn
<1>12. CASE r.at = 8
  <2>1. Step("budget") = "dashboard"
    BY <1>1, <1>2, <1>12, BudgetPlaces
  <2> QED  BY <1>2, <1>3, <1>5, <1>6, <1>12, <2>1, SameJob DEF Knows, KnowsBudget, ReadsOn
<1>13. CASE r.at = 9
  <2>1. Step("budget") = "codes"
    BY <1>1, <1>2, <1>13, BudgetPlaces
  <2> QED  BY <1>2, <1>4, <1>6, <1>13, <2>1, SameJob DEF Reported, KnowsBudget
<1>14. r.at \in {1, 2, 3, 4, 7, 8, 9}
  BY <1>1, <1>2, BudgetPlaces DEF Posting
<1> QED  BY <1>7, <1>8, <1>9, <1>10, <1>11, <1>12, <1>13, <1>14

\* The plan
LEMMA PlanLearns ==
  ASSUME TablesOK, PilotOK("plan"), runOf["plan"].at # 0, ~Posting("plan"), Knows("plan"), os' = os,
         ReadsOn("plan") \/ (Verified("plan") /\ runOf["plan"].saw.fits),
         runOf'["plan"] = IF runOf["plan"].at = Len(Programs["plan"]) THEN NotRunning
                         ELSE [at |-> runOf["plan"].at + 1, saw |-> Sight("plan"), read |-> NoRead]
  PROVE  IF runOf'["plan"].at # 0 THEN Knows("plan")' ELSE Reported("plan")'
<1>1. "plan" \in Pilots /\ runOf["plan"].at \in 1..10 /\ Len(Programs["plan"]) = 10
  BY PilotPlaces DEF PilotOK, PilotRuns
<1>2. PICK r, saw, new, next : r = runOf["plan"] /\ saw = r.saw /\ new = Sight("plan") /\ next = runOf'["plan"]
  OBVIOUS
<1>3. r.at # 10 => next.at = r.at + 1 /\ next.saw = new /\ next.read = NoRead
  <2> SUFFICES ASSUME r.at # 10 PROVE next.at = r.at + 1 /\ next.saw = new /\ next.read = NoRead
    OBVIOUS
  <2>1. runOf["plan"].at # Len(Programs["plan"])
    BY <1>1, <1>2
  <2>2. next = [at |-> runOf["plan"].at + 1, saw |-> Sight("plan"), read |-> NoRead]
    BY <1>2, <2>1
  <2> QED  BY <1>2, <2>2
<1>4. r.at = 10 => next.at = 0
  BY <1>1, <1>2 DEF NotRunning
<1>5. /\ new.first = saw.first
      /\ Step("plan") = "project" /\ ReadsOn("plan") =>
           new.plan = os.plan /\ new.launch = os.launch /\ (new.fits <=> Verified("plan"))
      /\ ~(Step("plan") = "project" /\ ReadsOn("plan")) => new.plan = saw.plan /\ new.launch = saw.launch
      /\ Step("plan") = "quote" /\ ReadsOn("plan") => (new.fits <=> saw.fits /\ Verified("plan"))
      /\ ~ReadsOn("plan") => new.fits = saw.fits
      /\ Step("plan") = "count" => new.counts = Counts("plan")
      /\ Step("plan") # "count" => new.counts = saw.counts
  BY <1>1, <1>2, SightKept
<1>6. KnowsPlan
  BY DEF Knows
<1>7. CASE r.at = 1
  <2>1. Step("plan") = "project"
    BY <1>1, <1>2, <1>7, PlanPlaces
  <2>2. ReadsOn("plan") /\ (Verified("plan") <=> Awarded /\ PlanIsSafe)
    BY <1>2, <2>1 DEF Verified, ProjectVerified, ReadsOn
  <2> QED  BY <1>2, <1>3, <1>5, <1>6, <1>7, <2>1, <2>2, SameJob DEF Knows, KnowsPlan, PlanVerified
<1>8. CASE r.at = 2
  <2>1. Step("plan") = "quote"
    BY <1>1, <1>2, <1>8, PlanPlaces
  <2>2. ReadsOn("plan") /\ (Verified("plan") <=> Accepted)
    BY <1>2, <2>1 DEF Verified, ReadsOn
  <2> QED  BY <1>2, <1>3, <1>5, <1>6, <1>8, <2>1, <2>2, SameJob DEF Knows, KnowsPlan, PlanVerified
<1>9. CASE r.at = 3
  <2>1. Step("plan") = "estimate"
    BY <1>1, <1>2, <1>9, PlanPlaces
  <2>2. saw.fits
    BY <1>2, <2>1 DEF ReadsOn
  <2> QED  BY <1>2, <1>3, <1>5, <1>6, <1>9, <2>1, <2>2, SameJob DEF Knows, KnowsPlan, ReadsOn, PlanVerified
<1>10. CASE r.at = 4
  <2>1. Step("plan") = "finance"
    BY <1>1, <1>2, <1>10, PlanPlaces
  <2> QED  BY <1>2, <1>3, <1>5, <1>6, <1>10, <2>1, SameJob DEF Knows, KnowsPlan, ReadsOn, PlanVerified
<1>11. CASE r.at = 5
  <2>1. Step("plan") = "before"
    BY <1>1, <1>2, <1>11, PlanPlaces
  <2> QED  BY <1>2, <1>3, <1>5, <1>6, <1>11, <2>1, SameJob DEF Knows, KnowsPlan, ReadsOn, PlanVerified
<1>12. CASE r.at = 7
  <2>1. Step("plan") = "outcome"
    BY <1>1, <1>2, <1>12, PlanPlaces
  <2>2. PlanVerified
    BY <1>2, <2>1 DEF Verified, OutcomeVerified, ReadsOn
  <2> QED  BY <1>2, <1>3, <1>5, <1>6, <1>12, <2>1, <2>2, SameJob DEF Knows, KnowsPlan, ReadsOn, PlanVerified
<1>13. CASE r.at = 9
  <2>1. Step("plan") = "outcome"
    BY <1>1, <1>2, <1>13, PlanPlaces
  <2> QED  BY <1>2, <1>3, <1>5, <1>6, <1>13, <2>1, SameJob DEF Knows, KnowsPlan, ReadsOn, PlanVerified
<1>14. CASE r.at = 10
  <2>1. Step("plan") = "dashboard"
    BY <1>1, <1>2, <1>14, PlanPlaces
  <2>2. LaunchControls
    BY <1>2, <2>1 DEF Verified, DashboardVerified, ReadsOn
  <2> QED  BY <1>2, <1>4, <1>6, <1>14, <2>1, <2>2, SameJob DEF Reported, KnowsPlan, PlanVerified
<1>15. r.at \in {1, 2, 3, 4, 5, 7, 9, 10}
  BY <1>1, <1>2, PlanPlaces DEF Posting
<1> QED  BY <1>7, <1>8, <1>9, <1>10, <1>11, <1>12, <1>13, <1>14, <1>15

\* The launch
LEMMA LaunchLearns ==
  ASSUME TablesOK, PilotOK("launch"), runOf["launch"].at # 0, ~Posting("launch"), Knows("launch"), os' = os,
         ReadsOn("launch") \/ (Verified("launch") /\ runOf["launch"].saw.fits),
         runOf'["launch"] = IF runOf["launch"].at = Len(Programs["launch"]) THEN NotRunning
                         ELSE [at |-> runOf["launch"].at + 1, saw |-> Sight("launch"), read |-> NoRead]
  PROVE  IF runOf'["launch"].at # 0 THEN Knows("launch")' ELSE Reported("launch")'
<1>1. "launch" \in Pilots /\ runOf["launch"].at \in 1..11 /\ Len(Programs["launch"]) = 11
  BY PilotPlaces DEF PilotOK, PilotRuns
<1>2. PICK r, saw, new, next : r = runOf["launch"] /\ saw = r.saw /\ new = Sight("launch") /\ next = runOf'["launch"]
  OBVIOUS
<1>3. r.at # 11 => next.at = r.at + 1 /\ next.saw = new /\ next.read = NoRead
  <2> SUFFICES ASSUME r.at # 11 PROVE next.at = r.at + 1 /\ next.saw = new /\ next.read = NoRead
    OBVIOUS
  <2>1. runOf["launch"].at # Len(Programs["launch"])
    BY <1>1, <1>2
  <2>2. next = [at |-> runOf["launch"].at + 1, saw |-> Sight("launch"), read |-> NoRead]
    BY <1>2, <2>1
  <2> QED  BY <1>2, <2>2
<1>4. r.at = 11 => next.at = 0
  BY <1>1, <1>2 DEF NotRunning
<1>5. /\ new.first = saw.first
      /\ Step("launch") = "project" /\ ReadsOn("launch") =>
           new.plan = os.plan /\ new.launch = os.launch /\ (new.fits <=> Verified("launch"))
      /\ ~(Step("launch") = "project" /\ ReadsOn("launch")) => new.plan = saw.plan /\ new.launch = saw.launch
      /\ Step("launch") = "quote" /\ ReadsOn("launch") => (new.fits <=> saw.fits /\ Verified("launch"))
      /\ ~ReadsOn("launch") => new.fits = saw.fits
      /\ Step("launch") = "count" => new.counts = Counts("launch")
      /\ Step("launch") # "count" => new.counts = saw.counts
  BY <1>1, <1>2, SightKept
<1>6. KnowsLaunch
  BY DEF Knows
<1>7. CASE r.at = 1
  <2>1. Step("launch") = "project"
    BY <1>1, <1>2, <1>7, LaunchPlaces
  <2>2. ReadsOn("launch") /\ (Verified("launch") <=> Awarded /\ PlanVerified)
    BY <1>2, <2>1 DEF Verified, ProjectVerified, ReadsOn
  <2> QED  BY <1>2, <1>3, <1>5, <1>6, <1>7, <2>1, <2>2, SameJob DEF Knows, KnowsLaunch
<1>8. CASE r.at = 2
  <2>1. Step("launch") = "quote"
    BY <1>1, <1>2, <1>8, LaunchPlaces
  <2>2. ReadsOn("launch") /\ (Verified("launch") <=> Accepted)
    BY <1>2, <2>1 DEF Verified, ReadsOn
  <2> QED  BY <1>2, <1>3, <1>5, <1>6, <1>8, <2>1, <2>2, SameJob DEF Knows, KnowsLaunch
<1>9. CASE r.at = 3
  <2>1. Step("launch") = "estimate"
    BY <1>1, <1>2, <1>9, LaunchPlaces
  <2>2. saw.fits
    BY <1>2, <2>1 DEF ReadsOn
  <2> QED  BY <1>2, <1>3, <1>5, <1>6, <1>9, <2>1, <2>2, SameJob DEF Knows, KnowsLaunch, ReadsOn
<1>10. CASE r.at = 4
  <2>1. Step("launch") = "finance"
    BY <1>1, <1>2, <1>10, LaunchPlaces
  <2> QED  BY <1>2, <1>3, <1>5, <1>6, <1>10, <2>1, SameJob DEF Knows, KnowsLaunch, ReadsOn
<1>11. CASE r.at = 5
  <2>1. Step("launch") = "count"
    BY <1>1, <1>2, <1>11, LaunchPlaces
  <2> QED  BY <1>2, <1>3, <1>5, <1>6, <1>11, <2>1, SameJob DEF Knows, KnowsLaunch, ReadsOn
<1>12. CASE r.at = 8
  <2>1. Step("launch") = "outcome"
    BY <1>1, <1>2, <1>12, LaunchPlaces
  <2> QED  BY <1>2, <1>3, <1>5, <1>6, <1>12, <2>1, SameJob DEF Knows, KnowsLaunch, ReadsOn
<1>13. CASE r.at = 9
  <2>1. Step("launch") = "workspace"
    BY <1>1, <1>2, <1>13, LaunchPlaces
  <2> QED  BY <1>2, <1>3, <1>5, <1>6, <1>13, <2>1, SameJob DEF Knows, KnowsLaunch, ReadsOn
<1>14. CASE r.at = 10
  <2>1. Step("launch") = "dashboard"
    BY <1>1, <1>2, <1>14, LaunchPlaces
  <2>2. LaunchDashboard
    BY <1>2, <2>1 DEF Verified, DashboardVerified, ReadsOn
  <2> QED  BY <1>2, <1>3, <1>5, <1>6, <1>14, <2>1, <2>2, SameJob DEF Knows, KnowsLaunch, ReadsOn
<1>15. CASE r.at = 11
  <2>1. Step("launch") = "recount"
    BY <1>1, <1>2, <1>15, LaunchPlaces
  <2> QED  BY <1>2, <1>4, <1>6, <1>15, <2>1, SameJob DEF Reported, KnowsLaunch
<1>16. r.at \in {1, 2, 3, 4, 5, 8, 9, 10, 11}
  BY <1>1, <1>2, LaunchPlaces DEF Posting
<1> QED  BY <1>7, <1>8, <1>9, <1>10, <1>11, <1>12, <1>13, <1>14, <1>15, <1>16

\* The gate
LEMMA GateLearns ==
  ASSUME TablesOK, PilotOK("gate"), runOf["gate"].at # 0, ~Posting("gate"), Knows("gate"), os' = os,
         ReadsOn("gate") \/ (Verified("gate") /\ runOf["gate"].saw.fits),
         runOf'["gate"] = IF runOf["gate"].at = Len(Programs["gate"]) THEN NotRunning
                         ELSE [at |-> runOf["gate"].at + 1, saw |-> Sight("gate"), read |-> NoRead]
  PROVE  IF runOf'["gate"].at # 0 THEN Knows("gate")' ELSE Reported("gate")'
<1>1. "gate" \in Pilots /\ runOf["gate"].at \in 1..9 /\ Len(Programs["gate"]) = 9
  BY PilotPlaces DEF PilotOK, PilotRuns
<1>2. PICK r, saw, new, next : r = runOf["gate"] /\ saw = r.saw /\ new = Sight("gate") /\ next = runOf'["gate"]
  OBVIOUS
<1>3. r.at # 9 => next.at = r.at + 1 /\ next.saw = new /\ next.read = NoRead
  <2> SUFFICES ASSUME r.at # 9 PROVE next.at = r.at + 1 /\ next.saw = new /\ next.read = NoRead
    OBVIOUS
  <2>1. runOf["gate"].at # Len(Programs["gate"])
    BY <1>1, <1>2
  <2>2. next = [at |-> runOf["gate"].at + 1, saw |-> Sight("gate"), read |-> NoRead]
    BY <1>2, <2>1
  <2> QED  BY <1>2, <2>2
<1>4. r.at = 9 => next.at = 0
  BY <1>1, <1>2 DEF NotRunning
<1>5. /\ new.first = saw.first
      /\ Step("gate") = "project" /\ ReadsOn("gate") =>
           new.plan = os.plan /\ new.launch = os.launch /\ (new.fits <=> Verified("gate"))
      /\ ~(Step("gate") = "project" /\ ReadsOn("gate")) => new.plan = saw.plan /\ new.launch = saw.launch
      /\ Step("gate") = "quote" /\ ReadsOn("gate") => (new.fits <=> saw.fits /\ Verified("gate"))
      /\ ~ReadsOn("gate") => new.fits = saw.fits
      /\ Step("gate") = "count" => new.counts = Counts("gate")
      /\ Step("gate") # "count" => new.counts = saw.counts
  BY <1>1, <1>2, SightKept
<1>6. KnowsGate
  BY DEF Knows
<1>7. CASE r.at = 1
  <2>1. Step("gate") = "count"
    BY <1>1, <1>2, <1>7, GatePlaces
  <2> QED  BY <1>2, <1>3, <1>5, <1>6, <1>7, <2>1, SameJob DEF Knows, KnowsGate, ReadsOn
<1>8. CASE r.at = 2
  <2>1. Step("gate") = "project"
    BY <1>1, <1>2, <1>8, GatePlaces
  <2>2. ReadsOn("gate") /\ (Verified("gate") <=> Awarded /\ PlanVerified /\ LaunchVerified)
    BY <1>2, <2>1 DEF Verified, ProjectVerified, ReadsOn
  <2> QED  BY <1>2, <1>3, <1>5, <1>6, <1>8, <2>1, <2>2, SameJob DEF Knows, KnowsGate
<1>9. CASE r.at = 3
  <2>1. Step("gate") = "quote"
    BY <1>1, <1>2, <1>9, GatePlaces
  <2>2. ReadsOn("gate") /\ (Verified("gate") <=> Accepted)
    BY <1>2, <2>1 DEF Verified, ReadsOn
  <2> QED  BY <1>2, <1>3, <1>5, <1>6, <1>9, <2>1, <2>2, SameJob DEF Knows, KnowsGate
<1>10. CASE r.at = 4
  <2>1. Step("gate") = "estimate"
    BY <1>1, <1>2, <1>10, GatePlaces
  <2>2. saw.fits
    BY <1>2, <2>1 DEF ReadsOn
  <2> QED  BY <1>2, <1>3, <1>5, <1>6, <1>10, <2>1, <2>2, SameJob DEF Knows, KnowsGate, ReadsOn
<1>11. CASE r.at = 5
  <2>1. Step("gate") = "finance"
    BY <1>1, <1>2, <1>11, GatePlaces
  <2> QED  BY <1>2, <1>3, <1>5, <1>6, <1>11, <2>1, SameJob DEF Knows, KnowsGate, ReadsOn
<1>12. CASE r.at = 6
  <2>1. Step("gate") = "dashboard"
    BY <1>1, <1>2, <1>12, GatePlaces
  <2>2. GateDashboard
    BY <1>2, <2>1 DEF Verified, DashboardVerified, ReadsOn
  <2> QED  BY <1>2, <1>3, <1>5, <1>6, <1>12, <2>1, <2>2, SameJob DEF Knows, KnowsGate, ReadsOn
<1>13. CASE r.at = 7
  <2>1. Step("gate") = "workspace"
    BY <1>1, <1>2, <1>13, GatePlaces
  <2> QED  BY <1>2, <1>3, <1>5, <1>6, <1>13, <2>1, SameJob DEF Knows, KnowsGate, ReadsOn
<1>14. CASE r.at = 8
  <2>1. Step("gate") = "sheets"
    BY <1>1, <1>2, <1>14, GatePlaces
  <2> QED  BY <1>2, <1>3, <1>5, <1>6, <1>14, <2>1, SameJob DEF Knows, KnowsGate, ReadsOn
<1>15. CASE r.at = 9
  <2>1. Step("gate") = "recount"
    BY <1>1, <1>2, <1>15, GatePlaces
  <2> QED  BY <1>2, <1>4, <1>6, <1>15, <2>1, SameJob DEF Reported, KnowsGate
<1>16. r.at \in {1, 2, 3, 4, 5, 6, 7, 8, 9}
  BY <1>1, <1>2, GatePlaces DEF Posting
<1> QED  BY <1>7, <1>8, <1>9, <1>10, <1>11, <1>12, <1>13, <1>14, <1>15, <1>16


\* A job as pilots leave it: what is verified of it follows from how far they are.
LEMMA SoundFacts ==
  ASSUME TablesOK, SoundJob
  PROVE  /\ NoneOf({"control"}) /\ NoneOf({"record"}) /\ NoneOf({"sheet"}) /\ NoneOf({"record", "control"})
         /\ os.estimate = "approved" /\ os.manual = "none" /\ os.exact /\ ~os.approval /\ os.launch \in {"none", "blocked"}
         /\ os.quote # NoQuote => os.quote.issue = "draft" /\ os.quote.right /\ os.quote.source = "approved"
         /\ os.quote # NoQuote /\ os.quote.status # "accepted" => os.quote.status = "draft"
         /\ os.quote.status # "accepted" =>
              /\ os.stage = "opportunity" /\ os.job = 0 /\ os.baseline = "none" /\ os.plan = "none" /\ os.entries = 0
         /\ os.quote.status = "accepted" =>
              /\ Awarded /\ Accepted /\ PilotQuote /\ PlanIsSafe /\ os.plan \in {"shell", "four"}
              /\ os.baseline = (IF os.entries # 0 THEN "allocated" ELSE "open")
         /\ os.entries # 0 => Budgeted /\ os.baseline = "allocated" /\ os.quote.status = "accepted"
         /\ os.entries = 0 => NoBudget
         /\ os.plan = "four" => os.entries # 0
<1>1. os.plan \in {"none", "shell", "four"} /\ os.entries \in Nat
  BY TablesOf DEF TablesOK
<1>2. /\ os.field.control = 0 /\ os.field.record = 0 /\ os.field.sheet = 0
  BY DEF SoundJob
<1>3. NoneOf({"control"}) /\ NoneOf({"record"}) /\ NoneOf({"sheet"}) /\ NoneOf({"record", "control"})
  BY <1>2 DEF NoneOf
<1>4. os.estimate = "approved" /\ os.manual = "none" /\ os.exact /\ ~os.approval /\ os.launch \in {"none", "blocked"}
  BY DEF SoundJob
<1>5. /\ os.quote # NoQuote => os.quote.issue = "draft" /\ os.quote.right /\ os.quote.source = "approved"
      /\ os.quote # NoQuote /\ os.quote.status # "accepted" => os.quote.status = "draft"
  BY DEF SoundJob
<1>6. CASE os.quote.status # "accepted"
  <2>1. os.stage = "opportunity" /\ os.job = 0 /\ os.baseline = "none" /\ os.plan = "none" /\ os.entries = 0
    BY <1>6 DEF SoundJob
  <2> QED  BY <1>3, <1>4, <1>5, <1>6, <2>1 DEF NoBudget
<1>7. CASE os.quote.status = "accepted"
  <2>1. os.quote # NoQuote
    BY <1>7 DEF NoQuote
  <2>2. os.quote.by = "pilot"
    BY <1>7, <2>1 DEF SoundJob
  <2>3. /\ os.stage = "awarded" /\ os.job = 1
        /\ os.baseline = (IF os.entries # 0 THEN "allocated" ELSE "open")
        /\ os.plan # "none" /\ (os.plan = "four" => os.entries # 0)
    BY <1>7 DEF SoundJob
  <2>4. Awarded /\ Accepted /\ PilotQuote /\ PlanIsSafe
    BY <1>4, <1>5, <1>7, <2>1, <2>2, <2>3 DEF Awarded, Accepted, PilotQuote, PlanIsSafe
  <2>5. (os.entries # 0 => Budgeted) /\ (os.entries = 0 => NoBudget)
    BY <1>4 DEF Budgeted, NoBudget
  <2> QED  BY <1>1, <1>3, <1>4, <1>5, <1>7, <2>3, <2>4, <2>5
<1> QED  BY <1>6, <1>7

\* What the draft finds when it is its turn and nobody but pilots has written; so with the others.
LEMMA DraftTurn ==
  ASSUME TablesOK, SoundJob, ItsTurn("draft")
  PROVE  /\ os.stage = "opportunity" /\ os.job = 0
<1>1. os.quote.status # "accepted"
  BY DEF ItsTurn
<1> QED  BY <1>1, SoundFacts

\* The award
LEMMA AwardTurn ==
  ASSUME TablesOK, SoundJob, ItsTurn("award")
  PROVE  /\ os.quote.issue = "draft" /\ os.quote.right /\ NoneOf({"control"})
         /\ os.quote.status # "accepted" => os.quote.status = "draft" /\ os.stage = "opportunity" /\ os.job = 0
         /\ os.quote.status = "accepted" => os.stage = "awarded" /\ os.job # 0 /\ os.baseline = "open" /\ PlanIsSafe
<1>1. os.quote # NoQuote /\ os.entries = 0
  BY DEF ItsTurn
<1>2. os.quote.status = "accepted" => os.job # 0 /\ os.stage = "awarded"
  BY SoundFacts DEF Awarded
<1> QED  BY <1>1, <1>2, SoundFacts

\* The budget
LEMMA BudgetTurn ==
  ASSUME TablesOK, SoundJob, ItsTurn("budget")
  PROVE  /\ Awarded /\ Accepted /\ PlanIsSafe /\ (Budgeted \/ NoBudget)
         /\ os.estimate = "approved" /\ os.exact
         /\ os.entries # 0 => os.baseline = "allocated"
         /\ os.plan # "none"
<1>1. os.baseline # "none"
  BY DEF ItsTurn
<1>2. os.quote.status = "accepted" /\ (Budgeted \/ NoBudget)
  BY <1>1, SoundFacts
<1> QED  BY <1>2, SoundFacts

\* The plan
LEMMA PlanTurn ==
  ASSUME TablesOK, SoundJob, ItsTurn("plan")
  PROVE  /\ Awarded /\ Accepted /\ PlanIsSafe /\ Budgeted /\ LaunchControls
         /\ os.estimate = "approved" /\ os.plan \in {"shell", "four"}
<1>1. os.entries # 0
  BY DEF ItsTurn
<1>2. /\ os.entries # 0 /\ os.quote.status = "accepted" /\ os.baseline = "allocated" /\ Budgeted
      /\ os.plan \in {"shell", "four"} /\ NoneOf({"control"})
  BY <1>1, SoundFacts
<1>3. LaunchControls
  BY <1>2 DEF LaunchControls
<1> QED  BY <1>2, <1>3, SoundFacts

\* The launch
LEMMA LaunchTurn ==
  ASSUME TablesOK, SoundJob, ItsTurn("launch")
  PROVE  /\ Awarded /\ Accepted /\ PlanVerified /\ Budgeted /\ LaunchControls
         /\ os.estimate = "approved" /\ os.plan = "four"
         /\ os.launch \in {"none", "blocked"} /\ NoneOf({"record", "control"}) /\ NoneOf({"record"})
<1>1. os.plan = "four"
  BY DEF ItsTurn
<1>2. /\ os.entries # 0 /\ os.quote.status = "accepted" /\ os.baseline = "allocated" /\ Budgeted
      /\ os.plan \in {"shell", "four"} /\ NoneOf({"control"})
  BY <1>1, SoundFacts
<1>3. LaunchControls
  BY <1>2 DEF LaunchControls
<1>4. PlanVerified
  BY <1>1, SoundFacts DEF PlanVerified
<1> QED  BY <1>1, <1>2, <1>3, <1>4, SoundFacts

\* The gate
LEMMA GateTurn ==
  ASSUME TablesOK, SoundJob, ItsTurn("gate")
  PROVE  /\ Awarded /\ Accepted /\ PlanVerified /\ LaunchVerified /\ Budgeted /\ GateDashboard
         /\ os.estimate = "approved"
         /\ NoneOf({"record", "control"}) /\ NoneOf({"sheet"})
<1>1. os.launch # "none" /\ os.plan = "four"
  BY DEF ItsTurn
<1>2. /\ os.entries # 0 /\ os.quote.status = "accepted" /\ os.baseline = "allocated" /\ Budgeted
      /\ os.plan \in {"shell", "four"} /\ NoneOf({"control"})
  BY <1>1, SoundFacts
<1>3. LaunchControls
  BY <1>2 DEF LaunchControls
<1>4. PlanVerified
  BY <1>1, SoundFacts DEF PlanVerified
<1>5. LaunchVerified
  BY <1>1, SoundFacts DEF LaunchVerified
<1>6. GateDashboard
  BY <1>1, <1>3, <1>5, SoundFacts DEF GateDashboard, LaunchDashboard
<1> QED  BY <1>2, <1>4, <1>5, <1>6, SoundFacts

\* What the invariant says of a pilot that was let alone
LEMMA WhatHolds ==
  ASSUME PilotsInv, NEW p \in untouched, runOf[p].at # 0, ItsTurn(p)
  PROVE  p \in Pilots /\ PilotOK(p) /\ TablesOK /\ Knows(p) /\ SoundJob /\ runOf[p].at \in 1..Len(Programs[p])
<1>1. p \in Pilots /\ PilotOK(p) /\ TablesOK
  BY DEF PilotsInv
<1>2. Knows(p)
  BY <1>1 DEF PilotsInv, UntouchedPilots, Active
<1>3. writes = 0
  BY DEF ItsTurn
<1>4. SoundJob
  BY <1>3 DEF PilotsInv, Sound
<1>5. runOf[p].at \in 0..Len(Programs[p]) /\ Len(Programs[p]) \in Nat
  BY <1>1, PilotPlaces DEF PilotOK, PilotRuns
<1> QED  BY <1>1, <1>2, <1>4, <1>5

\* The draft verifies what it finds when it is its turn; so with the others.
LEMMA DraftPasses ==
  ASSUME PilotsInv, "draft" \in untouched, runOf["draft"].at # 0, ~Posting("draft"), ItsTurn("draft")
  PROVE  ReadsOn("draft") \/ (Verified("draft") /\ runOf["draft"].saw.fits)
<1>1. PilotOK("draft") /\ TablesOK /\ Knows("draft") /\ SoundJob /\ runOf["draft"].at \in 1..5
  BY WhatHolds, PilotPlaces
<1>2. PICK r, saw : r = runOf["draft"] /\ saw = r.saw
  OBVIOUS
<1>3. KnowsDraft
  BY <1>1 DEF Knows
<1>4. r.at \notin Verifying["draft"] => saw.fits
  BY <1>1, <1>2 DEF PilotOK
<1>5. /\ os.stage = "opportunity" /\ os.job = 0
  BY <1>1, DraftTurn
<1>6. CASE r.at = 1
  <2>1. Step("draft") = "project"
    BY <1>1, <1>2, <1>6, DraftPlaces
  <2>2. Verified("draft") <=> (os.stage = "opportunity" /\ os.job = 0)
    BY <1>2, <2>1 DEF Verified, ProjectVerified
  <2>3. os.stage = "opportunity" /\ os.job = 0
    BY <1>1, <1>2, <1>3, <1>5, <1>6 DEF KnowsDraft
  <2>4. saw.fits
    BY <1>2, <1>3, <1>4, <1>5, <1>6 DEF Verifying, KnowsDraft
  <2> QED  BY <1>2, <2>2, <2>3, <2>4
<1>7. CASE r.at = 2
  <2>1. Step("draft") = "estimate"
    BY <1>1, <1>2, <1>7, DraftPlaces
  <2>2. Verified("draft") <=> TRUE
    BY <1>2, <2>1 DEF Verified
  <2>3. TRUE
    BY <1>1, <1>2, <1>3, <1>5, <1>7 DEF KnowsDraft
  <2>4. saw.fits
    BY <1>2, <1>3, <1>4, <1>5, <1>7 DEF Verifying, KnowsDraft
  <2> QED  BY <1>2, <2>2, <2>3, <2>4
<1>8. CASE r.at = 5
  <2>1. Step("draft") = "register"
    BY <1>1, <1>2, <1>8, DraftPlaces
  <2>2. Verified("draft") <=> (os.quote # NoQuote)
    BY <1>2, <2>1 DEF Verified
  <2>3. os.quote # NoQuote
    BY <1>1, <1>2, <1>3, <1>5, <1>8 DEF KnowsDraft, DraftQuote, NoQuote
  <2>4. saw.fits
    BY <1>2, <1>3, <1>4, <1>5, <1>8 DEF Verifying, KnowsDraft
  <2> QED  BY <1>2, <2>2, <2>3, <2>4
<1>9. r.at \in {1, 2, 5}
  BY <1>1, <1>2, DraftPlaces DEF Posting
<1> QED  BY <1>6, <1>7, <1>8, <1>9

\* The award
LEMMA AwardPasses ==
  ASSUME PilotsInv, "award" \in untouched, runOf["award"].at # 0, ~Posting("award"), ItsTurn("award")
  PROVE  ReadsOn("award") \/ (Verified("award") /\ runOf["award"].saw.fits)
<1>1. PilotOK("award") /\ TablesOK /\ Knows("award") /\ SoundJob /\ runOf["award"].at \in 1..9
  BY WhatHolds, PilotPlaces
<1>2. PICK r, saw : r = runOf["award"] /\ saw = r.saw
  OBVIOUS
<1>3. KnowsAward
  BY <1>1 DEF Knows
<1>4. r.at \notin Verifying["award"] => saw.fits
  BY <1>1, <1>2 DEF PilotOK
<1>5. /\ os.quote.issue = "draft" /\ os.quote.right /\ NoneOf({"control"})
      /\ os.quote.status # "accepted" => os.quote.status = "draft" /\ os.stage = "opportunity" /\ os.job = 0
      /\ os.quote.status = "accepted" => os.stage = "awarded" /\ os.job # 0 /\ os.baseline = "open" /\ PlanIsSafe
  BY <1>1, AwardTurn
<1>6. CASE r.at = 1
  <2>1. Step("award") = "project"
    BY <1>1, <1>2, <1>6, AwardPlaces
  <2>2. Verified("award") <=> TRUE
    BY <1>2, <2>1 DEF Verified, ProjectVerified
  <2>3. TRUE
    BY <1>1, <1>2, <1>3, <1>5, <1>6 DEF KnowsAward
  <2>4. saw.fits
    BY <1>2, <1>3, <1>4, <1>5, <1>6 DEF Verifying, KnowsAward
  <2> QED  BY <1>2, <2>2, <2>3, <2>4
<1>7. CASE r.at = 2
  <2>1. Step("award") = "estimate"
    BY <1>1, <1>2, <1>7, AwardPlaces
  <2>2. Verified("award") <=> TRUE
    BY <1>2, <2>1 DEF Verified
  <2>3. TRUE
    BY <1>1, <1>2, <1>3, <1>5, <1>7 DEF KnowsAward
  <2>4. saw.fits
    BY <1>2, <1>3, <1>4, <1>5, <1>7 DEF Verifying, KnowsAward
  <2> QED  BY <1>2, <2>2, <2>3, <2>4
<1>8. CASE r.at = 3
  <2>1. Step("award") = "quote"
    BY <1>1, <1>2, <1>8, AwardPlaces
  <2>2. Verified("award") <=> PreState(saw)
    BY <1>2, <2>1 DEF Verified
  <2>3. PreState(saw)
    BY <1>1, <1>2, <1>3, <1>5, <1>8 DEF KnowsAward, PreState
  <2>4. saw.fits
    BY <1>2, <1>3, <1>4, <1>5, <1>8 DEF Verifying, KnowsAward
  <2> QED  BY <1>2, <2>2, <2>3, <2>4
<1>9. CASE r.at = 6
  <2>1. Step("award") = "outcome"
    BY <1>1, <1>2, <1>9, AwardPlaces
  <2>2. Verified("award") <=> AwardedProject(saw)
    BY <1>2, <2>1 DEF Verified, OutcomeVerified
  <2>3. AwardedProject(saw)
    BY <1>1, <1>2, <1>3, <1>5, <1>9 DEF KnowsAward, AwardedProject, PilotQuote, Accepted
  <2>4. saw.fits
    BY <1>2, <1>3, <1>4, <1>5, <1>9 DEF Verifying, KnowsAward
  <2> QED  BY <1>2, <2>2, <2>3, <2>4
<1>10. CASE r.at = 7
  <2>1. Step("award") = "workspace"
    BY <1>1, <1>2, <1>10, AwardPlaces
  <2>2. Verified("award") <=> (os.job = saw.job)
    BY <1>2, <2>1 DEF Verified, WorkspaceVerified
  <2>3. os.job = saw.job
    BY <1>1, <1>2, <1>3, <1>5, <1>10 DEF KnowsAward
  <2>4. saw.fits
    BY <1>2, <1>3, <1>4, <1>5, <1>10 DEF Verifying, KnowsAward
  <2> QED  BY <1>2, <2>2, <2>3, <2>4
<1>11. CASE r.at = 8
  <2>1. Step("award") = "checklist"
    BY <1>1, <1>2, <1>11, AwardPlaces
  <2>2. Verified("award") <=> NoneOf({"control"})
    BY <1>2, <2>1 DEF Verified
  <2>3. NoneOf({"control"})
    BY <1>1, <1>2, <1>3, <1>5, <1>11 DEF KnowsAward
  <2>4. saw.fits
    BY <1>2, <1>3, <1>4, <1>5, <1>11 DEF Verifying, KnowsAward
  <2> QED  BY <1>2, <2>2, <2>3, <2>4
<1>12. CASE r.at = 9
  <2>1. Step("award") = "dashboard"
    BY <1>1, <1>2, <1>12, AwardPlaces
  <2>2. Verified("award") <=> (os.job = saw.job /\ os.baseline = "open" /\ os.plan # "none")
    BY <1>2, <2>1 DEF Verified, DashboardVerified
  <2>3. os.job = saw.job /\ os.baseline = "open" /\ os.plan # "none"
    BY <1>1, <1>2, <1>3, <1>5, <1>12 DEF KnowsAward, AwardedProject, PlanIsSafe
  <2>4. saw.fits
    BY <1>2, <1>3, <1>4, <1>5, <1>12 DEF Verifying, KnowsAward
  <2> QED  BY <1>2, <2>2, <2>3, <2>4
<1>13. r.at \in {1, 2, 3, 6, 7, 8, 9}
  BY <1>1, <1>2, AwardPlaces DEF Posting
<1> QED  BY <1>6, <1>7, <1>8, <1>9, <1>10, <1>11, <1>12, <1>13

\* The budget
LEMMA BudgetPasses ==
  ASSUME PilotsInv, "budget" \in untouched, runOf["budget"].at # 0, ~Posting("budget"), ItsTurn("budget")
  PROVE  ReadsOn("budget") \/ (Verified("budget") /\ runOf["budget"].saw.fits)
<1>1. PilotOK("budget") /\ TablesOK /\ Knows("budget") /\ SoundJob /\ runOf["budget"].at \in 1..9
  BY WhatHolds, PilotPlaces
<1>2. PICK r, saw : r = runOf["budget"] /\ saw = r.saw
  OBVIOUS
<1>3. KnowsBudget
  BY <1>1 DEF Knows
<1>4. r.at \notin Verifying["budget"] => saw.fits
  BY <1>1, <1>2 DEF PilotOK
<1>5. /\ Awarded /\ Accepted /\ PlanIsSafe /\ (Budgeted \/ NoBudget)
      /\ os.estimate = "approved" /\ os.exact
      /\ os.entries # 0 => os.baseline = "allocated"
      /\ os.plan # "none"
  BY <1>1, BudgetTurn
<1>6. CASE r.at = 1
  <2>1. Step("budget") = "project"
    BY <1>1, <1>2, <1>6, BudgetPlaces
  <2> QED  BY <2>1 DEF ReadsOn
<1>7. CASE r.at = 2
  <2>1. Step("budget") = "quote"
    BY <1>1, <1>2, <1>7, BudgetPlaces
  <2> QED  BY <2>1 DEF ReadsOn
<1>8. CASE r.at = 3
  <2>1. Step("budget") = "estimate"
    BY <1>1, <1>2, <1>8, BudgetPlaces
  <2>2. Verified("budget") <=> (os.estimate = "approved")
    BY <1>2, <2>1 DEF Verified
  <2>3. os.estimate = "approved"
    BY <1>1, <1>2, <1>3, <1>5, <1>8 DEF KnowsBudget
  <2>4. saw.fits
    BY <1>2, <1>3, <1>4, <1>5, <1>8 DEF Verifying, KnowsBudget
  <2> QED  BY <1>2, <2>2, <2>3, <2>4
<1>9. CASE r.at = 4
  <2>1. Step("budget") = "finance"
    BY <1>1, <1>2, <1>9, BudgetPlaces
  <2>2. Verified("budget") <=> (Budgeted \/ NoBudget)
    BY <1>2, <2>1 DEF Verified
  <2>3. Budgeted \/ NoBudget
    BY <1>1, <1>2, <1>3, <1>5, <1>9 DEF KnowsBudget
  <2>4. saw.fits
    BY <1>2, <1>3, <1>4, <1>5, <1>9 DEF Verifying, KnowsBudget
  <2> QED  BY <1>2, <2>2, <2>3, <2>4
<1>10. CASE r.at = 7
  <2>1. Step("budget") = "outcome"
    BY <1>1, <1>2, <1>10, BudgetPlaces
  <2>2. Verified("budget") <=> AllocatedProject
    BY <1>2, <2>1 DEF Verified, OutcomeVerified
  <2>3. AllocatedProject
    BY <1>1, <1>2, <1>3, <1>5, <1>10 DEF KnowsBudget, AllocatedProject, Budgeted
  <2>4. saw.fits
    BY <1>2, <1>3, <1>4, <1>5, <1>10 DEF Verifying, KnowsBudget
  <2> QED  BY <1>2, <2>2, <2>3, <2>4
<1>11. CASE r.at = 8
  <2>1. Step("budget") = "dashboard"
    BY <1>1, <1>2, <1>11, BudgetPlaces
  <2>2. Verified("budget") <=> (Budgeted /\ os.baseline = "allocated" /\ os.plan # "none")
    BY <1>2, <2>1 DEF Verified, DashboardVerified
  <2>3. Budgeted /\ os.baseline = "allocated" /\ os.plan # "none"
    BY <1>1, <1>2, <1>3, <1>5, <1>11 DEF KnowsBudget, Budgeted
  <2>4. saw.fits
    BY <1>2, <1>3, <1>4, <1>5, <1>11 DEF Verifying, KnowsBudget
  <2> QED  BY <1>2, <2>2, <2>3, <2>4
<1>12. CASE r.at = 9
  <2>1. Step("budget") = "codes"
    BY <1>1, <1>2, <1>12, BudgetPlaces
  <2>2. Verified("budget") <=> (os.baseline = "allocated")
    BY <1>2, <2>1 DEF Verified
  <2>3. os.baseline = "allocated"
    BY <1>1, <1>2, <1>3, <1>5, <1>12 DEF KnowsBudget, AllocatedProject
  <2>4. saw.fits
    BY <1>2, <1>3, <1>4, <1>5, <1>12 DEF Verifying, KnowsBudget
  <2> QED  BY <1>2, <2>2, <2>3, <2>4
<1>13. r.at \in {1, 2, 3, 4, 7, 8, 9}
  BY <1>1, <1>2, BudgetPlaces DEF Posting
<1> QED  BY <1>6, <1>7, <1>8, <1>9, <1>10, <1>11, <1>12, <1>13

\* The plan
LEMMA PlanPasses ==
  ASSUME PilotsInv, "plan" \in untouched, runOf["plan"].at # 0, ~Posting("plan"), ItsTurn("plan")
  PROVE  ReadsOn("plan") \/ (Verified("plan") /\ runOf["plan"].saw.fits)
<1>1. PilotOK("plan") /\ TablesOK /\ Knows("plan") /\ SoundJob /\ runOf["plan"].at \in 1..10
  BY WhatHolds, PilotPlaces
<1>2. PICK r, saw : r = runOf["plan"] /\ saw = r.saw
  OBVIOUS
<1>3. KnowsPlan
  BY <1>1 DEF Knows
<1>4. r.at \notin Verifying["plan"] => saw.fits
  BY <1>1, <1>2 DEF PilotOK
<1>5. /\ Awarded /\ Accepted /\ PlanIsSafe /\ Budgeted /\ LaunchControls
      /\ os.estimate = "approved" /\ os.plan \in {"shell", "four"}
  BY <1>1, PlanTurn
<1>6. CASE r.at = 1
  <2>1. Step("plan") = "project"
    BY <1>1, <1>2, <1>6, PlanPlaces
  <2> QED  BY <2>1 DEF ReadsOn
<1>7. CASE r.at = 2
  <2>1. Step("plan") = "quote"
    BY <1>1, <1>2, <1>7, PlanPlaces
  <2> QED  BY <2>1 DEF ReadsOn
<1>8. CASE r.at = 3
  <2>1. Step("plan") = "estimate"
    BY <1>1, <1>2, <1>8, PlanPlaces
  <2>2. Verified("plan") <=> (os.estimate = "approved")
    BY <1>2, <2>1 DEF Verified
  <2>3. os.estimate = "approved"
    BY <1>1, <1>2, <1>3, <1>5, <1>8 DEF KnowsPlan
  <2>4. saw.fits
    BY <1>2, <1>3, <1>4, <1>5, <1>8 DEF Verifying, KnowsPlan
  <2> QED  BY <1>2, <2>2, <2>3, <2>4
<1>9. CASE r.at = 4
  <2>1. Step("plan") = "finance"
    BY <1>1, <1>2, <1>9, PlanPlaces
  <2>2. Verified("plan") <=> Budgeted
    BY <1>2, <2>1 DEF Verified
  <2>3. Budgeted
    BY <1>1, <1>2, <1>3, <1>5, <1>9 DEF KnowsPlan
  <2>4. saw.fits
    BY <1>2, <1>3, <1>4, <1>5, <1>9 DEF Verifying, KnowsPlan
  <2> QED  BY <1>2, <2>2, <2>3, <2>4
<1>10. CASE r.at = 5
  <2>1. Step("plan") = "before"
    BY <1>1, <1>2, <1>10, PlanPlaces
  <2>2. Verified("plan") <=> SafeDashboard(saw)
    BY <1>2, <2>1 DEF Verified
  <2>3. SafeDashboard(saw)
    BY <1>1, <1>2, <1>3, <1>5, <1>10 DEF KnowsPlan, SafeDashboard
  <2>4. saw.fits
    BY <1>2, <1>3, <1>4, <1>5, <1>10 DEF Verifying, KnowsPlan
  <2> QED  BY <1>2, <2>2, <2>3, <2>4
<1>11. CASE r.at = 7
  <2>1. Step("plan") = "outcome"
    BY <1>1, <1>2, <1>11, PlanPlaces
  <2>2. Verified("plan") <=> PlanVerified
    BY <1>2, <2>1 DEF Verified, OutcomeVerified
  <2>3. PlanVerified
    BY <1>1, <1>2, <1>3, <1>5, <1>11 DEF KnowsPlan, PlanVerified, PlanIsSafe
  <2>4. saw.fits
    BY <1>2, <1>3, <1>4, <1>5, <1>11 DEF Verifying, KnowsPlan
  <2> QED  BY <1>2, <2>2, <2>3, <2>4
<1>12. CASE r.at = 9
  <2>1. Step("plan") = "outcome"
    BY <1>1, <1>2, <1>12, PlanPlaces
  <2>2. Verified("plan") <=> PlanVerified
    BY <1>2, <2>1 DEF Verified, OutcomeVerified
  <2>3. PlanVerified
    BY <1>1, <1>2, <1>3, <1>5, <1>12 DEF KnowsPlan, PlanVerified, PlanIsSafe
  <2>4. saw.fits
    BY <1>2, <1>3, <1>4, <1>5, <1>12 DEF Verifying, KnowsPlan
  <2> QED  BY <1>2, <2>2, <2>3, <2>4
<1>13. CASE r.at = 10
  <2>1. Step("plan") = "dashboard"
    BY <1>1, <1>2, <1>13, PlanPlaces
  <2>2. Verified("plan") <=> (LaunchControls /\ os.plan = "four")
    BY <1>2, <2>1 DEF Verified, DashboardVerified
  <2>3. LaunchControls /\ os.plan = "four"
    BY <1>1, <1>2, <1>3, <1>5, <1>13 DEF KnowsPlan
  <2>4. saw.fits
    BY <1>2, <1>3, <1>4, <1>5, <1>13 DEF Verifying, KnowsPlan
  <2> QED  BY <1>2, <2>2, <2>3, <2>4
<1>14. r.at \in {1, 2, 3, 4, 5, 7, 9, 10}
  BY <1>1, <1>2, PlanPlaces DEF Posting
<1> QED  BY <1>6, <1>7, <1>8, <1>9, <1>10, <1>11, <1>12, <1>13, <1>14

\* The launch
LEMMA LaunchPasses ==
  ASSUME PilotsInv, "launch" \in untouched, runOf["launch"].at # 0, ~Posting("launch"), ItsTurn("launch")
  PROVE  ReadsOn("launch") \/ (Verified("launch") /\ runOf["launch"].saw.fits)
<1>1. PilotOK("launch") /\ TablesOK /\ Knows("launch") /\ SoundJob /\ runOf["launch"].at \in 1..11
  BY WhatHolds, PilotPlaces
<1>2. PICK r, saw : r = runOf["launch"] /\ saw = r.saw
  OBVIOUS
<1>3. KnowsLaunch
  BY <1>1 DEF Knows
<1>4. r.at \notin Verifying["launch"] => saw.fits
  BY <1>1, <1>2 DEF PilotOK
<1>5. /\ Awarded /\ Accepted /\ PlanVerified /\ Budgeted /\ LaunchControls
      /\ os.estimate = "approved" /\ os.plan = "four"
      /\ os.launch \in {"none", "blocked"} /\ NoneOf({"record", "control"}) /\ NoneOf({"record"})
  BY <1>1, LaunchTurn
<1>6. CASE r.at = 1
  <2>1. Step("launch") = "project"
    BY <1>1, <1>2, <1>6, LaunchPlaces
  <2> QED  BY <2>1 DEF ReadsOn
<1>7. CASE r.at = 2
  <2>1. Step("launch") = "quote"
    BY <1>1, <1>2, <1>7, LaunchPlaces
  <2> QED  BY <2>1 DEF ReadsOn
<1>8. CASE r.at = 3
  <2>1. Step("launch") = "estimate"
    BY <1>1, <1>2, <1>8, LaunchPlaces
  <2>2. Verified("launch") <=> (os.estimate = "approved")
    BY <1>2, <2>1 DEF Verified
  <2>3. os.estimate = "approved"
    BY <1>1, <1>2, <1>3, <1>5, <1>8 DEF KnowsLaunch
  <2>4. saw.fits
    BY <1>2, <1>3, <1>4, <1>5, <1>8 DEF Verifying, KnowsLaunch
  <2> QED  BY <1>2, <2>2, <2>3, <2>4
<1>9. CASE r.at = 4
  <2>1. Step("launch") = "finance"
    BY <1>1, <1>2, <1>9, LaunchPlaces
  <2>2. Verified("launch") <=> Budgeted
    BY <1>2, <2>1 DEF Verified
  <2>3. Budgeted
    BY <1>1, <1>2, <1>3, <1>5, <1>9 DEF KnowsLaunch
  <2>4. saw.fits
    BY <1>2, <1>3, <1>4, <1>5, <1>9 DEF Verifying, KnowsLaunch
  <2> QED  BY <1>2, <2>2, <2>3, <2>4
<1>10. CASE r.at = 5
  <2>1. Step("launch") = "count"
    BY <1>1, <1>2, <1>10, LaunchPlaces
  <2>2. Verified("launch") <=> (NoneOf({"record", "control"}) /\ saw.launch \in {"none", "blocked"})
    BY <1>2, <2>1 DEF Verified, CountVerified
  <2>3. NoneOf({"record", "control"}) /\ saw.launch \in {"none", "blocked"}
    BY <1>1, <1>2, <1>3, <1>5, <1>10 DEF KnowsLaunch
  <2>4. saw.fits
    BY <1>2, <1>3, <1>4, <1>5, <1>10 DEF Verifying, KnowsLaunch
  <2> QED  BY <1>2, <2>2, <2>3, <2>4
<1>11. CASE r.at = 8
  <2>1. Step("launch") = "outcome"
    BY <1>1, <1>2, <1>11, LaunchPlaces
  <2>2. Verified("launch") <=> LaunchVerified
    BY <1>2, <2>1 DEF Verified, OutcomeVerified
  <2>3. LaunchVerified
    BY <1>1, <1>2, <1>3, <1>5, <1>11 DEF KnowsLaunch
  <2>4. saw.fits
    BY <1>2, <1>3, <1>4, <1>5, <1>11 DEF Verifying, KnowsLaunch
  <2> QED  BY <1>2, <2>2, <2>3, <2>4
<1>12. CASE r.at = 9
  <2>1. Step("launch") = "workspace"
    BY <1>1, <1>2, <1>12, LaunchPlaces
  <2>2. Verified("launch") <=> (os.shell # 0)
    BY <1>2, <2>1 DEF Verified, WorkspaceVerified
  <2>3. os.shell # 0
    BY <1>1, <1>2, <1>3, <1>5, <1>12 DEF KnowsLaunch, LaunchVerified, TablesOK
  <2>4. saw.fits
    BY <1>2, <1>3, <1>4, <1>5, <1>12 DEF Verifying, KnowsLaunch
  <2> QED  BY <1>2, <2>2, <2>3, <2>4
<1>13. CASE r.at = 10
  <2>1. Step("launch") = "dashboard"
    BY <1>1, <1>2, <1>13, LaunchPlaces
  <2>2. Verified("launch") <=> LaunchDashboard
    BY <1>2, <2>1 DEF Verified, DashboardVerified
  <2>3. LaunchDashboard
    BY <1>1, <1>2, <1>3, <1>5, <1>13 DEF KnowsLaunch, LaunchDashboard
  <2>4. saw.fits
    BY <1>2, <1>3, <1>4, <1>5, <1>13 DEF Verifying, KnowsLaunch
  <2> QED  BY <1>2, <2>2, <2>3, <2>4
<1>14. CASE r.at = 11
  <2>1. Step("launch") = "recount"
    BY <1>1, <1>2, <1>14, LaunchPlaces
  <2>2. Verified("launch") <=> (Counts("launch") = saw.counts)
    BY <1>2, <2>1 DEF Verified
  <2>3. Counts("launch") = saw.counts
    BY <1>1, <1>2, <1>3, <1>5, <1>14 DEF KnowsLaunch
  <2>4. saw.fits
    BY <1>2, <1>3, <1>4, <1>5, <1>14 DEF Verifying, KnowsLaunch
  <2> QED  BY <1>2, <2>2, <2>3, <2>4
<1>15. r.at \in {1, 2, 3, 4, 5, 8, 9, 10, 11}
  BY <1>1, <1>2, LaunchPlaces DEF Posting
<1> QED  BY <1>6, <1>7, <1>8, <1>9, <1>10, <1>11, <1>12, <1>13, <1>14, <1>15

\* The gate
LEMMA GatePasses ==
  ASSUME PilotsInv, "gate" \in untouched, runOf["gate"].at # 0, ~Posting("gate"), ItsTurn("gate")
  PROVE  ReadsOn("gate") \/ (Verified("gate") /\ runOf["gate"].saw.fits)
<1>1. PilotOK("gate") /\ TablesOK /\ Knows("gate") /\ SoundJob /\ runOf["gate"].at \in 1..9
  BY WhatHolds, PilotPlaces
<1>2. PICK r, saw : r = runOf["gate"] /\ saw = r.saw
  OBVIOUS
<1>3. KnowsGate
  BY <1>1 DEF Knows
<1>4. r.at \notin Verifying["gate"] => saw.fits
  BY <1>1, <1>2 DEF PilotOK
<1>5. /\ Awarded /\ Accepted /\ PlanVerified /\ LaunchVerified /\ Budgeted /\ GateDashboard
      /\ os.estimate = "approved"
      /\ NoneOf({"record", "control"}) /\ NoneOf({"sheet"})
  BY <1>1, GateTurn
<1>6. CASE r.at = 1
  <2>1. Step("gate") = "count"
    BY <1>1, <1>2, <1>6, GatePlaces
  <2>2. Verified("gate") <=> (NoneOf({"record", "control"}) /\ NoneOf({"sheet"}))
    BY <1>2, <2>1 DEF Verified, CountVerified
  <2>3. NoneOf({"record", "control"}) /\ NoneOf({"sheet"})
    BY <1>1, <1>2, <1>3, <1>5, <1>6 DEF KnowsGate
  <2>4. saw.fits
    BY <1>2, <1>3, <1>4, <1>5, <1>6 DEF Verifying, KnowsGate
  <2> QED  BY <1>2, <2>2, <2>3, <2>4
<1>7. CASE r.at = 2
  <2>1. Step("gate") = "project"
    BY <1>1, <1>2, <1>7, GatePlaces
  <2> QED  BY <2>1 DEF ReadsOn
<1>8. CASE r.at = 3
  <2>1. Step("gate") = "quote"
    BY <1>1, <1>2, <1>8, GatePlaces
  <2> QED  BY <2>1 DEF ReadsOn
<1>9. CASE r.at = 4
  <2>1. Step("gate") = "estimate"
    BY <1>1, <1>2, <1>9, GatePlaces
  <2>2. Verified("gate") <=> (os.estimate = "approved")
    BY <1>2, <2>1 DEF Verified
  <2>3. os.estimate = "approved"
    BY <1>1, <1>2, <1>3, <1>5, <1>9 DEF KnowsGate
  <2>4. saw.fits
    BY <1>2, <1>3, <1>4, <1>5, <1>9 DEF Verifying, KnowsGate
  <2> QED  BY <1>2, <2>2, <2>3, <2>4
<1>10. CASE r.at = 5
  <2>1. Step("gate") = "finance"
    BY <1>1, <1>2, <1>10, GatePlaces
  <2>2. Verified("gate") <=> Budgeted
    BY <1>2, <2>1 DEF Verified
  <2>3. Budgeted
    BY <1>1, <1>2, <1>3, <1>5, <1>10 DEF KnowsGate
  <2>4. saw.fits
    BY <1>2, <1>3, <1>4, <1>5, <1>10 DEF Verifying, KnowsGate
  <2> QED  BY <1>2, <2>2, <2>3, <2>4
<1>11. CASE r.at = 6
  <2>1. Step("gate") = "dashboard"
    BY <1>1, <1>2, <1>11, GatePlaces
  <2>2. Verified("gate") <=> GateDashboard
    BY <1>2, <2>1 DEF Verified, DashboardVerified
  <2>3. GateDashboard
    BY <1>1, <1>2, <1>3, <1>5, <1>11 DEF KnowsGate
  <2>4. saw.fits
    BY <1>2, <1>3, <1>4, <1>5, <1>11 DEF Verifying, KnowsGate
  <2> QED  BY <1>2, <2>2, <2>3, <2>4
<1>12. CASE r.at = 7
  <2>1. Step("gate") = "workspace"
    BY <1>1, <1>2, <1>12, GatePlaces
  <2>2. Verified("gate") <=> TRUE
    BY <1>2, <2>1 DEF Verified, WorkspaceVerified
  <2>3. TRUE
    BY <1>1, <1>2, <1>3, <1>5, <1>12 DEF KnowsGate
  <2>4. saw.fits
    BY <1>2, <1>3, <1>4, <1>5, <1>12 DEF Verifying, KnowsGate
  <2> QED  BY <1>2, <2>2, <2>3, <2>4
<1>13. CASE r.at = 8
  <2>1. Step("gate") = "sheets"
    BY <1>1, <1>2, <1>13, GatePlaces
  <2>2. Verified("gate") <=> NoneOf({"sheet"})
    BY <1>2, <2>1 DEF Verified
  <2>3. NoneOf({"sheet"})
    BY <1>1, <1>2, <1>3, <1>5, <1>13 DEF KnowsGate
  <2>4. saw.fits
    BY <1>2, <1>3, <1>4, <1>5, <1>13 DEF Verifying, KnowsGate
  <2> QED  BY <1>2, <2>2, <2>3, <2>4
<1>14. CASE r.at = 9
  <2>1. Step("gate") = "recount"
    BY <1>1, <1>2, <1>14, GatePlaces
  <2>2. Verified("gate") <=> (Counts("gate") = saw.counts)
    BY <1>2, <2>1 DEF Verified
  <2>3. Counts("gate") = saw.counts
    BY <1>1, <1>2, <1>3, <1>5, <1>14 DEF KnowsGate
  <2>4. saw.fits
    BY <1>2, <1>3, <1>4, <1>5, <1>14 DEF Verifying, KnowsGate
  <2> QED  BY <1>2, <2>2, <2>3, <2>4
<1>15. r.at \in {1, 2, 3, 4, 5, 6, 7, 8, 9}
  BY <1>1, <1>2, GatePlaces DEF Posting
<1> QED  BY <1>6, <1>7, <1>8, <1>9, <1>10, <1>11, <1>12, <1>13, <1>14, <1>15

\* Where a pilot sends its request
LEMMA PostPlaces ==
  ASSUME NEW p \in Pilots, PilotOK(p), Posting(p)
  PROVE  /\ p \in {"draft", "award", "budget", "plan", "launch"}
         /\ p = "draft" => runOf[p].at \in {3, 4} /\ (runOf[p].at = 3 <=> Step(p) = "post")
         /\ p = "award" => runOf[p].at \in {4, 5} /\ (runOf[p].at = 4 <=> Step(p) = "post")
         /\ p = "budget" => runOf[p].at \in {5, 6} /\ (runOf[p].at = 5 <=> Step(p) = "post")
         /\ p = "plan" => runOf[p].at \in {6, 8} /\ (runOf[p].at = 6 <=> Step(p) = "post")
         /\ p = "launch" => runOf[p].at \in {6, 7} /\ (runOf[p].at = 6 <=> Step(p) = "post")
         /\ runOf[p].at \notin Verifying[p] /\ runOf[p].at + 1 \notin Verifying[p] /\ runOf[p].at >= 2
         /\ runOf[p].at # Len(Programs[p])
         /\ Step(p) \in {"post", "again"}
<1>1. runOf[p].at \in 1..Len(Programs[p]) /\ Step(p) \in {"post", "again"}
  BY PilotPlaces DEF PilotOK, PilotRuns, Posting
<1>2. CASE p = "draft"
  <2>1. runOf["draft"].at \in 1..5
    BY <1>1, <1>2, PilotPlaces
  <2> QED  BY <1>1, <1>2, <2>1, DraftPlaces, PilotPlaces DEF Verifying
<1>3. CASE p = "award"
  <2>1. runOf["award"].at \in 1..9
    BY <1>1, <1>3, PilotPlaces
  <2> QED  BY <1>1, <1>3, <2>1, AwardPlaces, PilotPlaces DEF Verifying
<1>4. CASE p = "budget"
  <2>1. runOf["budget"].at \in 1..9
    BY <1>1, <1>4, PilotPlaces
  <2> QED  BY <1>1, <1>4, <2>1, BudgetPlaces, PilotPlaces DEF Verifying
<1>5. CASE p = "plan"
  <2>1. runOf["plan"].at \in 1..10
    BY <1>1, <1>5, PilotPlaces
  <2> QED  BY <1>1, <1>5, <2>1, PlanPlaces, PilotPlaces DEF Verifying
<1>6. CASE p = "launch"
  <2>1. runOf["launch"].at \in 1..11
    BY <1>1, <1>6, PilotPlaces
  <2> QED  BY <1>1, <1>6, <2>1, LaunchPlaces, PilotPlaces DEF Verifying
<1>7. CASE p = "gate"
  <2>1. runOf["gate"].at \in 1..9
    BY <1>1, <1>7, PilotPlaces
  <2> QED  BY <1>1, <1>7, <2>1, GatePlaces
<1> QED  BY <1>2, <1>3, <1>4, <1>5, <1>6, <1>7, PilotPlaces

\* The request of a run is one that may be served.
LEMMA RequestOfRun ==
  ASSUME NEW p \in Pilots, PilotOK(p), Posting(p), p \in BudgetPilots => runOf[p].read # NoRead,
         NEW q, q = Request(p)
  PROVE  /\ q \in Requests /\ q.pilot = p /\ q.revision = runOf[p].saw.revision /\ q.read = runOf[p].read
         /\ p \in BudgetPilots => runOf[p].read \in ImportSights /\ ReadStands(runOf[p].read)
         /\ p = "award" => SeenRight(runOf[p].saw.revision)
<1>1. runOf[p].read \in {NoRead} \cup ImportSights /\ runOf[p].saw \in Sights
  BY DEF PilotOK, PilotRuns
<1>2. runOf[p].saw.revision \in Nat
  BY <1>1 DEF Sights
<1>3. p \in {"draft", "award", "budget", "plan", "launch"} /\ (p = "award" => runOf[p].at \in {4, 5})
  BY PostPlaces
<1>4. q \in Requests /\ q.pilot = p /\ q.revision = runOf[p].saw.revision /\ q.read = runOf[p].read
  BY <1>1, <1>2, <1>3 DEF Request, Requests
<1> QED  BY <1>1, <1>3, <1>4 DEF PilotOK

\* What serving it leaves of the job
LEMMA ServedParts ==
  ASSUME TablesOK, NEW p \in Pilots, PilotOK(p), Posting(p), p \in BudgetPilots => runOf[p].read # NoRead,
         os' = Served(Request(p))
  PROVE  /\ p = "draft" =>
              /\ os'.stage = os.stage /\ os'.job = os.job /\ (os.quote # NoQuote => os' = os)
              /\ os.quote = NoQuote =>
                   /\ os'.quote.status = "draft" /\ os'.quote.issue = "draft"
                   /\ os'.quote.right = (os.estimate = "approved")
         /\ p = "award" =>
              os'.quote.status = "accepted" /\ (os.quote.status = "accepted" => os'.quote = os.quote)
         /\ p = "launch" =>
              /\ os'.quote = os.quote /\ os'.stage = os.stage /\ os'.job = os.job /\ os'.plan = os.plan
              /\ os'.approval = os.approval /\ os'.field = os.field
              /\ os.launch # "none" => os' = os
              /\ os.launch = "none" => os'.launch = "blocked"
         /\ p \in BudgetPilots =>
              /\ os'.quote = os.quote /\ os'.stage = os.stage /\ os'.job = os.job
              /\ runOf[p].read.entries # 0 => os'.entries = os.entries
              /\ runOf[p].read.entries = 0 => os'.entries = os.made + 1
         /\ p = "plan" /\ runOf[p].read = ImportSight(os) => os'.plan = "four" /\ os'.approval = os.approval
<1> os \in JobTables
  BY DEF TablesOK
<1>1. PICK q : q = Request(p)
  OBVIOUS
<1>2. /\ q \in Requests /\ q.pilot = p /\ q.read = runOf[p].read
      /\ p \in BudgetPilots => runOf[p].read \in ImportSights
  BY <1>1, RequestOfRun
<1>3. p \in {"draft", "award", "budget", "plan", "launch"}
  BY PostPlaces
<1>4. CASE p = "draft"
  <2>1. os' = FromEstimate(os)
    BY <1>1, <1>2, <1>4 DEF Served, BudgetPilots
  <2>2. CASE os.quote # NoQuote
    <3>1. os' = os
      BY <2>1, <2>2 DEF FromEstimate
    <3> QED  BY <1>4, <2>2, <3>1 DEF BudgetPilots
  <2>3. CASE os.quote = NoQuote
    <3>1. /\ os'.stage = os.stage /\ os'.job = os.job /\ os'.quote.status = "draft" /\ os'.quote.issue = "draft"
          /\ os'.quote.right = (os.estimate = "approved")
      BY <2>1, <2>3, QuoteMade
    <3> QED  BY <1>4, <2>3, <3>1 DEF BudgetPilots
  <2> QED  BY <2>2, <2>3
<1>5. CASE p = "award"
  <2>1. os' = Accept(os, "pilot")
    BY <1>1, <1>2, <1>5 DEF Served, BudgetPilots
  <2>2. CASE os.quote.status = "accepted"
    <3>1. os' = AwardControls(os)
      BY <2>1, <2>2 DEF Accept
    <3>2. os'.quote = os.quote
      BY <3>1, ControlsMade
    <3> QED  BY <1>5, <2>2, <3>2 DEF BudgetPilots
  <2>3. CASE os.quote.status # "accepted"
    <3>1. os'.quote.status = "accepted"
      BY <2>1, <2>3, AcceptanceMade
    <3> QED  BY <1>5, <2>3, <3>1 DEF BudgetPilots
  <2> QED  BY <2>2, <2>3
<1>6. CASE p = "launch"
  <2>1. os' = InitializeLaunch(os)
    BY <1>1, <1>2, <1>6 DEF Served, BudgetPilots
  <2>2. CASE os.launch # "none"
    <3>1. os' = os
      BY <2>1, <2>2 DEF InitializeLaunch
    <3> QED  BY <1>6, <2>2, <3>1 DEF BudgetPilots
  <2>3. CASE os.launch = "none"
    <3>1. /\ os'.quote = os.quote /\ os'.stage = os.stage /\ os'.job = os.job /\ os'.plan = os.plan
          /\ os'.approval = os.approval /\ os'.field = os.field /\ os'.launch = "blocked"
      BY <2>1, <2>3, LaunchMade
    <3> QED  BY <1>6, <2>3, <3>1 DEF BudgetPilots
  <2> QED  BY <2>2, <2>3
<1>7. CASE p \in BudgetPilots
  <2>1. PICK read \in ImportSights : read = runOf[p].read
    BY <1>2, <1>7
  <2>2. PICK planned \in BOOLEAN : planned = (p = "plan")
    OBVIOUS
  <2>3. os' = Import(os, read, p = "plan")
    BY <1>1, <1>2, <1>7, <2>1 DEF Served, BudgetPilots
  <2>4. os' = Import(os, read, planned)
    BY <2>2, <2>3
  <2>5. /\ os'.quote = os.quote /\ os'.stage = os.stage /\ os'.job = os.job
        /\ read.entries # 0 => os'.entries = os.entries
        /\ read.entries = 0 => os'.entries = os.made + 1
        /\ \/ Metadata(os') = Metadata(os) /\ (planned => read.plan = "four")
           \/ os'.plan = (IF planned THEN "four" ELSE read.plan) /\ os'.approval = read.approval
    BY <2>4, ImportMade
  <2>6. ASSUME p = "plan", read = ImportSight(os) PROVE os'.plan = "four" /\ os'.approval = os.approval
    <3>1. read.plan = os.plan /\ read.approval = os.approval
      BY <2>6 DEF ImportSight
    <3>2. CASE Metadata(os') = Metadata(os) /\ read.plan = "four"
      BY <3>1, <3>2 DEF Metadata
    <3>3. CASE os'.plan = "four" /\ os'.approval = read.approval
      BY <3>1, <3>3
    <3> QED  BY <2>2, <2>5, <2>6, <3>2, <3>3
  <2> QED  BY <1>7, <2>1, <2>5, <2>6 DEF BudgetPilots
<1> QED  BY <1>3, <1>4, <1>5, <1>6, <1>7 DEF BudgetPilots

\* A pilot whose turn it is has its request served.
LEMMA PostServed ==
  ASSUME PilotsInv, NEW p \in untouched, Posting(p), p \in BudgetPilots => runOf[p].read # NoRead, ItsTurn(p)
  PROVE  ~HandlerRejects(Request(p))
<1>1. runOf[p].at # 0
  BY DEF Posting
<1>2. p \in Pilots /\ PilotOK(p) /\ TablesOK /\ Knows(p) /\ SoundJob
  BY <1>1, WhatHolds
<1>3. PICK q : q = Request(p)
  OBVIOUS
<1>4. q.pilot = p /\ q.revision = runOf[p].saw.revision /\ q.read = runOf[p].read
  BY <1>2, <1>3, RequestOfRun
<1>5. p \in {"draft", "award", "budget", "plan", "launch"}
  BY <1>2, PostPlaces
<1>6. CASE p = "draft"
  <2>1. ~QuoteRefused
    BY <1>2, SoundFacts DEF QuoteRefused
  <2> QED  BY <1>3, <1>4, <1>6, <2>1 DEF HandlerRejects
<1>7. CASE p = "award"
  <2>1. KnowsAward /\ runOf["award"].at \in {4, 5}
    BY <1>2, <1>7, PostPlaces DEF Knows
  <2>2. os.quote # NoQuote
    BY <1>7 DEF ItsTurn
  <2>3. os.quote.status = "accepted" \/ (os.quote.status = "draft" /\ os.quote.revision = runOf["award"].saw.revision)
    BY <1>2, <2>1, <2>2, SoundFacts DEF KnowsAward, PilotQuote, Accepted
  <2>4. ~AcceptRefused(runOf["award"].saw.revision)
    BY <2>3 DEF AcceptRefused
  <2> QED  BY <1>3, <1>4, <1>7, <2>4 DEF HandlerRejects
<1>8. CASE p \in BudgetPilots
  <2>1. runOf[p].read = ImportSight(os)
    BY <1>2, <1>8 DEF Knows
  <2>2. os.manual = "none" /\ ~os.approval /\ (p = "plan" => os.stage = "awarded")
    <3>1. p = "plan" => os.entries # 0
      BY DEF ItsTurn
    <3> QED  BY <1>2, <3>1, SoundFacts DEF Awarded
  <2>3. /\ runOf[p].read.manual = os.manual /\ runOf[p].read.entries = os.entries
        /\ runOf[p].read.approval = os.approval /\ runOf[p].read.stage = os.stage
    BY <2>1 DEF ImportSight
  <2>4. ~ImportRefused(runOf[p].read)
    BY <2>2, <2>3 DEF ImportRefused
  <2>5. p = "plan" => ~PlanRefused(runOf[p].read)
    BY <2>2, <2>3 DEF PlanRefused
  <2> QED  BY <1>3, <1>4, <1>8, <2>4, <2>5 DEF HandlerRejects, BudgetPilots
<1>9. CASE p = "launch"
  <2>1. os.stage = "awarded"
    BY <1>2, <1>9, LaunchTurn DEF Awarded
  <2> QED  BY <1>3, <1>4, <1>9, <2>1 DEF HandlerRejects
<1> QED  BY <1>5, <1>6, <1>7, <1>8, <1>9 DEF BudgetPilots

\* What the job is after a pilot's request, when nobody but pilots has written
LEMMA PostSound ==
  ASSUME PilotsInv, NEW p \in Pilots, Posting(p), p \in BudgetPilots => runOf[p].read # NoRead,
         ~HandlerRejects(Request(p)), os' = Served(Request(p)), raced' = (raced \/ Raced(Request(p))),
         decided' = decided
  PROVE  Advances /\ (writes = 0 => SoundJob') /\ Decisions'
<1>1. PilotOK(p) /\ TablesOK /\ Decisions
  BY DEF PilotsInv
<1>2. PICK q \in Requests : q = Request(p)
  BY <1>1, RequestOfRun
<1>3. /\ q.pilot = p /\ q.revision = runOf[p].saw.revision /\ q.read = runOf[p].read
      /\ p \in BudgetPilots => runOf[p].read \in ImportSights /\ ReadStands(runOf[p].read)
      /\ p = "award" => SeenRight(runOf[p].saw.revision)
  BY <1>1, <1>2, RequestOfRun
<1>4. Advances /\ Decisions'
  BY <1>1, <1>2, <1>3, RequestServed
<1>5. ASSUME writes = 0 PROVE SoundJob'
  <2>1. SoundJob /\ SoundRun(p)
    BY <1>5 DEF PilotsInv, Sound
  <2>2. ASSUME p \in BudgetPilots PROVE os.stage = "awarded" /\ SoundRead(q.read)
    <3>1. runOf[p].at >= 2 /\ runOf[p].saw.fits
      BY <1>1, PostPlaces DEF PilotOK
    <3> QED  BY <1>3, <2>1, <2>2, <3>1 DEF SoundRun
  <2> QED  BY <1>1, <1>2, <1>3, <2>1, <2>2, RequestServed
<1> QED  BY <1>4, <1>5

\* And it has its request answered as it expects, the second time like the first.
LEMMA PostPasses ==
  ASSUME PilotsInv, NEW p \in untouched, Posting(p), p \in BudgetPilots => runOf[p].read # NoRead, ItsTurn(p),
         os' = Served(Request(p)), raced' = (raced \/ Raced(Request(p))), decided' = decided
  PROVE  AnswerVerified(p)' /\ (Step(p) = "again" => Identity(p)' = runOf[p].saw.first)
<1>1. runOf[p].at # 0
  BY DEF Posting
<1>2. p \in Pilots /\ PilotOK(p) /\ TablesOK /\ Knows(p) /\ SoundJob
  BY <1>1, WhatHolds
<1>3. SoundJob'
  BY <1>2, PostServed, PostSound DEF ItsTurn
<1>4. p \in {"draft", "award", "budget", "plan", "launch"}
  BY <1>2, PostPlaces
<1>5. CASE p = "draft"
  <2>1. KnowsDraft /\ runOf["draft"].at \in {3, 4} /\ (Step("draft") = "again" => runOf["draft"].at = 4)
    BY <1>2, <1>5, PostPlaces DEF Knows
  <2>2. os.quote.status # "accepted" /\ os.stage = "opportunity" /\ os.job = 0
    BY <1>2, <1>5, DraftTurn DEF ItsTurn
  <2>3. os'.job = 0 /\ os'.quote.status = "draft" /\ os'.quote.issue = "draft" /\ os'.quote.right
    <3>1. CASE os.quote = NoQuote
      BY <1>2, <1>5, <2>2, <3>1, ServedParts, SoundFacts
    <3>2. CASE os.quote # NoQuote
      <4>1. os' = os
        BY <1>2, <1>5, <3>2, ServedParts
      <4> QED  BY <1>2, <2>2, <3>2, <4>1, SoundFacts
    <3> QED  BY <3>1, <3>2
  <2>4. AnswerVerified("draft")' /\ Identity("draft")' = 1
    BY <2>3 DEF AnswerVerified, Identity, DraftQuote, BudgetPilots
  <2>5. Step("draft") = "again" => runOf["draft"].saw.first = 1
    BY <2>1 DEF KnowsDraft
  <2> QED  BY <1>5, <2>4, <2>5
<1>6. CASE p = "award"
  <2>1. KnowsAward /\ runOf["award"].at \in {4, 5} /\ (Step("award") = "again" => runOf["award"].at = 5)
    BY <1>2, <1>6, PostPlaces DEF Knows
  <2>2. os'.quote.status = "accepted" /\ (os.quote.status = "accepted" => os'.quote = os.quote)
    BY <1>2, <1>6, ServedParts DEF BudgetPilots
  <2>3. os'.quote # NoQuote
    BY <2>2 DEF NoQuote
  <2>4. os'.quote.issue = "draft" /\ os'.quote.right /\ os'.quote.by = "pilot" /\ os'.job = 1
    BY <1>3, <2>2, <2>3 DEF SoundJob
  <2>5. AnswerVerified("award")' /\ Identity("award")' = os'.quote.revision
    BY <2>2, <2>4 DEF AnswerVerified, Identity, PilotQuote, Accepted, BudgetPilots
  <2>6. Step("award") = "again" => os'.quote.revision = runOf["award"].saw.first
    BY <2>1, <2>2 DEF KnowsAward, PilotQuote, Accepted
  <2> QED  BY <1>6, <2>5, <2>6
<1>7. CASE p \in BudgetPilots
  <2>1. runOf[p].read.entries = os.entries
    BY <1>2, <1>7 DEF Knows, ImportSight
  <2>2. os'.entries = (IF os.entries # 0 THEN os.entries ELSE os.made + 1)
    BY <1>2, <1>7, <2>1, ServedParts
  <2>3. os.made \in Nat
    BY <1>2, TablesOf DEF TablesOK
  <2>4. os'.entries # 0
    BY <2>2, <2>3
  <2>5. os'.exact /\ os'.manual = "none"
    BY <1>3 DEF SoundJob
  <2>6. AnswerVerified(p)' /\ Identity(p)' = os'.entries
    BY <1>7, <2>4, <2>5 DEF AnswerVerified, Identity, Budgeted, BudgetPilots
  <2>7. ASSUME Step(p) = "again" PROVE os.entries # 0 /\ runOf[p].saw.first = os.entries
    <3>1. CASE p = "budget"
      <4>1. KnowsBudget /\ runOf["budget"].at = 6
        BY <1>2, <2>7, <3>1, PostPlaces DEF Knows
      <4> QED  BY <3>1, <4>1 DEF KnowsBudget, Budgeted
    <3>2. CASE p = "plan"
      <4>1. KnowsPlan /\ runOf["plan"].at = 8
        BY <1>2, <2>7, <3>2, PostPlaces DEF Knows
      <4> QED  BY <3>2, <4>1 DEF KnowsPlan, Budgeted
    <3> QED  BY <1>7, <3>1, <3>2 DEF BudgetPilots
  <2> QED  BY <2>2, <2>6, <2>7
<1>8. CASE p = "launch"
  <2>1. KnowsLaunch /\ runOf["launch"].at \in {6, 7} /\ (Step("launch") = "again" => runOf["launch"].at = 7)
    BY <1>2, <1>8, PostPlaces DEF Knows
  <2>2. os'.launch = "blocked" /\ (os.launch # "none" => os' = os)
    <3>1. os.launch \in {"none", "blocked"}
      BY <1>2, SoundFacts
    <3>2. (os.launch # "none" => os' = os) /\ (os.launch = "none" => os'.launch = "blocked")
      BY <1>2, <1>8, ServedParts DEF BudgetPilots
    <3> QED  BY <3>1, <3>2
  <2>3. AnswerVerified("launch")' /\ Identity("launch")' = os'.shell
    BY <2>2 DEF AnswerVerified, Identity, LaunchVerified
  <2>4. Step("launch") = "again" => os'.shell = runOf["launch"].saw.first
    BY <2>1, <2>2 DEF KnowsLaunch, LaunchVerified
  <2> QED  BY <1>8, <2>3, <2>4
<1> QED  BY <1>4, <1>5, <1>6, <1>7, <1>8 DEF BudgetPilots

\* With its answer a pilot goes on.
LEMMA AnswerKept ==
  ASSUME TablesOK', NEW p \in Pilots, PilotOK(p), Posting(p), NEW saw, saw = runOf[p].saw, NEW new, new = AnswerSight(p)
  PROVE  /\ new \in Sights /\ new.revision = saw.revision /\ new.fits = saw.fits /\ new.counts = saw.counts
         /\ Step(p) = "post" => new.first = Identity(p)'
         /\ p = "award" => new.job = os'.job
<1>1. PICK first : first = IF Step(p) = "post" THEN Identity(p)' ELSE 0
  OBVIOUS
<1>2. PICK job : job = IF p = "award" THEN os'.job ELSE 0
  OBVIOUS
<1>3. new = [saw EXCEPT !.first = first, !.job = job]
  BY <1>1, <1>2 DEF AnswerSight
<1>4. os'.quote.revision \in Nat /\ os'.entries \in Nat /\ os'.shell \in Nat /\ os'.job \in Nat
  BY DEF TablesOK, JobTables, JobQuotes
<1>5. first \in Nat
  <2>1. p \in {"draft", "award", "budget", "plan", "launch"}
    BY PostPlaces
  <2>2. Identity(p)' \in Nat
    BY <1>4, <2>1 DEF Identity, BudgetPilots
  <2> QED  BY <1>1, <2>2
<1>6. job \in Nat
  BY <1>2, <1>4
<1>7. saw \in Sights
  BY DEF PilotOK, PilotRuns
<1>8. new \in Sights /\ new.first = first /\ new.job = job
  BY <1>3, <1>5, <1>6, <1>7 DEF Sights
<1>9. new.revision = saw.revision /\ new.fits = saw.fits /\ new.counts = saw.counts
  BY <1>3, <1>7 DEF Sights
<1> QED  BY <1>1, <1>2, <1>8, <1>9

\* An answer takes a run to its next place.
LEMMA PostKeepsRun ==
  ASSUME PilotsInv, NEW p \in Pilots, Posting(p), p \in BudgetPilots => runOf[p].read # NoRead, Advances,
         runOf'[p] = [at |-> runOf[p].at + 1, saw |-> AnswerSight(p), read |-> NoRead]
  PROVE  PilotOK(p)' /\ (writes = 0 => SoundRun(p)')
<1>1. PilotOK(p) /\ TablesOK /\ TablesOK'
  BY DEF PilotsInv, Advances
<1>2. PICK new : new = AnswerSight(p)
  OBVIOUS
<1>3. PICK saw : saw = runOf[p].saw
  OBVIOUS
<1>4. new \in Sights /\ new.revision = saw.revision /\ new.fits = saw.fits
  BY <1>1, <1>2, <1>3, AnswerKept
<1>5. /\ runOf[p].at \notin Verifying[p] /\ runOf[p].at + 1 \notin Verifying[p] /\ runOf[p].at >= 2
      /\ runOf[p].at # Len(Programs[p]) /\ (p = "award" => runOf[p].at \in {4, 5})
  BY <1>1, PostPlaces
<1>6. saw.fits
  BY <1>1, <1>3, <1>5 DEF PilotOK
<1>7. runOf'[p] = [at |-> runOf[p].at + 1, saw |-> new, read |-> NoRead]
  BY <1>2
<1>8. p = "award" => SeenRight(new.revision)'
  <2>1. saw.revision \in Nat
    BY <1>1, <1>3 DEF PilotOK, PilotRuns, Sights
  <2>2. p = "award" => SeenRight(saw.revision)
    BY <1>1, <1>3, <1>5 DEF PilotOK
  <2>3. p = "award" => SeenRight(saw.revision)'
    BY <2>1, <2>2 DEF Advances
  <2> QED  BY <1>4, <2>3 DEF SeenRight
<1>9. PilotOK(p)'
  BY <1>1, <1>4, <1>5, <1>6, <1>7, <1>8, RunGoesOn
<1>10. ASSUME writes = 0 PROVE SoundRun(p)'
  <2>1. SoundRun(p)
    BY <1>10 DEF PilotsInv, Sound
  <2>2. p \in BudgetPilots => os.stage = "awarded"
    BY <1>3, <1>5, <1>6, <2>1 DEF SoundRun
  <2>3. p \in BudgetPilots => os'.stage = "awarded"
    BY <2>2 DEF Advances
  <2> QED  BY <1>7, <2>3 DEF SoundRun
<1> QED  BY <1>9, <1>10

\* What a pilot knows when its answer is as it expects
LEMMA PostLearns ==
  ASSUME PilotsInv, NEW p \in Pilots, Posting(p), p \in BudgetPilots => runOf[p].read # NoRead, Advances, Knows(p),
         os' = Served(Request(p)), AnswerVerified(p)',
         runOf'[p] = [at |-> runOf[p].at + 1, saw |-> AnswerSight(p), read |-> NoRead]
  PROVE  Knows(p)'
<1>1. PilotOK(p) /\ TablesOK /\ TablesOK'
  BY DEF PilotsInv, Advances
<1>2. PICK r, saw, new, next : r = runOf[p] /\ saw = r.saw /\ new = AnswerSight(p) /\ next = runOf'[p]
  OBVIOUS
<1>3. next.at = r.at + 1 /\ next.saw = new /\ next.read = NoRead
  BY <1>2
<1>4. /\ new.counts = saw.counts /\ (Step(p) = "post" => new.first = Identity(p)')
      /\ p = "award" => new.job = os'.job
  BY <1>1, <1>2, AnswerKept
<1>5. p \in {"draft", "award", "budget", "plan", "launch"}
  BY <1>1, PostPlaces
<1>6. CASE p = "draft"
  <2>1. KnowsDraft /\ r.at \in {3, 4} /\ (r.at = 3 => Step("draft") = "post")
    BY <1>1, <1>2, <1>6, PostPlaces DEF Knows
  <2>2. os'.stage = "opportunity" /\ os'.job = 0
    BY <1>1, <1>2, <1>6, <2>1, ServedParts DEF KnowsDraft
  <2>3. DraftQuote'
    BY <1>6 DEF AnswerVerified, BudgetPilots
  <2>4. r.at = 3 => new.first = 1
    <3>1. Identity("draft")' = 1
      BY DEF Identity, BudgetPilots
    <3> QED  BY <1>4, <1>6, <2>1, <3>1
  <2>5. KnowsDraft'
    BY <1>2, <1>3, <1>6, <2>1, <2>2, <2>3, <2>4 DEF KnowsDraft
  <2> QED  BY <1>2, <1>3, <1>6, <2>5 DEF Knows
<1>7. CASE p = "award"
  <2>1. r.at \in {4, 5} /\ (r.at = 4 => Step("award") = "post")
    BY <1>1, <1>2, <1>7, PostPlaces
  <2>2. PilotQuote'
    BY <1>7 DEF AnswerVerified, BudgetPilots
  <2>3. r.at = 4 => new.first = os'.quote.revision
    <3>1. Identity("award")' = os'.quote.revision
      BY DEF Identity, BudgetPilots
    <3> QED  BY <1>4, <1>7, <2>1, <3>1
  <2>4. KnowsAward'
    BY <1>2, <1>3, <1>4, <1>7, <2>1, <2>2, <2>3 DEF KnowsAward
  <2> QED  BY <1>2, <1>3, <1>7, <2>4 DEF Knows
<1>8. ASSUME p \in BudgetPilots
      PROVE  /\ Budgeted' /\ (Awarded => Awarded') /\ (Accepted => Accepted')
             /\ Step(p) = "post" => new.first = os'.entries
  <2>1. Budgeted'
    BY <1>8 DEF AnswerVerified, BudgetPilots
  <2>2. os'.quote = os.quote /\ os'.stage = os.stage /\ os'.job = os.job
    BY <1>1, <1>8, ServedParts
  <2>3. Identity(p)' = os'.entries
    BY <1>8 DEF Identity, BudgetPilots
  <2> QED  BY <1>4, <2>1, <2>2, <2>3 DEF Awarded, Accepted
<1>9. CASE p = "budget"
  <2>1. KnowsBudget /\ r.at \in {5, 6} /\ (r.at = 5 => Step("budget") = "post")
    BY <1>1, <1>2, <1>9, PostPlaces DEF Knows
  <2>2. Awarded /\ Accepted
    BY <1>2, <1>9, <2>1 DEF KnowsBudget
  <2>3. Awarded' /\ Accepted' /\ Budgeted' /\ (r.at = 5 => new.first = os'.entries)
    BY <1>8, <1>9, <2>1, <2>2 DEF BudgetPilots
  <2>4. KnowsBudget'
    BY <1>2, <1>3, <1>9, <2>1, <2>3 DEF KnowsBudget
  <2> QED  BY <1>2, <1>3, <1>9, <2>4 DEF Knows
<1>10. CASE p = "plan"
  <2>1. KnowsPlan /\ r.at \in {6, 8} /\ (r.at = 6 => Step("plan") = "post")
    BY <1>1, <1>2, <1>10, PostPlaces DEF Knows
  <2>2. Awarded /\ Accepted /\ (r.at = 8 => ~os.approval)
    BY <1>2, <1>10, <2>1 DEF KnowsPlan
  <2>3. Awarded' /\ Accepted' /\ Budgeted' /\ (r.at = 6 => new.first = os'.entries)
    BY <1>8, <1>10, <2>1, <2>2 DEF BudgetPilots
  <2>4. os'.plan = "four" /\ os'.approval = os.approval
    <3>1. runOf[p].read = ImportSight(os)
      BY <1>10 DEF Knows, BudgetPilots
    <3> QED  BY <1>1, <1>10, <3>1, ServedParts
  <2>5. KnowsPlan'
    BY <1>2, <1>3, <1>10, <2>1, <2>2, <2>3, <2>4 DEF KnowsPlan
  <2> QED  BY <1>2, <1>3, <1>10, <2>5 DEF Knows
<1>11. CASE p = "launch"
  <2>1. KnowsLaunch /\ r.at \in {6, 7} /\ (r.at = 6 => Step("launch") = "post")
    BY <1>1, <1>2, <1>11, PostPlaces DEF Knows
  <2>2. Awarded /\ PlanVerified /\ Accepted /\ saw.counts = Counts("launch")
    BY <1>2, <1>11, <2>1 DEF KnowsLaunch
  <2>3. /\ os'.quote = os.quote /\ os'.stage = os.stage /\ os'.job = os.job /\ os'.plan = os.plan
        /\ os'.approval = os.approval /\ os'.field = os.field
    BY <1>1, <1>11, ServedParts DEF BudgetPilots
  <2>4. Awarded' /\ PlanVerified' /\ Accepted' /\ saw.counts = Counts("launch")'
    BY <2>2, <2>3 DEF Awarded, PlanVerified, Accepted, Counts
  <2>5. LaunchVerified' /\ (r.at = 6 => new.first = os'.shell)
    <3>1. Identity("launch")' = os'.shell
      BY DEF Identity, BudgetPilots
    <3>2. LaunchVerified'
      BY <1>11 DEF AnswerVerified, BudgetPilots
    <3> QED  BY <1>4, <1>11, <2>1, <3>1, <3>2
  <2>6. KnowsLaunch'
    BY <1>2, <1>3, <1>4, <1>11, <2>1, <2>4, <2>5 DEF KnowsLaunch
  <2> QED  BY <1>2, <1>3, <1>11, <2>6 DEF Knows
<1> QED  BY <1>5, <1>6, <1>7, <1>9, <1>10, <1>11

\* A step of one pilot that writes nothing
LEMMA QuietMove ==
  ASSUME PilotsInv, NEW p \in Pilots, NEW r, runOf' = [runOf EXCEPT ![p] = r],
         UNCHANGED <<os, unanswered, writes, raced, decided>>, stuck' = {},
         PilotOK(p)', writes = 0 => SoundRun(p)', untouched' \ {p} \subseteq untouched,
         p \in untouched' => (IF r.at # 0 THEN Knows(p)' ELSE Reported(p)')
  PROVE  PilotsInv'
<1>1. TablesOK /\ UnansweredOK /\ Decisions /\ (writes = 0 => SoundJob /\ SoundUnanswered)
  BY DEF PilotsInv, Sound
<1>2. Advances /\ (writes = 0 => SoundJob') /\ Decisions'
  BY <1>1, NothingWritten
<1>3. UnansweredOK' /\ (writes = 0 => SoundUnanswered')
  BY <1>1, <1>2, UnansweredStays
<1>4. UNCHANGED <<writes, decided>> /\ (os' # os => untouched' \subseteq {p})
  OBVIOUS
<1> QED  BY <1>2, <1>3, <1>4, PilotMoves

\* A pilot is started,
LEMMA BeginStep ==
  ASSUME PilotsInv, NEW p \in Pilots, Begin(p)
  PROVE  PilotsInv'
<1>1. PICK r : r = [NotRunning EXCEPT !.at = 1]
  OBVIOUS
<1>2. /\ runOf' = [runOf EXCEPT ![p] = r] /\ untouched' = untouched \cup {p}
      /\ UNCHANGED <<os, unanswered, writes, raced, decided>> /\ stuck' = {}
  BY <1>1 DEF Begin, PilotsInv
<1>3. runOf'[p] = r /\ r.at = 1
  BY <1>1, <1>2 DEF PilotsInv, NotRunning
<1>4. runOf'[p] \in {NotRunning, [NotRunning EXCEPT !.at = 1]} /\ runOf'[p].at # 0
  BY <1>1, <1>3
<1>5. PilotOK(p)' /\ SoundRun(p)' /\ Knows(p)'
  BY <1>4, NewRun
<1>6. /\ writes = 0 => SoundRun(p)'
      /\ untouched' \ {p} \subseteq untouched
      /\ p \in untouched' => (IF r.at # 0 THEN Knows(p)' ELSE Reported(p)')
  BY <1>2, <1>3, <1>5
<1> QED  BY <1>2, <1>5, <1>6, QuietMove

\* A pilot that stops
LEMMA BlockMove ==
  ASSUME PilotsInv, NEW p \in Pilots, Block(p), ~(ItsTurn(p) /\ p \in untouched)
  PROVE  PilotsInv'
<1>1. PICK r : r = NotRunning
  OBVIOUS
<1>2. /\ runOf' = [runOf EXCEPT ![p] = r] /\ untouched' = untouched \ {p}
      /\ UNCHANGED <<os, unanswered, writes, raced, decided>> /\ stuck' = {}
  BY <1>1 DEF Block, PilotsInv
<1>3. PilotOK(p)' /\ SoundRun(p)'
  <2>1. runOf'[p] = NotRunning
    BY <1>1, <1>2 DEF PilotsInv
  <2> QED  BY <2>1, NewRun
<1> QED  BY <1>2, <1>3, QuietMove

\* verifies something, and goes on or stops,
LEMMA GetStep ==
  ASSUME PilotsInv, NEW p \in Pilots, Get(p)
  PROVE  PilotsInv'
<1>1. p \in Active /\ ~Posting(p) /\ runOf[p].at # 0 /\ PilotOK(p) /\ TablesOK
  BY DEF Get, Active, PilotsInv
<1>2. CASE ReadsOn(p) \/ (Verified(p) /\ runOf[p].saw.fits)
  <2>1. PICK r : r = IF runOf[p].at = Len(Programs[p]) THEN NotRunning
                     ELSE [at |-> runOf[p].at + 1, saw |-> Sight(p), read |-> NoRead]
    OBVIOUS
  <2>2. Proceed(p, Sight(p)) /\ UNCHANGED <<os, unanswered, writes, untouched, stuck, raced, decided>>
    BY <1>2 DEF Get
  <2>3. runOf' = [runOf EXCEPT ![p] = r] /\ runOf'[p] = r
    BY <2>1, <2>2 DEF Proceed, PilotsInv
  <2>4. PilotOK(p)' /\ (writes = 0 => SoundRun(p)')
    BY <1>1, <1>2, <2>1, <2>2, <2>3, GetKeepsRun
  <2>5. ASSUME p \in untouched PROVE IF r.at # 0 THEN Knows(p)' ELSE Reported(p)'
    <3>1. Knows(p)
      BY <1>1, <2>5 DEF PilotsInv, UntouchedPilots
    <3>2. CASE p = "draft"
      BY <1>1, <1>2, <2>1, <2>2, <2>3, <3>1, <3>2, DraftLearns
    <3>3. CASE p = "award"
      BY <1>1, <1>2, <2>1, <2>2, <2>3, <3>1, <3>3, AwardLearns
    <3>4. CASE p = "budget"
      BY <1>1, <1>2, <2>1, <2>2, <2>3, <3>1, <3>4, BudgetLearns
    <3>5. CASE p = "plan"
      BY <1>1, <1>2, <2>1, <2>2, <2>3, <3>1, <3>5, PlanLearns
    <3>6. CASE p = "launch"
      BY <1>1, <1>2, <2>1, <2>2, <2>3, <3>1, <3>6, LaunchLearns
    <3>7. CASE p = "gate"
      BY <1>1, <1>2, <2>1, <2>2, <2>3, <3>1, <3>7, GateLearns
    <3> QED  BY <3>2, <3>3, <3>4, <3>5, <3>6, <3>7, PilotPlaces
  <2>6. stuck' = {} /\ untouched' = untouched /\ UNCHANGED <<os, unanswered, writes, raced, decided>>
    BY <2>2 DEF PilotsInv
  <2> QED  BY <2>3, <2>4, <2>5, <2>6, QuietMove
<1>3. CASE ~(ReadsOn(p) \/ (Verified(p) /\ runOf[p].saw.fits))
  <2>1. Block(p)
    BY <1>3 DEF Get
  <2>2. ASSUME ItsTurn(p), p \in untouched PROVE FALSE
    <3>1. CASE p = "draft"
      BY <1>1, <1>3, <2>2, <3>1, DraftPasses
    <3>2. CASE p = "award"
      BY <1>1, <1>3, <2>2, <3>2, AwardPasses
    <3>3. CASE p = "budget"
      BY <1>1, <1>3, <2>2, <3>3, BudgetPasses
    <3>4. CASE p = "plan"
      BY <1>1, <1>3, <2>2, <3>4, PlanPasses
    <3>5. CASE p = "launch"
      BY <1>1, <1>3, <2>2, <3>5, LaunchPasses
    <3>6. CASE p = "gate"
      BY <1>1, <1>3, <2>2, <3>6, GatePasses
    <3> QED  BY <3>1, <3>2, <3>3, <3>4, <3>5, <3>6, PilotPlaces
  <2> QED  BY <2>1, <2>2, BlockMove
<1> QED  BY <1>2, <1>3

\* An import reads what is there.
LEMMA SightRead ==
  ASSUME TablesOK, NEW read, read = ImportSight(os)
  PROVE  /\ read \in ImportSights /\ read # NoRead /\ ReadStands(read)
         /\ SoundJob /\ os.stage = "awarded" => SoundRead(read)
<1>1. /\ read.estimate = os.estimate /\ read.stage = os.stage /\ read.baseline = os.baseline /\ read.plan = os.plan
      /\ read.approval = os.approval /\ read.launch = os.launch /\ read.shell = os.shell /\ read.exact = os.exact
      /\ read.entries = os.entries /\ read.manual = os.manual
  BY DEF ImportSight
<1>2. read \in ImportSights
  <2>1. /\ os.estimate \in {"approved", "changed"} /\ os.stage \in {"opportunity", "awarded"}
        /\ os.baseline \in {"none", "open", "allocated"} /\ os.plan \in {"none", "shell", "four"}
        /\ os.approval \in BOOLEAN /\ os.launch \in {"none", "blocked", "reviewed"} /\ os.shell \in Nat
        /\ os.entries \in Nat /\ os.exact \in BOOLEAN /\ os.manual \in {"none", "budget", "cost"}
    BY TablesOf DEF TablesOK
  <2> QED  BY <2>1 DEF ImportSight, ImportSights
<1>3. read # NoRead
  BY <1>2 DEF ImportSights, NoRead
<1>4. ReadStands(read)
  BY <1>1 DEF ReadStands, TablesOK
<1>5. ASSUME SoundJob, os.stage = "awarded" PROVE SoundRead(read)
  <2>1. os.quote.status = "accepted"
    BY <1>5 DEF SoundJob
  <2>2. /\ os.estimate = "approved" /\ os.manual = "none" /\ ~os.approval /\ os.exact /\ os.launch \in {"none", "blocked"}
        /\ os.baseline = (IF os.entries # 0 THEN "allocated" ELSE "open")
        /\ os.plan # "none" /\ (os.plan = "four" => os.entries # 0)
    BY <1>5, <2>1 DEF SoundJob
  <2> QED  BY <1>1, <1>5, <2>2 DEF SoundRead
<1> QED  BY <1>2, <1>3, <1>4, <1>5

\* has its import read the job,
LEMMA ImportReadsStep ==
  ASSUME PilotsInv, NEW p \in Pilots, ImportReads(p)
  PROVE  PilotsInv'
<1>1. PICK read : read = ImportSight(os)
  OBVIOUS
<1>2. PICK r : r = [runOf[p] EXCEPT !.read = read]
  OBVIOUS
<1>3. /\ runOf' = [runOf EXCEPT ![p] = r] /\ Posting(p) /\ p \in BudgetPilots
      /\ UNCHANGED <<os, unanswered, writes, untouched, stuck, raced, decided>>
  BY <1>1, <1>2 DEF ImportReads
<1>4. PilotOK(p) /\ TablesOK /\ runOf'[p] = r /\ p # "award"
  BY <1>3 DEF PilotsInv, BudgetPilots
<1>5. /\ read \in ImportSights /\ read # NoRead /\ ReadStands(read)
      /\ SoundJob /\ os.stage = "awarded" => SoundRead(read)
  BY <1>1, <1>4, SightRead
<1>6. runOf[p] \in PilotRuns(p)
  BY <1>4 DEF PilotOK
<1>7. r \in PilotRuns(p) /\ r.at = runOf[p].at /\ r.saw = runOf[p].saw /\ r.read = read
  BY <1>2, <1>5, <1>6 DEF PilotRuns
<1>8. Posting(p)' /\ ReadStands(read)'
  BY <1>3, <1>4, <1>5, <1>7 DEF Posting, Step, ReadStands
<1>9. PilotOK(p)'
  BY <1>3, <1>4, <1>7, <1>8 DEF PilotOK, PilotRuns, ReadStands
<1>10. ASSUME writes = 0 PROVE SoundRun(p)'
  <2>1. SoundRun(p) /\ SoundJob
    BY <1>10 DEF PilotsInv, Sound
  <2>2. r.at >= 2 /\ r.saw.fits
    BY <1>3, <1>4, <1>7, PostPlaces DEF PilotOK
  <2>3. os.stage = "awarded"
    BY <1>3, <1>7, <2>1, <2>2 DEF SoundRun
  <2> QED  BY <1>3, <1>4, <1>5, <1>7, <2>1, <2>3 DEF SoundRun, SoundRead
<1>11. ASSUME p \in untouched PROVE Knows(p)'
  <2>1. Knows(p)
    BY <1>3, <1>11 DEF PilotsInv, UntouchedPilots, Active, Posting
  <2>2. r.read = ImportSight(os)'
    BY <1>1, <1>3, <1>7
  <2>3. CASE p = "budget"
    <3>1. KnowsBudget
      BY <2>1, <2>3 DEF Knows
    <3>2. KnowsBudget'
      BY <1>3, <1>4, <1>7, <2>3, <3>1, SameJob DEF KnowsBudget
    <3> QED  BY <1>4, <2>2, <2>3, <3>2 DEF Knows
  <2>4. CASE p = "plan"
    <3>1. KnowsPlan
      BY <2>1, <2>4 DEF Knows
    <3>2. KnowsPlan'
      BY <1>3, <1>4, <1>7, <2>4, <3>1, SameJob DEF KnowsPlan
    <3> QED  BY <1>4, <2>2, <2>4, <3>2 DEF Knows
  <2> QED  BY <1>3, <2>3, <2>4 DEF BudgetPilots
<1>12. r.at # 0
  BY <1>3, <1>7 DEF Posting
<1>13. stuck' = {} /\ untouched' \ {p} \subseteq untouched
  BY <1>3 DEF PilotsInv
<1> QED  BY <1>3, <1>9, <1>10, <1>11, <1>12, <1>13, QuietMove

\* has its request served, and looks at the answer,
LEMMA PostStep ==
  ASSUME PilotsInv, NEW p \in Pilots, Post(p)
  PROVE  PilotsInv'
<1>1. Posting(p) /\ (p \in BudgetPilots => runOf[p].read # NoRead)
  BY DEF Post
<1>2. PilotOK(p) /\ TablesOK /\ UnansweredOK /\ (writes = 0 => SoundUnanswered) /\ runOf[p].at # Len(Programs[p])
  BY <1>1, PostPlaces DEF PilotsInv, Sound
<1>3. CASE HandlerRejects(Request(p))
  <2>1. Block(p)
    BY <1>3 DEF Post
  <2>2. ~(ItsTurn(p) /\ p \in untouched)
    BY <1>1, <1>3, PostServed
  <2> QED  BY <2>1, <2>2, BlockMove
<1>4. CASE ~HandlerRejects(Request(p))
  <2>1. os' = Served(Request(p)) /\ raced' = (raced \/ Raced(Request(p))) /\ UNCHANGED <<unanswered, writes, decided>>
    BY <1>4 DEF Post
  <2>2. Advances /\ (writes = 0 => SoundJob') /\ Decisions'
    BY <1>1, <1>4, <2>1, PostSound
  <2>3. UnansweredOK' /\ (writes = 0 => SoundUnanswered')
    BY <1>2, <2>1, <2>2, UnansweredStays
  <2>4. CASE AnswerVerified(p)' /\ (Step(p) = "again" => Identity(p)' = runOf[p].saw.first)
    <3>1. Proceed(p, AnswerSight(p)) /\ untouched' = Touched({p}) /\ UNCHANGED stuck
      BY <1>4, <2>4 DEF Post
    <3>2. PICK r : r = [at |-> runOf[p].at + 1, saw |-> AnswerSight(p), read |-> NoRead]
      OBVIOUS
    <3>3. runOf' = [runOf EXCEPT ![p] = r] /\ runOf'[p] = r
      BY <1>2, <3>1, <3>2 DEF Proceed, PilotsInv
    <3>4. PilotOK(p)' /\ (writes = 0 => SoundRun(p)')
      BY <1>1, <2>2, <3>2, <3>3, PostKeepsRun
    <3>5. /\ untouched' \subseteq untouched /\ (os' # os => untouched' \subseteq {p})
      BY <3>1 DEF Touched
    <3>6. r.at # 0
      BY <1>2, <3>2, PilotPlaces DEF PilotOK, PilotRuns
    <3>7. ASSUME p \in untouched' PROVE Knows(p)'
      <4>1. Knows(p)
        BY <1>1, <3>5, <3>7 DEF PilotsInv, UntouchedPilots, Active, Posting
      <4> QED  BY <1>1, <2>1, <2>2, <2>4, <3>2, <3>3, <4>1, PostLearns
    <3>8. stuck' = {}
      BY <3>1 DEF PilotsInv
    <3>9. UNCHANGED <<writes, decided>> /\ untouched' \ {p} \subseteq untouched
      BY <2>1, <3>5
    <3>10. p \in untouched' => (IF r.at # 0 THEN Knows(p)' ELSE Reported(p)')
      BY <3>6, <3>7
    <3> QED  BY <2>2, <2>3, <3>3, <3>4, <3>5, <3>8, <3>9, <3>10, PilotMoves
  <2>5. CASE ~(AnswerVerified(p)' /\ (Step(p) = "again" => Identity(p)' = runOf[p].saw.first))
    <3>1. /\ runOf' = [runOf EXCEPT ![p] = NotRunning] /\ untouched' = Touched({}) \ {p}
          /\ stuck' = IF ItsTurn(p) /\ p \in untouched THEN stuck \cup {p} ELSE stuck
      BY <1>4, <2>5 DEF Post
    <3>2. ~(ItsTurn(p) /\ p \in untouched)
      BY <1>1, <2>1, <2>5, PostPasses
    <3>3. stuck' = {}
      BY <3>1, <3>2 DEF PilotsInv
    <3>4. PICK r : r = NotRunning
      OBVIOUS
    <3>5. runOf' = [runOf EXCEPT ![p] = r] /\ runOf'[p] = NotRunning
      BY <3>1, <3>4 DEF PilotsInv
    <3>6. PilotOK(p)' /\ SoundRun(p)'
      BY <3>5, NewRun
    <3>7. untouched' \subseteq untouched /\ p \notin untouched' /\ (os' # os => untouched' \subseteq {p})
      BY <3>1 DEF Touched
    <3>8. UNCHANGED <<writes, decided>> /\ untouched' \ {p} \subseteq untouched
      BY <2>1, <3>7
    <3> QED  BY <2>2, <2>3, <3>3, <3>5, <3>6, <3>7, <3>8, PilotMoves
  <2> QED  BY <2>4, <2>5
<1> QED  BY <1>3, <1>4

\* or dies, its request under way.
LEMMA PilotDieStep ==
  ASSUME PilotsInv, NEW p \in Pilots, PilotDies(p)
  PROVE  PilotsInv'
<1>1. PICK r : r = NotRunning
  OBVIOUS
<1>2. /\ runOf' = [runOf EXCEPT ![p] = r] /\ untouched' = untouched \ {p}
      /\ UNCHANGED <<os, writes, raced, decided>> /\ stuck' = {}
  BY <1>1 DEF PilotDies, PilotsInv
<1>3. PilotOK(p)' /\ SoundRun(p)'
  <2>1. runOf'[p] = NotRunning
    BY <1>1, <1>2 DEF PilotsInv
  <2> QED  BY <2>1, NewRun
<1>4. PilotOK(p) /\ TablesOK /\ UnansweredOK /\ Decisions /\ (writes = 0 => SoundJob /\ SoundUnanswered /\ SoundRun(p))
  BY DEF PilotsInv, Sound
<1>5. Advances /\ (writes = 0 => SoundJob') /\ Decisions'
  BY <1>2, <1>4, NothingWritten
<1>6. UnansweredOK' /\ (writes = 0 => SoundUnanswered')
  <2>1. CASE unanswered' = unanswered
    BY <1>4, <1>5, <2>1, UnansweredStays
  <2>2. CASE Posting(p) /\ unanswered' = Request(p)
    <3>1. unanswered'.pilot = p /\ unanswered'.revision = runOf[p].saw.revision /\ unanswered'.read = runOf[p].read
      BY <2>2 DEF Request
    <3>2. runOf[p].read \in {NoRead} \cup ImportSights /\ runOf[p].saw.revision \in Nat
      BY <1>4 DEF PilotOK, PilotRuns, Sights
    <3>3. /\ p \in {"draft", "award", "budget", "plan", "launch"} /\ (p = "award" => runOf[p].at \in {4, 5})
          /\ runOf[p].at >= 2 /\ runOf[p].at \notin Verifying[p]
      BY <1>4, <2>2, PostPlaces
    <3>4. unanswered' \in Requests
      BY <2>2, <3>2, <3>3 DEF Request, Requests
    <3>5. /\ runOf[p].read # NoRead => ReadStands(runOf[p].read)
          /\ p = "award" => SeenRight(runOf[p].saw.revision)
          /\ runOf[p].saw.fits
      BY <1>4, <3>3 DEF PilotOK
    <3>6. UnansweredOK'
      BY <1>2, <3>1, <3>4, <3>5 DEF UnansweredOK, ReadStands, SeenRight
    <3>7. writes = 0 => SoundUnanswered'
      BY <1>2, <1>4, <3>1, <3>3, <3>5 DEF SoundRun, SoundUnanswered, SoundRead
    <3> QED  BY <3>6, <3>7
  <2> QED  BY <2>1, <2>2 DEF PilotDies
<1>7. UNCHANGED <<writes, decided>> /\ untouched' \ {p} \subseteq untouched /\ p \notin untouched' /\ os' = os
  BY <1>2
<1> QED  BY <1>2, <1>3, <1>5, <1>6, <1>7, PilotMoves

\* A step of no pilot: whoever has written, the pilots that go on knowing something
\* are those that nothing was changed for.
LEMMA OthersMove ==
  ASSUME PilotsInv, runOf' = runOf, stuck' = stuck, Advances, Decisions', decided' \subseteq {"plan", "launch"},
         writes' \in Nat, UnansweredOK', untouched' = Touched({}),
         writes' = 0 => writes = 0 /\ SoundJob' /\ SoundUnanswered'
  PROVE  PilotsInv'
<1>1. TablesOK /\ TablesOK'
  BY DEF PilotsInv, Advances
<1>2. \A q \in Pilots : PilotOK(q)'
  BY <1>1, RunStays DEF PilotsInv
<1>3. writes' = 0 => \A q \in Pilots : SoundRun(q)'
  <2> SUFFICES ASSUME writes' = 0, NEW q \in Pilots PROVE SoundRun(q)'
    OBVIOUS
  <2>1. SoundRun(q) /\ PilotOK(q)
    BY DEF PilotsInv, Sound
  <2> QED  BY <1>1, <2>1, RunStays
<1>4. Sound'
  BY <1>3 DEF Sound
<1>5. ASSUME NEW q \in untouched' PROVE IF runOf'[q].at # 0 THEN Knows(q)' ELSE Reported(q)'
  <2>1. q \in untouched /\ q \in Pilots /\ os' = os
    BY <1>5 DEF PilotsInv, Touched
  <2>2. runOf'[q] = runOf[q]
    OBVIOUS
  <2>3. IF runOf[q].at # 0 THEN Knows(q) ELSE Reported(q)
    BY <2>1 DEF PilotsInv, UntouchedPilots, Active
  <2> QED  BY <2>1, <2>2, <2>3, KnowledgeStays
<1>6. untouched' \subseteq Pilots
  BY DEF PilotsInv, Touched
<1>7. UntouchedPilots'
  BY <1>5, <1>6 DEF UntouchedPilots, Active
<1>8. DOMAIN runOf' = Pilots /\ stuck' = {}
  BY DEF PilotsInv
<1> QED  BY <1>1, <1>2, <1>4, <1>6, <1>7, <1>8 DEF PilotsInv

\* The request of a dead run is served.
LEMMA ServeStep ==
  ASSUME PilotsInv, ServeUnanswered
  PROVE  PilotsInv'
<1>1. /\ unanswered # NoneUnanswered /\ UNCHANGED <<runOf, writes, stuck, decided>>
  BY DEF ServeUnanswered
<1>2. /\ TablesOK /\ UnansweredOK /\ Decisions /\ (writes = 0 => SoundJob /\ SoundUnanswered)
      /\ writes \in Nat /\ decided \subseteq {"plan", "launch"}
  BY DEF PilotsInv, Sound
<1>3. /\ unanswered \in Requests
      /\ unanswered.read # NoRead => ReadStands(unanswered.read)
      /\ unanswered.pilot = "award" => SeenRight(unanswered.revision)
  BY <1>1, <1>2 DEF UnansweredOK
<1>4. CASE unanswered.pilot \in BudgetPilots /\ unanswered.read = NoRead
  <2>1. PICK read : read = ImportSight(os)
    OBVIOUS
  <2>2. unanswered' = [unanswered EXCEPT !.read = read] /\ UNCHANGED <<os, untouched, raced>>
    BY <1>4, <2>1 DEF ServeUnanswered
  <2>3. read \in ImportSights /\ ReadStands(read) /\ (SoundJob /\ os.stage = "awarded" => SoundRead(read))
    BY <1>2, <2>1, SightRead
  <2>4. /\ unanswered' \in Requests /\ unanswered'.read = read
        /\ unanswered'.pilot = unanswered.pilot /\ unanswered'.revision = unanswered.revision
    BY <1>3, <2>2, <2>3 DEF Requests
  <2>5. UnansweredOK'
    BY <1>3, <2>2, <2>3, <2>4 DEF UnansweredOK, ReadStands, SeenRight
  <2>6. writes = 0 => SoundUnanswered'
    BY <1>2, <1>4, <2>2, <2>3, <2>4 DEF SoundUnanswered, SoundRead
  <2>7. Advances /\ (SoundJob => SoundJob') /\ Decisions'
    BY <1>1, <1>2, <2>2, NothingWritten
  <2>8. untouched' = Touched({})
    BY <2>2 DEF Touched
  <2> QED  BY <1>1, <1>2, <2>5, <2>6, <2>7, <2>8, OthersMove
<1>5. CASE ~(unanswered.pilot \in BudgetPilots /\ unanswered.read = NoRead)
  <2>1. /\ unanswered' = NoneUnanswered /\ untouched' = Touched({})
        /\ os' = (IF HandlerRejects(unanswered) THEN os ELSE Served(unanswered))
        /\ raced' = (raced \/ (~HandlerRejects(unanswered) /\ Raced(unanswered)))
    BY <1>5 DEF ServeUnanswered
  <2>2. UnansweredOK' /\ SoundUnanswered'
    BY <2>1 DEF UnansweredOK, SoundUnanswered, NoneUnanswered, BudgetPilots
  <2>3. Advances /\ (writes = 0 => SoundJob') /\ Decisions'
    <3>1. CASE HandlerRejects(unanswered)
      <4>1. os' = os
        BY <2>1, <3>1
      <4>2. Advances /\ (SoundJob => SoundJob')
        BY <1>2, <4>1, NothingWritten
      <4>3. Decisions'
        BY <1>1, <1>2, <2>1, <3>1, <4>1 DEF Decisions
      <4> QED  BY <1>2, <4>2, <4>3
    <3>2. CASE ~HandlerRejects(unanswered)
      <4>1. os' = Served(unanswered)
        BY <2>1, <3>2
      <4>2. raced' <=> raced \/ Raced(unanswered)
        BY <2>1, <3>2
      <4>3. unanswered.pilot \in BudgetPilots => unanswered.read \in ImportSights /\ ReadStands(unanswered.read)
        BY <1>3, <1>5 DEF Requests
      <4>4. Advances /\ Decisions'
        BY <1>1, <1>2, <1>3, <3>2, <4>1, <4>2, <4>3, RequestServed
      <4>5. ASSUME writes = 0 PROVE SoundJob'
        <5>1. SoundJob /\ (unanswered.pilot \in BudgetPilots => os.stage = "awarded" /\ SoundRead(unanswered.read))
          BY <1>2, <1>5, <4>5 DEF SoundUnanswered
        <5> QED  BY <1>2, <1>3, <3>2, <4>1, <4>3, <5>1, RequestServed
      <4> QED  BY <4>4, <4>5
    <3> QED  BY <3>1, <3>2
  <2> QED  BY <1>1, <1>2, <2>1, <2>2, <2>3, OthersMove
<1> QED  BY <1>4, <1>5

\* The office writes.
LEMMA OfficeStep ==
  ASSUME PilotsInv, ChangeQuote \/ ChangeEstimate \/ AwardByHand \/ WriteLedger \/ DecideOn \/ FieldWork
  PROVE  PilotsInv'
<1>1. TablesOK /\ UnansweredOK /\ Decisions /\ writes \in Nat /\ decided \subseteq {"plan", "launch"}
  BY DEF PilotsInv
<1>2. /\ Advances /\ Decisions' /\ writes' = writes + 1 /\ untouched' = Touched({})
      /\ UNCHANGED <<runOf, unanswered, stuck, raced>> /\ decided' \subseteq {"plan", "launch"}
  BY <1>1, OfficeWrites
<1>3. UnansweredOK'
  BY <1>1, <1>2, UnansweredStays
<1>4. writes' \in Nat /\ writes' # 0
  BY <1>1, <1>2
<1> QED  BY <1>2, <1>3, <1>4, OthersMove

-----------------------------------------------------------------------------

\* The invariant is true of an estimate that was approved,
LEMMA PilotsInitInv == PilotsInit => PilotsInv
<1> SUFFICES ASSUME PilotsInit PROVE PilotsInv
  OBVIOUS
<1>1. /\ os.estimate = "approved" /\ os.quote = NoQuote /\ os.stage = "opportunity" /\ os.job = 0 /\ os.next = 1
      /\ os.baseline = "none" /\ os.plan = "none" /\ os.approval = FALSE /\ os.launch = "none" /\ os.shell = 0
      /\ os.entries = 0 /\ os.exact = TRUE /\ os.manual = "none" /\ os.made = 0
      /\ os.field = [control |-> 0, record |-> 0, sheet |-> 0, person |-> 0]
  BY DEF PilotsInit
<1>2. NoQuote \in JobQuotes /\ NoQuote.status = "none"
  BY DEF NoQuote, JobQuotes
<1>3. os \in JobTables
  BY <1>2 DEF PilotsInit, JobTables, JobFields
<1>4. TablesOK
  BY <1>1, <1>2, <1>3 DEF TablesOK
<1>5. DOMAIN runOf = Pilots /\ \A p \in Pilots : runOf[p] = NotRunning
  BY DEF PilotsInit
<1>6. NotRunning.at = 0 /\ NotRunning.saw = NoSight /\ NotRunning.read = NoRead /\ NoSight \in Sights /\ NoSight.fits
  BY DEF NotRunning, NoSight, Sights
<1>7. ASSUME NEW p \in Pilots PROVE PilotOK(p) /\ SoundRun(p)
  <2>1. runOf[p].at = 0 /\ runOf[p].saw = NoSight /\ runOf[p].read = NoRead
    BY <1>5, <1>6
  <2>2. Len(Programs[p]) \in Nat
    BY PilotPlaces
  <2>3. runOf[p] \in PilotRuns(p)
    <3>1. 0 \in 0..Len(Programs[p])
      BY <2>2
    <3> QED  BY <1>5, <1>6, <3>1 DEF PilotRuns, NotRunning
  <2> QED  BY <1>6, <2>1, <2>3 DEF PilotOK, SoundRun
<1>8. UnansweredOK /\ SoundUnanswered
  BY DEF PilotsInit, UnansweredOK, SoundUnanswered, NoneUnanswered, BudgetPilots
<1>9. SoundJob
  BY <1>1, <1>2 DEF SoundJob
<1>10. Sound
  BY <1>7, <1>8, <1>9 DEF Sound
<1>11. writes \in Nat /\ untouched = {} /\ stuck = {} /\ decided = {}
  BY DEF PilotsInit
<1> QED  BY <1>4, <1>5, <1>7, <1>8, <1>10, <1>11 DEF PilotsInv, UntouchedPilots, Decisions

\* stays true while nothing happens
LEMMA PilotsUnchanged ==
  ASSUME PilotsInv, UNCHANGED pilotVars
  PROVE  PilotsInv'
<1>1. /\ os' = os /\ runOf' = runOf /\ unanswered' = unanswered /\ writes' = writes /\ untouched' = untouched
      /\ stuck' = stuck /\ raced' = raced /\ decided' = decided
  BY DEF pilotVars
<1>2. TablesOK /\ UnansweredOK /\ Decisions /\ writes \in Nat /\ decided \subseteq {"plan", "launch"}
  BY DEF PilotsInv
<1>3. Advances /\ (SoundJob => SoundJob') /\ Decisions'
  BY <1>1, <1>2, NothingWritten
<1>4. UnansweredOK' /\ (SoundUnanswered => SoundUnanswered')
  BY <1>1, <1>2, <1>3, UnansweredStays
<1>5. untouched' = Touched({})
  BY <1>1 DEF Touched
<1>6. writes' = 0 => writes = 0 /\ SoundJob' /\ SoundUnanswered'
  BY <1>1, <1>3, <1>4 DEF PilotsInv, Sound
<1> QED  BY <1>1, <1>2, <1>3, <1>4, <1>5, <1>6, OthersMove

\* and after every step,
LEMMA PilotsStep == PilotsInv /\ [PilotsNext]_pilotVars => PilotsInv'
<1> SUFFICES ASSUME PilotsInv, [PilotsNext]_pilotVars PROVE PilotsInv'
  OBVIOUS
<1>1. CASE \E p \in Pilots : Begin(p)
  BY <1>1, BeginStep
<1>2. CASE \E p \in Pilots : Get(p)
  BY <1>2, GetStep
<1>3. CASE \E p \in Pilots : ImportReads(p)
  BY <1>3, ImportReadsStep
<1>4. CASE \E p \in Pilots : Post(p)
  BY <1>4, PostStep
<1>5. CASE \E p \in Pilots : PilotDies(p)
  BY <1>5, PilotDieStep
<1>6. CASE ServeUnanswered
  BY <1>6, ServeStep
<1>7. CASE ChangeQuote \/ ChangeEstimate \/ AwardByHand \/ WriteLedger \/ DecideOn \/ FieldWork
  BY <1>7, OfficeStep
<1>8. CASE UNCHANGED pilotVars
  BY <1>8, PilotsUnchanged
<1> QED  BY <1>1, <1>2, <1>3, <1>4, <1>5, <1>6, <1>7, <1>8 DEF PilotsNext

\* and implies what the run checks.
LEMMA PilotsInvHolds == PilotsInv => PilotsHold
<1> SUFFICES ASSUME PilotsInv PROVE PilotsHold
  OBVIOUS
<1>1. TablesOK /\ (\A p \in Pilots : PilotOK(p)) /\ stuck = {} /\ Decisions
      /\ untouched \subseteq Pilots /\ decided \subseteq {"plan", "launch"}
  BY DEF PilotsInv
<1>2. \A p \in Pilots : runOf[p].at \in 0..Len(Programs[p]) /\ (runOf[p].read # NoRead => Posting(p))
  BY <1>1 DEF PilotOK, PilotRuns
<1>3. PilotsTypeOK
  BY <1>1, <1>2 DEF PilotsTypeOK, TablesOK
<1>4. os.quote.status = "accepted" /\ os.quote.by = "pilot" => os.quote.right /\ os.quote.issue = "draft"
  BY <1>1 DEF TablesOK
<1>5. \A p \in untouched \ Active : Reported(p)
  BY DEF PilotsInv, UntouchedPilots
<1> QED  BY <1>1, <1>3, <1>4, <1>5 DEF PilotsHold, Decisions

\* The pilots' promise (app/tools/bennett_*_staging_pilot.py, bennett_quote_staging_award.py):
\* what one of them has accepted is the approved quote; a report is true of the whole
\* job until something but its pilot changes it; a pilot whose turn it is passes when it
\* is let alone, whatever became of the runs before; no decision of the office is undone,
\* but by an import that it fell into.
THEOREM PilotsAreTruthful == PilotsSpec => []PilotsHold
<1>1. PilotsSpec => []PilotsInv
  BY PilotsInitInv, PilotsStep, PTL DEF PilotsSpec
<1> QED  BY <1>1, PilotsInvHolds, PTL

=============================================================================
