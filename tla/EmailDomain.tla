----------------------------- MODULE EmailDomain -----------------------------
(***************************************************************************)
(* The change of the company's e-mail domain                               *)
(* (services/email_domain_migration.py): one command, in one transaction,  *)
(* for the accounts, the employees and the addresses that mail is sent to, *)
(* while people log in, are hired and are edited, and while the server is  *)
(* started again (db/bootstrap_admin.py).  Nothing but the address says    *)
(* which employee an account belongs to.                                   *)
(***************************************************************************)
EXTENDS Naturals, FiniteSets

CONSTANTS
  People,        \* the part of an address before the @
  Admin,         \* the administrator of the server's settings
  Contacts,      \* suppliers, contacts, RFQ recipients and alert recipients
  ContactOf,     \* [Contacts -> People]
  Nobody,
  MaxAccounts, MaxMigrations, MaxChanges

\* No address is the absence of one.
ASSUME EmailAssumption ==
  /\ Admin \in People /\ ContactOf \in [Contacts -> People]
  /\ \A p \in People, d \in {"old", "new"} : Nobody # [local |-> p, domain |-> d]
  /\ {MaxAccounts, MaxMigrations, MaxChanges} \subseteq Nat

VARIABLES
  users,        \* user_accounts: [email, version] by id
  employees,    \* employees: their email, by person
  contacts,
  throttled,    \* addresses with a row in login_throttles
  sessions,     \* the sessions that were ever opened: [user, email, version]
  migration,    \* the command between its reads and its commit
  form,         \* what the office has open
  migrations, changes,
  stale,        \* history: an account was written from an outdated read
  undisturbed,      \* history: a run had the tables for itself, and nothing changed since
  migrated      \* history: the accounts that the last run has changed

emailVars == <<users, employees, contacts, throttled, sessions, migration, form,
               migrations, changes, stale, undisturbed, migrated>>

Old(p) == [local |-> p, domain |-> "old"]
New(p) == [local |-> p, domain |-> "new"]
EmailAddresses == {Old(p) : p \in People} \cup {New(p) : p \in People}
NoMigration == [at |-> "idle"]
NoForm == [at |-> "idle"]
UsersAt(address) == {u \in DOMAIN users : users[u].email = address}

\* Before the change the administrator has an account and is an employee.
EmailInit ==
  /\ users = [u \in {1} |-> [email |-> Old(Admin), version |-> 1]]
  /\ employees = [p \in People |-> IF p = Admin THEN Old(p) ELSE Nobody]
  /\ contacts = [c \in Contacts |-> Old(ContactOf[c])]
  /\ throttled = {} /\ sessions = {}
  /\ migration = NoMigration /\ form = NoForm
  /\ migrations = 0 /\ changes = 0
  /\ stale = FALSE /\ undisturbed = FALSE
  /\ migrated = {}

Locked(u) == migration.at # "idle" /\ u \in DOMAIN migration.users

\* Something other than the command changes what it has left behind.
Changes ==
  /\ changes < MaxChanges /\ changes' = changes + 1
  /\ undisturbed' = FALSE

----------------------------------------------------------------------------
\* The command

\* _replacement
Replacement(address) == IF address = Nobody THEN Nobody ELSE New(address.local)

\* The accounts are read first, and are locked from then on.
ReadUsers ==
  /\ migration = NoMigration /\ migrations < MaxMigrations
  /\ migrations' = migrations + 1
  /\ migration' = [at |-> "employees", users |-> users]
  /\ UNCHANGED <<users, employees, contacts, throttled, sessions, form, changes, stale, undisturbed, migrated>>

\* _collision_conflicts: two rows of a table would have the same address.
UserCollision(us) == \E u, v \in DOMAIN us : u # v /\ Replacement(us[u].email) = Replacement(us[v].email)

\* Then the other tables.  A collision ends the command without a write.
ReadEmployees ==
  /\ migration.at = "employees"
  /\ IF UserCollision(migration.users)
     THEN migration' = NoMigration
     ELSE migration' = [at |-> "commit", users |-> migration.users, employees |-> employees, contacts |-> contacts]
  /\ UNCHANGED <<users, employees, contacts, throttled, sessions, form, migrations, changes, stale, undisturbed, migrated>>

ChangedUsers == {u \in DOMAIN migration.users : migration.users[u].email.domain = "old"}

\* Mutant of ClearedThrottles: the throttles of the retired addresses only.
ClearedRetired == {migration.users[u].email : u \in ChangedUsers}

ClearedThrottles ==
  {migration.users[u].email : u \in ChangedUsers} \cup {New(migration.users[u].email.local) : u \in ChangedUsers}

\* An address that was given to another account meanwhile fails on its unique key.
Taken == \E u \in ChangedUsers : UsersAt(New(migration.users[u].email.local)) # {}

\* --apply, with --confirm: everything is written and committed.
ApplyMigration ==
  /\ migration.at = "commit" /\ ~Taken
  /\ users' = [u \in DOMAIN users |->
                 IF u \in ChangedUsers
                 THEN [email |-> New(users[u].email.local), version |-> migration.users[u].version + 1]
                 ELSE users[u]]
  /\ employees' = [p \in People |-> IF migration.employees[p] = Nobody THEN employees[p] ELSE New(p)]
  /\ contacts' = [c \in Contacts |-> Replacement(contacts[c])]
  /\ throttled' = throttled \ ClearedThrottles
  /\ migration' = NoMigration
  /\ migrated' = ChangedUsers
  /\ undisturbed' = (DOMAIN users = DOMAIN migration.users)
  /\ UNCHANGED <<sessions, form, migrations, changes, stale>>

\* A dry run, a unique key, or the death of the process.
AbandonMigration ==
  /\ migration # NoMigration
  /\ migration' = NoMigration
  /\ UNCHANGED <<users, employees, contacts, throttled, sessions, form, migrations, changes, stale, undisturbed, migrated>>

----------------------------------------------------------------------------
\* Beside it

\* authenticate: someone mistypes a password, or guesses at an address.
LoginFails(address) ==
  /\ address \notin throttled /\ Changes
  /\ throttled' = throttled \cup {address}
  /\ UNCHANGED <<users, employees, contacts, sessions, migration, form, migrations, stale, migrated>>

\* The password was right: the throttle goes, and the session is of the account
\* as it is after the commit.  The write waits for the command.
LogIn(u) ==
  /\ ~Locked(u)
  /\ sessions' = sessions \cup {[user |-> u, email |-> users[u].email, version |-> users[u].version]}
  /\ throttled' = throttled \ {users[u].email}
  /\ UNCHANGED <<users, employees, contacts, migration, form, migrations, changes, stale, undisturbed, migrated>>

\* activate: an employee and an account, at the address given at the onboarding.
Hire(p) ==
  /\ employees[p] = Nobody /\ Cardinality(DOMAIN users) < MaxAccounts /\ Changes
  /\ \E address \in {Old(p), New(p)} :
       /\ UsersAt(address) = {}
       /\ employees' = [employees EXCEPT ![p] = address]
       /\ users' = [u \in 1..Cardinality(DOMAIN users) + 1 |->
                      IF u \in DOMAIN users THEN users[u] ELSE [email |-> address, version |-> 1]]
  /\ UNCHANGED <<contacts, throttled, sessions, migration, form, migrations, stale, migrated>>

\* bootstrap_admin, whenever the backend is started: the settings may have only
\* the canonical address.
Restart ==
  /\ UsersAt(New(Admin)) = {} /\ Cardinality(DOMAIN users) < MaxAccounts /\ Changes
  /\ users' = [u \in 1..Cardinality(DOMAIN users) + 1 |->
                 IF u \in DOMAIN users THEN users[u] ELSE [email |-> New(Admin), version |-> 1]]
  /\ UNCHANGED <<employees, contacts, throttled, sessions, migration, form, migrations, stale, migrated>>

\* update_account reads the account without a lock ...
OpenAccount(u) ==
  /\ form = NoForm /\ changes < MaxChanges
  /\ form' = [at |-> "account", user |-> u, seen |-> users[u]]
  /\ UNCHANGED <<users, employees, contacts, throttled, sessions, migration, migrations, changes, stale, undisturbed, migrated>>

\* ... and moves it to the person's other address, with a version of its own.
SaveAccount ==
  /\ form.at = "account" /\ ~Locked(form.user) /\ Changes
  /\ LET p == form.seen.email.local
         address == IF form.seen.email = Old(p) THEN New(p) ELSE Old(p) IN
       /\ UsersAt(address) \subseteq {form.user}
       /\ users' = [users EXCEPT ![form.user] = [email |-> address, version |-> form.seen.version + 1]]
       /\ throttled' = throttled \ {form.seen.email}
  /\ stale' = (stale \/ users[form.user] # form.seen)
  /\ form' = NoForm
  /\ UNCHANGED <<employees, contacts, sessions, migration, migrations, migrated>>

\* A page with a supplier or a package is saved with the addresses it was opened
\* with; the row is written as a whole, after the command.
SaveContact(c) ==
  /\ migration.at # "commit" /\ contacts[c] # Old(ContactOf[c]) /\ Changes
  /\ contacts' = [contacts EXCEPT ![c] = Old(ContactOf[c])]
  /\ UNCHANGED <<users, employees, throttled, sessions, migration, form, migrations, stale, migrated>>

CloseForm ==
  /\ form # NoForm
  /\ form' = NoForm
  /\ UNCHANGED <<users, employees, contacts, throttled, sessions, migration, migrations, changes, stale, undisturbed, migrated>>

EmailNext ==
  \/ ReadUsers \/ ReadEmployees \/ ApplyMigration \/ AbandonMigration
  \/ \E a \in EmailAddresses : LoginFails(a)
  \/ \E u \in DOMAIN users : LogIn(u) \/ OpenAccount(u)
  \/ \E p \in People : Hire(p)
  \/ Restart
  \/ SaveAccount \/ CloseForm
  \/ \E c \in Contacts : SaveContact(c)

EmailSpec == EmailInit /\ [][EmailNext]_emailVars

-----------------------------------------------------------------------------
\* An address is of one account, and rows are numbered as they are made.
EmailTypeOK ==
  /\ DOMAIN users = 1..Cardinality(DOMAIN users)
  /\ \A u \in DOMAIN users : users[u].email \in EmailAddresses /\ users[u].version \in Nat \ {0}
  /\ \A u, v \in DOMAIN users : u # v => users[u].email # users[v].email
  /\ employees \in [People -> EmailAddresses \cup {Nobody}]
  /\ throttled \subseteq EmailAddresses

\* A session that is still accepted was opened with the address that the account
\* has now; whoever was moved, by the command or by hand, logs in again.
SessionsNameTheAccount ==
  \A s \in sessions : s.version = users[s.user].version => s.email = users[s.user].email

\* After a run that nobody crossed no retired address is left, not one employee
\* has lost the account that is found by its address, and nobody who was moved
\* is kept out by the failures of before.
NothingRetired ==
  /\ \A u \in DOMAIN users : users[u].email.domain = "new"
  /\ \A c \in Contacts : contacts[c].domain = "new"
  /\ \A p \in People : employees[p] # Nobody =>
       employees[p].domain = "new" /\ UsersAt(employees[p]) # {}
  /\ \A u \in migrated : users[u].email \notin throttled

MigrationHolds ==
  /\ EmailTypeOK
  /\ ~stale => SessionsNameTheAccount
  /\ undisturbed => NothingRetired
=============================================================================
