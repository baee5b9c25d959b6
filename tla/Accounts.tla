------------------------------ MODULE Accounts ------------------------------
(***************************************************************************)
(* User accounts, their sessions and the login throttle (services/auth.py, *)
(* admin_access_recovery.py, api/dependencies/auth.py).  A session is a    *)
(* signed cookie with the account's session version; there is no table of  *)
(* sessions.  Accounts are read without a lock and written later, so a     *)
(* request is two steps; a login locks its throttle rows, the operator's   *)
(* recovery locks the account.                                             *)
(***************************************************************************)
EXTENDS Naturals, FiniteSets

CONSTANTS
  Accounts, Browsers,
  AddressOf,          \* the client address of a browser
  FirstAdmin,         \* the bootstrap administrator
  MaxFailed,          \* login_max_failed_attempts
  MaxFailedAddress,   \* login_ip_max_failed_attempts
  MaxPasswords,       \* bound on the passwords ever chosen
  NoSession, NoThrottle

Addresses == {AddressOf[b] : b \in Browsers}
Keys == Accounts \cup Addresses

ASSUME AccountsAssumption ==
  /\ FirstAdmin \in Accounts
  /\ Accounts \cap Addresses = {}
  /\ MaxFailed \in Nat \ {0} /\ MaxFailedAddress \in Nat \ {0}
  /\ MaxPasswords \in Nat \ {0}
  /\ NoThrottle \notin [count: Nat, lock: {"none", "locked", "expired"}]

VARIABLES
  account,    \* the rows; passwords are numbered in the order they are chosen
  throttle,   \* the rows of login_throttles
  cookie,     \* a browser's session, with the password that it was opened with
  call,       \* a browser's request between its reads and its commit
  chosen,     \* how many passwords were chosen
  stale,      \* history: accounts written, or logged in to, by a stale request
  crossed,    \* history: an administrator was removed by a stale count
  failures    \* history: failed logins answered since the key was last cleared

accountsVars == <<account, throttle, cookie, call, chosen, stale, crossed, failures>>

Roles == {"admin", "staff"}
Account == [exists: BOOLEAN, role: Roles, active: BOOLEAN, password: 0..MaxPasswords,
            version: Nat, reset: BOOLEAN]
NoAccount == [exists |-> FALSE, role |-> "staff", active |-> FALSE, password |-> 0,
              version |-> 0, reset |-> FALSE]
NoCall == [at |-> "idle"]

\* bootstrap_admin: the only account there is.
AccountsInit ==
  /\ account = [a \in Accounts |->
       IF a = FirstAdmin
       THEN [exists |-> TRUE, role |-> "admin", active |-> TRUE, password |-> 1,
             version |-> 1, reset |-> FALSE]
       ELSE NoAccount]
  /\ throttle = [k \in Keys |-> NoThrottle]
  /\ cookie = [b \in Browsers |-> NoSession]
  /\ call = [b \in Browsers |-> NoCall]
  /\ chosen = 1
  /\ stale = {}
  /\ crossed = FALSE
  /\ failures = [k \in Keys |-> 0]

----------------------------------------------------------------------------
\* Sessions

\* require_authenticated_user
SignedIn(b) ==
  /\ cookie[b] # NoSession
  /\ account[cookie[b].account].active
  /\ account[cookie[b].account].version = cookie[b].version

\* AdminUser: a temporary password opens no module.
IsAdmin(b) ==
  /\ SignedIn(b)
  /\ account[cookie[b].account].role = "admin" /\ ~account[cookie[b].account].reset

ActiveAdmins == {a \in Accounts : account[a].role = "admin" /\ account[a].active}

\* create_session_token for the account as it is now.
Token(a, password) ==
  [account |-> a, version |-> account'[a].version, password |-> password]

----------------------------------------------------------------------------
\* Login

ThrottleKeys(b, a) == {a, AddressOf[b]}
Limit(k) == IF k \in Accounts THEN MaxFailed ELSE MaxFailedAddress

\* Throttle rows that a login has locked.
LockedKeys ==
  UNION {{k \in ThrottleKeys(b, call[b].account) : call[b].seen[k] # NoThrottle} :
           b \in {c \in Browsers : call[c].at = "login"}}

\* A lock that has run out counts as no failure at all.
Fresh(row) ==
  IF row # NoThrottle /\ row.lock = "expired" THEN [count |-> 0, lock |-> "none"] ELSE row

\* with_for_update waits for the rows that another login holds.
MayLogin(b, a) == ThrottleKeys(b, a) \cap LockedKeys = {}

\* authenticate, up to the verdict on the password.  A locked key is answered
\* at once and changes nothing.
BeginLogin(b, a, password) ==
  /\ call[b] = NoCall /\ MayLogin(b, a)
  /\ \A k \in ThrottleKeys(b, a) :
       throttle[k] # NoThrottle => throttle[k].lock # "locked"
  /\ call' = [call EXCEPT ![b] =
       [at |-> "login", account |-> a, read |-> account[a], password |-> password,
        verified |-> account[a].active /\ account[a].password = password,
        seen |-> [k \in ThrottleKeys(b, a) |-> Fresh(throttle[k])]]]
  /\ UNCHANGED <<account, throttle, cookie, chosen, stale, crossed, failures>>

\* The throttle rows are deleted, and the token is made of the row as it is
\* after the commit.
LoginSucceeds(b) ==
  LET c == call[b]
      keys == ThrottleKeys(b, c.account)
  IN /\ c.at = "login" /\ c.verified
     /\ throttle' = [k \in Keys |->
          IF k \in keys /\ c.seen[k] # NoThrottle THEN NoThrottle ELSE throttle[k]]
     /\ failures' = [k \in Keys |->
          IF k \in keys /\ c.seen[k] # NoThrottle THEN 0 ELSE failures[k]]
     /\ UNCHANGED account
     /\ cookie' = [cookie EXCEPT ![b] = Token(c.account, c.password)]
     /\ stale' = IF account[c.account] # c.read THEN stale \cup {c.account} ELSE stale
     /\ call' = [call EXCEPT ![b] = NoCall]
     /\ UNCHANGED <<chosen, crossed>>

\* One more failure, and a lock at the limit.
Counted(k, row) ==
  LET n == IF row = NoThrottle THEN 1 ELSE row.count + 1
  IN [count |-> n, lock |-> IF n >= Limit(k) THEN "locked" ELSE "none"]

LoginFails(b) ==
  LET c == call[b]
      keys == ThrottleKeys(b, c.account)
  IN /\ c.at = "login" /\ ~c.verified
     /\ \A k \in keys : c.seen[k] = NoThrottle => throttle[k] = NoThrottle
     /\ throttle' = [k \in Keys |->
          IF k \in keys THEN Counted(k, c.seen[k]) ELSE throttle[k]]
     /\ failures' = [k \in Keys |->
          IF k \notin keys THEN failures[k]
          ELSE IF throttle[k] # NoThrottle /\ throttle[k].lock = "expired" THEN 1
          ELSE failures[k] + 1]
     /\ call' = [call EXCEPT ![b] = NoCall]
     /\ UNCHANGED <<account, cookie, chosen, stale, crossed>>

\* Two first failures insert the same key: one request ends in an error.
LoginClashes(b) ==
  /\ call[b].at = "login" /\ ~call[b].verified
  /\ \E k \in ThrottleKeys(b, call[b].account) :
       call[b].seen[k] = NoThrottle /\ throttle[k] # NoThrottle
  /\ call' = [call EXCEPT ![b] = NoCall]
  /\ UNCHANGED <<account, throttle, cookie, chosen, stale, crossed, failures>>

\* locked_until passes.
LockExpires(k) ==
  /\ throttle[k] # NoThrottle /\ throttle[k].lock = "locked"
  /\ throttle' = [throttle EXCEPT ![k].lock = "expired"]
  /\ UNCHANGED <<account, cookie, call, chosen, stale, crossed, failures>>

Logout(b) ==
  /\ cookie[b] # NoSession /\ call[b] = NoCall
  /\ cookie' = [cookie EXCEPT ![b] = NoSession]
  /\ UNCHANGED <<account, throttle, call, chosen, stale, crossed, failures>>

----------------------------------------------------------------------------
\* Changes of an account

\* The columns that a request changes in the row it has read, for an edit of
\* the account, a password of its owner, or a temporary one.
Edited(row, edit) ==
  CASE edit = "deactivate" -> [row EXCEPT !.active = FALSE]
    [] edit = "activate" -> [row EXCEPT !.active = TRUE]
    [] edit = "demote" -> [row EXCEPT !.role = "staff"]
    [] edit = "promote" -> [row EXCEPT !.role = "admin"]

Edits == {"deactivate", "activate", "demote", "promote"}

\* Mutant of Update: only a change of the role ends the sessions.
UpdateRole(row, edit) ==
  LET new == Edited(row, edit)
  IN IF new.role # row.role THEN [new EXCEPT !.version = @ + 1] ELSE new

\* update_account
Update(row, edit) ==
  LET new == Edited(row, edit)
  IN IF new # row THEN [new EXCEPT !.version = @ + 1] ELSE row

\* begin_admin_recovery, recover_admin_access
Reset(row) ==
  [row EXCEPT !.password = chosen + 1, !.version = @ + 1, !.reset = TRUE]

\* change_password
Change(row) ==
  [row EXCEPT !.password = chosen + 1, !.version = @ + 1, !.reset = FALSE]

Removes(row, edit) ==
  row.role = "admin" /\ row.active /\ edit \in {"deactivate", "demote"}

\* Mutant of MayRemove: administrators are edited like other accounts.
MayRemoveAny(b, a) == TRUE

\* Not oneself, and one active administrator must be left.
MayRemove(b, a) == a # cookie[b].account /\ Cardinality(ActiveAdmins) > 1

Prepare(b, at, a, new) ==
  /\ call[b] = NoCall /\ account[a].exists
  /\ call' = [call EXCEPT ![b] =
       [at |-> at, account |-> a, read |-> account[a], new |-> new, admins |-> ActiveAdmins]]
  /\ chosen' = IF at = "update" THEN chosen ELSE chosen + 1
  /\ UNCHANGED <<account, throttle, cookie, stale, crossed, failures>>

BeginUpdate(b, a, edit) ==
  /\ IsAdmin(b)
  /\ Removes(account[a], edit) => MayRemove(b, a)
  /\ Update(account[a], edit) # account[a]
  /\ Prepare(b, "update", a, Update(account[a], edit))

BeginReset(b, a) ==
  IsAdmin(b) /\ chosen < MaxPasswords /\ Prepare(b, "reset", a, Reset(account[a]))

BeginChange(b) ==
  /\ SignedIn(b) /\ chosen < MaxPasswords
  /\ Prepare(b, "change", cookie[b].account, Change(account[cookie[b].account]))

\* The UPDATE writes the columns that differ from what was read.
Flushed(a, read, new) ==
  [f \in DOMAIN new |-> IF new[f] = read[f] THEN account[a][f] ELSE new[f]]

\* clear_login_throttle; the DELETE waits for a login that holds the row.
ClearThrottle(a) ==
  /\ throttle' = [throttle EXCEPT ![a] = NoThrottle]
  /\ failures' = [failures EXCEPT ![a] = 0]

CommitChange(b) ==
  LET c == call[b]
      a == c.account
      password == c.new.password # c.read.password
  IN /\ c.at \in {"update", "reset", "change"}
     /\ password => a \notin LockedKeys
     /\ account' = [account EXCEPT ![a] = Flushed(a, c.read, c.new)]
     /\ IF password THEN ClearThrottle(a) ELSE UNCHANGED <<throttle, failures>>
     /\ cookie' = IF c.at = "change"
                  THEN [cookie EXCEPT ![b] = Token(a, c.new.password)] ELSE cookie
     /\ stale' = IF account[a] # c.read THEN stale \cup {a} ELSE stale
     /\ crossed' = (crossed \/ (account[a] # account'[a] /\ c.admins # ActiveAdmins))
     /\ call' = [call EXCEPT ![b] = NoCall]
     /\ UNCHANGED chosen

\* create_account and its route; the address is unique.
CreateAccount(b, a, role) ==
  /\ IsAdmin(b) /\ call[b] = NoCall /\ ~account[a].exists /\ chosen < MaxPasswords
  /\ account' = [account EXCEPT ![a] =
       [exists |-> TRUE, role |-> role, active |-> TRUE, password |-> chosen + 1,
        version |-> 1, reset |-> TRUE]]
  /\ chosen' = chosen + 1
  /\ UNCHANGED <<throttle, cookie, call, stale, crossed, failures>>

\* recover_admin_access: an operator, with the row locked until the commit.
Recover(a) ==
  /\ a \in ActiveAdmins /\ chosen < MaxPasswords /\ a \notin LockedKeys
  /\ account' = [account EXCEPT ![a] = Reset(@)]
  /\ chosen' = chosen + 1
  /\ ClearThrottle(a)
  /\ UNCHANGED <<cookie, call, stale, crossed>>

----------------------------------------------------------------------------
AccountsNext ==
  \/ \E b \in Browsers :
       \/ \E a \in Accounts, p \in 1..chosen : BeginLogin(b, a, p)
       \/ LoginSucceeds(b) \/ LoginFails(b) \/ LoginClashes(b) \/ Logout(b)
       \/ \E a \in Accounts, e \in Edits : BeginUpdate(b, a, e)
       \/ \E a \in Accounts : BeginReset(b, a)
       \/ BeginChange(b) \/ CommitChange(b)
       \/ \E a \in Accounts, r \in Roles : CreateAccount(b, a, r)
  \/ \E a \in Accounts : Recover(a)
  \/ \E k \in Keys : LockExpires(k)

AccountsSpec == AccountsInit /\ [][AccountsNext]_accountsVars

----------------------------------------------------------------------------
\* Types; an account that exists has a password and a version.
AccountsTypeOK ==
  /\ account \in [Accounts -> Account]
  /\ \A a \in Accounts : account[a].exists <=> account[a].version > 0 /\ account[a].password > 0
  /\ \A k \in Keys : throttle[k] # NoThrottle =>
       throttle[k].count \in 1..Limit(k) /\ throttle[k].lock \in {"none", "locked", "expired"}
  /\ \A b \in Browsers : cookie[b] # NoSession => cookie[b].account \in Accounts
  /\ chosen \in 1..MaxPasswords

\* However administrators edit each other's accounts, one that is active
\* remains, unless two of them did so at the same time.
AdminRemains == ~crossed => ActiveAdmins # {}

\* A session that was ended, by a change of the account or of its password,
\* stays ended when the account is activated or changed again.
EndedStaysEnded ==
  [][\A b \in Browsers :
       cookie[b] # NoSession /\ cookie'[b] = cookie[b] /\ ~SignedIn(b)
       /\ cookie[b].account \notin stale' => ~SignedIn(b)']_accountsVars

\* Whoever is signed in has used the account's present password: a reset or a
\* recovery ends the sessions of the password before it.
OldPasswordIsOut ==
  \A b \in Browsers : SignedIn(b) /\ cookie[b].account \notin stale =>
    cookie[b].password = account[cookie[b].account].password

\* Logins that run at the same time are counted one by one: no more failures
\* than the limit are answered before the key is locked, and it is locked then.
FailuresAreCounted ==
  \A k \in Keys :
    /\ failures[k] <= Limit(k)
    /\ failures[k] = Limit(k) => throttle[k] # NoThrottle /\ throttle[k].lock # "none"

\* The accounts, whatever requests race: an administrator remains, an old
\* password opens no session, and no failed login goes uncounted.
AccountsAreGuarded == AccountsTypeOK /\ AdminRemains /\ OldPasswordIsOut /\ FailuresAreCounted

=============================================================================
