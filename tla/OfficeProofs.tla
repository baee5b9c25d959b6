---------------------------- MODULE OfficeProofs ----------------------------
(***************************************************************************)
(* Proofs about what the office uses side by side, for any number of       *)
(* accounts, browsers, photos, managers, reporters and tabs, and for any   *)
(* of the bounds.  One part per component: its inductive invariant, a      *)
(* lemma per action, the theorems.                                         *)
(***************************************************************************)
EXTENDS OfficePromises, FiniteSetTheorems, SequenceTheorems, TLAPS

-----------------------------------------------------------------------------
(* Accounts: the inductive invariant.                                      *)

ThrottleRow == [count: Nat, lock: {"none", "locked", "expired"}]

\* The rows and the histories; who has a session has an account.
TablesOK ==
  /\ throttle \in [Keys -> ThrottleRow \cup {NoThrottle}] /\ failures \in [Keys -> Nat]
  /\ stale \subseteq Accounts /\ crossed \in BOOLEAN
  /\ cookie = [b \in Browsers |-> cookie[b]] /\ call = [b \in Browsers |-> call[b]]
  /\ \A a \in Accounts : account[a].active => account[a].exists
  /\ \A b \in Browsers : cookie[b] # NoSession => account[cookie[b].account].exists

\* A row counts every failure since it was cleared, and stays below the limit
\* until it is locked.
ThrottleOK ==
  \A k \in Keys :
    /\ throttle[k] = NoThrottle => failures[k] = 0
    /\ throttle[k] # NoThrottle =>
         /\ failures[k] = throttle[k].count
         /\ throttle[k].lock = "none" => throttle[k].count < Limit(k)

\* A login has locked the rows that it found: they are as it has read them.
LoginOK(b) ==
  call[b].at = "login" =>
    /\ call[b].account \in Accounts
    /\ call[b].verified => call[b].read.password = call[b].password /\ account[call[b].account].exists
    /\ \A k \in ThrottleKeys(b, call[b].account) : call[b].seen[k] # NoThrottle =>
         throttle[k] # NoThrottle /\ throttle[k].lock # "locked" /\ call[b].seen[k] = Fresh(throttle[k])

\* A change renews the version of what it has read, and leaves one of the
\* administrators that it has counted.
ChangeOK(b) ==
  call[b].at \in {"update", "reset", "change"} =>
    /\ call[b].account \in Accounts /\ account[call[b].account].exists
    /\ call[b].read \in Account /\ call[b].new \in Account /\ call[b].new.exists
    /\ call[b].new.version = call[b].read.version + 1 /\ call[b].new.password > 0
    /\ call[b].new.active => call[b].new.exists
    /\ call[b].account \in call[b].admins <=> call[b].read.role = "admin" /\ call[b].read.active
    /\ call[b].account \in call[b].admins /\ ~(call[b].new.role = "admin" /\ call[b].new.active) =>
         call[b].admins \ {call[b].account} # {}

CallsOK ==
  \A b \in Browsers :
    /\ call[b] = NoCall \/ call[b].at \in {"login", "update", "reset", "change"}
    /\ LoginOK(b) /\ ChangeOK(b)

HoldsKey(b, k) ==
  call[b].at = "login" /\ k \in ThrottleKeys(b, call[b].account) /\ call[b].seen[k] # NoThrottle

OneHoldsKey == \A b, c \in Browsers, k \in Keys : HoldsKey(b, k) /\ HoldsKey(c, k) => b = c

\* A session is never ahead of its account; the sessions of the present version
\* were opened with the present password.
CookieOK(c) ==
  c # NoSession /\ c.account \notin stale =>
    /\ c.version \in Nat /\ c.version <= account[c.account].version
    /\ c.version = account[c.account].version => c.password = account[c.account].password

CookiesOK == \A b \in Browsers : CookieOK(cookie[b])

AccountsInv ==
  /\ AccountsTypeOK /\ TablesOK /\ ThrottleOK /\ CallsOK /\ OneHoldsKey /\ CookiesOK /\ AdminRemains

\* How the rows of the accounts move: none is deleted, and one that changes has a
\* new version, unless a stale request wrote it.
RowsMove ==
  /\ \A a \in Accounts : account[a].exists => account'[a].exists
  /\ stale \subseteq stale' /\ stale' \subseteq Accounts
  /\ \A a \in Accounts \ stale' :
       account[a].exists => account'[a] = account[a] \/ account'[a].version > account[a].version

\* What a session is after a step: the same, none, or one of the present row.
SessionsMove ==
  /\ cookie' = [b \in Browsers |-> cookie'[b]]
  /\ \A b \in Browsers :
       \/ cookie'[b] \in {cookie[b], NoSession}
       \/ \E a \in Accounts :
            /\ cookie'[b].account = a /\ cookie'[b].version = account'[a].version /\ account'[a].exists
            /\ a \notin stale' => cookie'[b].password = account'[a].password

\* Requests end or stay, and those that stay keep the rows they have locked.
CallsMove ==
  /\ call' = [b \in Browsers |-> call'[b]]
  /\ \A b \in Browsers :
       \/ call'[b] = NoCall
       \/ call'[b] = call[b] /\ \A k \in Keys : HoldsKey(b, k) => throttle'[k] = throttle[k]

-----------------------------------------------------------------------------
(* Facts about the operators.                                              *)

\* A request writes the columns that it has changed.
LEMMA FlushedAccount ==
  ASSUME NEW a \in Accounts, account \in [Accounts -> Account], NEW read \in Account, NEW new \in Account
  PROVE  /\ Flushed(a, read, new) \in Account
         /\ \A f \in {"exists", "role", "active", "password", "version", "reset"} :
              Flushed(a, read, new)[f] = IF new[f] = read[f] THEN account[a][f] ELSE new[f]
<1> DEFINE flushed == Flushed(a, read, new)
<1>1. DOMAIN new = {"exists", "role", "active", "password", "version", "reset"}
  BY DEF Account
<1>2. flushed = [f \in {"exists", "role", "active", "password", "version", "reset"} |->
                  IF new[f] = read[f] THEN account[a][f] ELSE new[f]]
  BY <1>1 DEF Flushed
<1>3. flushed = [exists |-> flushed.exists, role |-> flushed.role, active |-> flushed.active,
                 password |-> flushed.password, version |-> flushed.version, reset |-> flushed.reset]
  BY <1>2
<1>4. /\ flushed.exists = IF new.exists = read.exists THEN account[a].exists ELSE new.exists
      /\ flushed.role = IF new.role = read.role THEN account[a].role ELSE new.role
      /\ flushed.active = IF new.active = read.active THEN account[a].active ELSE new.active
      /\ flushed.password = IF new.password = read.password THEN account[a].password ELSE new.password
      /\ flushed.version = IF new.version = read.version THEN account[a].version ELSE new.version
      /\ flushed.reset = IF new.reset = read.reset THEN account[a].reset ELSE new.reset
  BY <1>2
<1>5. account[a] \in Account
  OBVIOUS
<1>6. \A f \in {"exists", "role", "active", "password", "version", "reset"} :
        flushed[f] = IF new[f] = read[f] THEN account[a][f] ELSE new[f]
  BY <1>2
<1> HIDE DEF flushed
<1>7. /\ flushed.exists \in BOOLEAN /\ flushed.role \in Roles /\ flushed.active \in BOOLEAN
      /\ flushed.password \in 0..MaxPasswords /\ flushed.version \in Nat /\ flushed.reset \in BOOLEAN
  BY <1>4, <1>5 DEF Account
<1>8. flushed \in Account
  BY <1>3, <1>7 DEF Account
<1> QED BY <1>6, <1>8 DEF flushed

\* The keys that logins have locked.
LEMMA LockedKey ==
  ASSUME NEW k
  PROVE  k \in LockedKeys <=> \E b \in Browsers : HoldsKey(b, k)
BY DEF LockedKeys, HoldsKey

\* Throttle keys are keys, and their limits are at least one.
LEMMA KeysAre ==
  ASSUME NEW b \in Browsers, NEW a \in Accounts
  PROVE  ThrottleKeys(b, a) \subseteq Keys /\ \A k \in Keys : Limit(k) \in Nat \ {0}
BY AccountsAssumption DEF ThrottleKeys, Keys, Addresses, Limit

\* Of more than one administrator, one remains without any given account.
LEMMA AnotherAdmin ==
  ASSUME NEW S, NEW a, Cardinality(S) > 1
  PROVE  S \ {a} # {}
<1> SUFFICES ASSUME S \subseteq {a} PROVE FALSE
  OBVIOUS
<1>1. IsFiniteSet({a}) /\ Cardinality({a}) = 1 /\ IsFiniteSet({}) /\ Cardinality({}) = 0
  BY FS_Singleton, FS_EmptySet
<1>2. Cardinality(S) \in {0, 1}
  <2>1. S = {} \/ S = {a} OBVIOUS
  <2> QED BY <1>1, <2>1
<1> QED BY <1>2

-----------------------------------------------------------------------------
(* What follows from the way a step moves.                                 *)

\* Sessions stay behind their accounts.
LEMMA CookiesStay ==
  ASSUME AccountsInv, RowsMove, SessionsMove, account' \in [Accounts -> Account]
  PROVE  /\ CookiesOK'
         /\ \A b \in Browsers : cookie'[b] # NoSession =>
              cookie'[b].account \in Accounts /\ account'[cookie'[b].account].exists
<1>1. /\ account \in [Accounts -> Account]
      /\ \A b \in Browsers : cookie[b] # NoSession =>
           cookie[b].account \in Accounts /\ account[cookie[b].account].exists
  BY DEF AccountsInv, AccountsTypeOK, TablesOK
<1> SUFFICES ASSUME NEW b \in Browsers, cookie'[b] # NoSession
             PROVE  /\ cookie'[b].account \in Accounts /\ account'[cookie'[b].account].exists
                    /\ CookieOK(cookie[b])'
  BY DEF CookiesOK, CookieOK
<1> DEFINE a == cookie[b].account
<1>2. CASE cookie'[b] = cookie[b]
  <2>1. a \in Accounts /\ account[a].exists /\ account'[a].exists
    BY <1>1, <1>2 DEF RowsMove
  <2>2. account[a] \in Account /\ account'[a] \in Account /\ CookieOK(cookie[b])
    BY <1>1, <2>1 DEF AccountsInv, CookiesOK
  <2>3. account[a].version \in Nat /\ account'[a].version \in Nat
    BY <2>2 DEF Account
  <2>4. CookieOK(cookie[b])'
    <3> SUFFICES ASSUME a \notin stale'
                 PROVE  /\ cookie[b].version \in Nat /\ cookie[b].version <= account'[a].version
                        /\ cookie[b].version = account'[a].version => cookie[b].password = account'[a].password
      BY <1>2 DEF CookieOK
    <3>1. a \notin stale /\ (account'[a] = account[a] \/ account'[a].version > account[a].version)
      BY <2>1 DEF RowsMove
    <3> QED BY <1>2, <2>2, <2>3, <3>1 DEF CookieOK
  <2> QED BY <1>2, <2>1, <2>4
<1>3. CASE cookie'[b] # cookie[b]
  <2>1. PICK d \in Accounts :
            /\ cookie'[b].account = d /\ cookie'[b].version = account'[d].version /\ account'[d].exists
            /\ d \notin stale' => cookie'[b].password = account'[d].password
    BY <1>3 DEF SessionsMove
  <2>2. account'[d] \in Account
    OBVIOUS
  <2>3. account'[d].version \in Nat
    BY <2>2 DEF Account
  <2>4. CookieOK(cookie[b])'
    BY <2>1, <2>3 DEF CookieOK
  <2> QED BY <2>1, <2>4
<1> QED BY <1>2, <1>3

\* Requests under way keep what they have locked and what they have read.
LEMMA CallsStay ==
  ASSUME AccountsInv, RowsMove, CallsMove
  PROVE  CallsOK' /\ OneHoldsKey'
<1>0. AddressOf' = AddressOf /\ NoCall' = NoCall
  BY DEF NoCall
<1>1. ASSUME NEW b \in Browsers, NEW k \in Keys, HoldsKey(b, k)'
      PROVE  HoldsKey(b, k) /\ throttle'[k] = throttle[k]
  BY <1>1 DEF HoldsKey, CallsMove, NoCall, ThrottleKeys
<1>2. OneHoldsKey'
  BY <1>1 DEF OneHoldsKey, AccountsInv
<1>3. ASSUME NEW b \in Browsers
      PROVE  /\ (call[b] = NoCall \/ call[b].at \in {"login", "update", "reset", "change"})'
             /\ LoginOK(b)' /\ ChangeOK(b)'
  <2>1. CASE call'[b] = NoCall
    BY <2>1 DEF LoginOK, ChangeOK, NoCall
  <2>2. CASE call'[b] = call[b] /\ \A k \in Keys : HoldsKey(b, k) => throttle'[k] = throttle[k]
    <3>1. (call[b] = NoCall \/ call[b].at \in {"login", "update", "reset", "change"}) /\ LoginOK(b) /\ ChangeOK(b)
      BY DEF AccountsInv, CallsOK
    <3>2. LoginOK(b)'
      <4> SUFFICES ASSUME call[b].at = "login" PROVE LoginOK(b)'
        BY <2>2 DEF LoginOK
      <4>1. call[b].account \in Accounts
        BY <3>1 DEF LoginOK
      <4>2. \A k \in ThrottleKeys(b, call[b].account) :
              call[b].seen[k] # NoThrottle => throttle'[k] = throttle[k]
        BY <2>2, <4>1, KeysAre DEF HoldsKey
      <4> QED BY <2>2, <3>1, <4>1, <4>2 DEF LoginOK, RowsMove, ThrottleKeys, Fresh
    <3>3. ChangeOK(b)'
      BY <2>2, <3>1 DEF ChangeOK, RowsMove
    <3> QED BY <2>2, <3>1, <3>2, <3>3
  <2> QED BY <2>1, <2>2 DEF CallsMove
<1> QED BY <1>2, <1>3 DEF CallsOK

\* A request has begun: nothing but its own record has changed.
LEMMA NewCall ==
  ASSUME AccountsInv, NEW b \in Browsers, NEW new, call' = [call EXCEPT ![b] = new],
         UNCHANGED <<account, throttle, cookie, stale, crossed, failures>>,
         chosen' \in 1..MaxPasswords, new.at \in {"login", "update", "reset", "change"},
         LoginOK(b)', ChangeOK(b)',
         \A c \in Browsers \ {b}, k \in Keys : HoldsKey(c, k) => ~HoldsKey(b, k)'
  PROVE  AccountsInv' /\ RowsMove
<1>1. call = [c \in Browsers |-> call[c]] /\ stale \subseteq Accounts
  BY DEF AccountsInv, TablesOK
<1>2. call' = [c \in Browsers |-> call'[c]] /\ call'[b] = new /\ \A c \in Browsers \ {b} : call'[c] = call[c]
  BY <1>1
<1>3. AccountsTypeOK' /\ AdminRemains' BY DEF AccountsInv, AccountsTypeOK, AdminRemains, ActiveAdmins
<1>4. TablesOK' BY <1>2 DEF AccountsInv, TablesOK
<1>5. ThrottleOK' BY DEF AccountsInv, ThrottleOK
<1>6. CookiesOK' BY DEF AccountsInv, CookiesOK, CookieOK
<1>7. \A c \in Browsers \ {b}, k \in Keys : HoldsKey(c, k)' <=> HoldsKey(c, k)
  BY <1>2 DEF HoldsKey, ThrottleKeys
<1>8. OneHoldsKey'
  <2> SUFFICES ASSUME NEW c \in Browsers, NEW d \in Browsers, NEW k \in Keys,
                      HoldsKey(c, k)', HoldsKey(d, k)', c # d
               PROVE  FALSE
    BY DEF OneHoldsKey
  <2> QED BY <1>7 DEF AccountsInv, OneHoldsKey
<1>9. CallsOK'
  <2> SUFFICES ASSUME NEW c \in Browsers \ {b}
               PROVE  /\ call'[c] = NoCall \/ call'[c].at \in {"login", "update", "reset", "change"}
                      /\ LoginOK(c)' /\ ChangeOK(c)'
    BY <1>2 DEF CallsOK, NoCall
  <2>1. LoginOK(c) /\ ChangeOK(c) /\ (call[c] = NoCall \/ call[c].at \in {"login", "update", "reset", "change"})
    BY DEF AccountsInv, CallsOK
  <2>2. call'[c] = call[c] BY <1>2
  <2>3. LoginOK(c)' BY <2>1, <2>2 DEF LoginOK, ThrottleKeys, Fresh
  <2>4. ChangeOK(c)' BY <2>1, <2>2 DEF ChangeOK
  <2> QED BY <2>1, <2>2, <2>3, <2>4
<1>10. RowsMove BY <1>1 DEF RowsMove
<1> QED BY <1>3, <1>4, <1>5, <1>6, <1>8, <1>9, <1>10 DEF AccountsInv

-----------------------------------------------------------------------------
(* Logins.                                                                 *)

\* Two logins never find the same row of the throttle unlocked.
LEMMA LoginBegins ==
  ASSUME AccountsInv, NEW b \in Browsers, NEW a \in Accounts, NEW p \in Nat, BeginLogin(b, a, p)
  PROVE  AccountsInv' /\ RowsMove
<1> DEFINE new == [at |-> "login", account |-> a, read |-> account[a], password |-> p,
                   verified |-> account[a].active /\ account[a].password = p,
                   seen |-> [k \in ThrottleKeys(b, a) |-> Fresh(throttle[k])]]
<1>1. /\ call' = [call EXCEPT ![b] = new] /\ UNCHANGED <<account, throttle, cookie, chosen, stale, crossed, failures>>
      /\ \A k \in ThrottleKeys(b, a) : throttle[k] # NoThrottle => throttle[k].lock # "locked"
      /\ ThrottleKeys(b, a) \cap LockedKeys = {}
  BY DEF BeginLogin, MayLogin
<1>2. call = [c \in Browsers |-> call[c]] /\ (account[a].active => account[a].exists) /\ chosen \in 1..MaxPasswords
  BY DEF AccountsInv, TablesOK, AccountsTypeOK
<1>3. call'[b] = new BY <1>1, <1>2
<1>4. /\ new.at = "login" /\ new.account = a /\ new.read = account[a] /\ new.password = p
      /\ new.verified = (account[a].active /\ account[a].password = p)
      /\ new.seen = [k \in ThrottleKeys(b, a) |-> Fresh(throttle[k])]
  OBVIOUS
<1> HIDE DEF new
<1>5. LoginOK(b)'
  <2>1. \A k \in ThrottleKeys(b, a) : new.seen[k] # NoThrottle =>
          throttle[k] # NoThrottle /\ throttle[k].lock # "locked" /\ new.seen[k] = Fresh(throttle[k])
    BY <1>1, <1>4 DEF Fresh
  <2>2. new.verified => new.read.password = new.password /\ account[a].exists
    BY <1>2, <1>4
  <2> QED BY <1>1, <1>3, <1>4, <2>1, <2>2 DEF LoginOK, ThrottleKeys, Fresh
<1>6. ChangeOK(b)' BY <1>3, <1>4 DEF ChangeOK
<1>7. \A c \in Browsers \ {b}, k \in Keys : HoldsKey(c, k) => ~HoldsKey(b, k)'
  <2> SUFFICES ASSUME NEW c \in Browsers \ {b}, NEW k \in Keys, HoldsKey(c, k), HoldsKey(b, k)' PROVE FALSE
    OBVIOUS
  <2>1. k \in LockedKeys BY LockedKey
  <2>2. k \in ThrottleKeys(b, a) BY <1>3, <1>4 DEF HoldsKey, ThrottleKeys
  <2> QED BY <1>1, <2>1, <2>2
<1> QED BY <1>1, <1>2, <1>4, <1>5, <1>6, <1>7, NewCall

\* What remains to be shown of a step that moves by the rules.
LEMMA MovedAccounts ==
  ASSUME AccountsInv, RowsMove, SessionsMove, CallsMove,
         account' \in [Accounts -> Account], chosen' \in 1..MaxPasswords,
         \A a \in Accounts : account'[a].exists <=> account'[a].version > 0 /\ account'[a].password > 0,
         \A a \in Accounts : account'[a].active => account'[a].exists,
         throttle' \in [Keys -> ThrottleRow \cup {NoThrottle}], failures' \in [Keys -> Nat],
         \A k \in Keys : throttle'[k] # NoThrottle => throttle'[k].count \in 1..Limit(k),
         ThrottleOK', crossed' \in BOOLEAN, AdminRemains'
  PROVE  AccountsInv'
<1>1. CookiesOK' /\ CallsOK' /\ OneHoldsKey' BY CookiesStay, CallsStay
<1>2. \A b \in Browsers : cookie'[b] # NoSession =>
        cookie'[b].account \in Accounts /\ account'[cookie'[b].account].exists
  BY CookiesStay
<1>3. TablesOK' BY <1>2 DEF TablesOK, RowsMove, SessionsMove, CallsMove
<1>4. \A k \in Keys : throttle'[k] # NoThrottle => throttle'[k].lock \in {"none", "locked", "expired"}
  BY DEF ThrottleRow
<1>5. AccountsTypeOK' BY <1>2, <1>4 DEF AccountsTypeOK, Limit
<1> QED BY <1>1, <1>3, <1>5 DEF AccountsInv

\* No account changes in a login or a logout.
LEMMA RowsRest ==
  ASSUME AccountsInv, account' = account, stale \subseteq stale', stale' \subseteq Accounts
  PROVE  RowsMove
BY DEF RowsMove

\* A failure cleared is a row deleted; nobody else holds it.
LEMMA LoginSucceedsStep ==
  ASSUME AccountsInv, NEW b \in Browsers, LoginSucceeds(b)
  PROVE  AccountsInv' /\ RowsMove
<1> DEFINE a == call[b].account
           keys == ThrottleKeys(b, a)
<1>1. /\ call[b].at = "login" /\ call[b].verified /\ account' = account /\ UNCHANGED <<chosen, crossed>>
      /\ throttle' = [k \in Keys |-> IF k \in keys /\ call[b].seen[k] # NoThrottle THEN NoThrottle ELSE throttle[k]]
      /\ failures' = [k \in Keys |-> IF k \in keys /\ call[b].seen[k] # NoThrottle THEN 0 ELSE failures[k]]
      /\ cookie' = [cookie EXCEPT ![b] = Token(a, call[b].password)]
      /\ stale' = IF account[a] # call[b].read THEN stale \cup {a} ELSE stale
      /\ call' = [call EXCEPT ![b] = NoCall]
  BY DEF LoginSucceeds
<1>2. /\ AccountsTypeOK /\ TablesOK /\ ThrottleOK /\ LoginOK(b) /\ OneHoldsKey /\ AdminRemains
  BY DEF AccountsInv, CallsOK
<1>3. a \in Accounts /\ call[b].read.password = call[b].password /\ account[a].exists
  BY <1>1, <1>2 DEF LoginOK
<1>4. stale \subseteq stale' /\ stale' \subseteq Accounts BY <1>1, <1>2, <1>3 DEF TablesOK
<1>5. RowsMove BY <1>1, <1>4, RowsRest
<1>6. SessionsMove
  <2>1. cookie' = [c \in Browsers |-> cookie'[c]] /\ cookie'[b] = Token(a, call[b].password)
        /\ \A c \in Browsers \ {b} : cookie'[c] = cookie[c]
    BY <1>1, <1>2 DEF TablesOK
  <2>2. cookie'[b] = [account |-> a, version |-> account'[a].version, password |-> call[b].password]
    BY <2>1 DEF Token
  <2>3. a \notin stale' => call[b].password = account'[a].password BY <1>1, <1>3
  <2> QED BY <2>1, <2>2, <2>3, <1>1, <1>3 DEF SessionsMove
<1>7. CallsMove
  <2>1. call' = [c \in Browsers |-> call'[c]] /\ call'[b] = NoCall /\ \A c \in Browsers \ {b} : call'[c] = call[c]
    BY <1>1, <1>2 DEF TablesOK
  <2>2. ASSUME NEW c \in Browsers \ {b}, NEW k \in Keys, HoldsKey(c, k) PROVE throttle'[k] = throttle[k]
    <3>1. ~HoldsKey(b, k) BY <1>2, <2>2 DEF OneHoldsKey
    <3> QED BY <1>1, <3>1 DEF HoldsKey
  <2> QED BY <2>1, <2>2 DEF CallsMove
<1>8. \A k \in Keys : \/ throttle'[k] = NoThrottle /\ failures'[k] = 0
                      \/ throttle'[k] = throttle[k] /\ failures'[k] = failures[k]
  BY <1>1
<1>9. throttle' \in [Keys -> ThrottleRow \cup {NoThrottle}] /\ failures' \in [Keys -> Nat]
  BY <1>1, <1>2 DEF TablesOK
<1>10. ThrottleOK' BY <1>2, <1>8 DEF ThrottleOK, Limit
<1>11. \A k \in Keys : throttle'[k] # NoThrottle => throttle'[k].count \in 1..Limit(k)
  BY <1>2, <1>8 DEF AccountsTypeOK
<1>12. AdminRemains' BY <1>1, <1>2 DEF AdminRemains, ActiveAdmins
<1> QED BY <1>1, <1>2, <1>5, <1>6, <1>7, <1>9, <1>10, <1>11, <1>12, MovedAccounts DEF AccountsTypeOK, TablesOK

\* A failure adds one to the row that was read, which is still the row.
LEMMA LoginFailsStep ==
  ASSUME AccountsInv, NEW b \in Browsers, LoginFails(b)
  PROVE  AccountsInv' /\ RowsMove
<1> DEFINE a == call[b].account
           keys == ThrottleKeys(b, a)
<1>1. /\ call[b].at = "login" /\ UNCHANGED <<account, cookie, chosen, stale, crossed>>
      /\ \A k \in keys : call[b].seen[k] = NoThrottle => throttle[k] = NoThrottle
      /\ throttle' = [k \in Keys |-> IF k \in keys THEN Counted(k, call[b].seen[k]) ELSE throttle[k]]
      /\ failures' = [k \in Keys |->
           IF k \notin keys THEN failures[k]
           ELSE IF throttle[k] # NoThrottle /\ throttle[k].lock = "expired" THEN 1 ELSE failures[k] + 1]
      /\ call' = [call EXCEPT ![b] = NoCall]
  BY DEF LoginFails
<1>2. /\ AccountsTypeOK /\ TablesOK /\ ThrottleOK /\ LoginOK(b) /\ OneHoldsKey /\ AdminRemains
  BY DEF AccountsInv, CallsOK
<1>3. a \in Accounts /\ keys \subseteq Keys /\ \A k \in Keys : Limit(k) \in Nat \ {0}
  BY <1>1, <1>2, KeysAre DEF LoginOK
<1>4. RowsMove BY <1>1, <1>2, RowsRest DEF TablesOK
<1>5. SessionsMove BY <1>1, <1>2 DEF SessionsMove, TablesOK
<1>6. CallsMove
  <2>1. call' = [c \in Browsers |-> call'[c]] /\ call'[b] = NoCall /\ \A c \in Browsers \ {b} : call'[c] = call[c]
    BY <1>1, <1>2 DEF TablesOK
  <2>2. ASSUME NEW c \in Browsers \ {b}, NEW k \in Keys, HoldsKey(c, k) PROVE throttle'[k] = throttle[k]
    <3>1. ~HoldsKey(b, k) BY <1>2, <2>2 DEF OneHoldsKey
    <3>2. LoginOK(c) BY DEF AccountsInv, CallsOK
    <3>3. throttle[k] # NoThrottle BY <2>2, <3>2 DEF HoldsKey, LoginOK
    <3>4. k \notin keys BY <1>1, <3>1, <3>3 DEF HoldsKey
    <3> QED BY <1>1, <3>4
  <2> QED BY <2>1, <2>2 DEF CallsMove
<1>7. ASSUME NEW k \in Keys
      PROVE  /\ throttle'[k] \in ThrottleRow \cup {NoThrottle} /\ failures'[k] \in Nat
             /\ throttle'[k] = NoThrottle => failures'[k] = 0
             /\ throttle'[k] # NoThrottle =>
                  /\ failures'[k] = throttle'[k].count /\ throttle'[k].count \in 1..Limit(k)
                  /\ throttle'[k].lock = "none" => throttle'[k].count < Limit(k)
  <2>1. /\ throttle[k] \in ThrottleRow \cup {NoThrottle} /\ failures[k] \in Nat /\ Limit(k) \in Nat \ {0}
        /\ throttle[k] = NoThrottle => failures[k] = 0
        /\ throttle[k] # NoThrottle =>
             /\ failures[k] = throttle[k].count /\ throttle[k].count \in 1..Limit(k)
             /\ throttle[k].lock = "none" => throttle[k].count < Limit(k)
    BY <1>2, <1>3 DEF TablesOK, ThrottleOK, AccountsTypeOK
  <2>2. CASE k \notin keys
    <3>1. throttle'[k] = throttle[k] /\ failures'[k] = failures[k] BY <1>1, <2>2
    <3> QED BY <2>1, <3>1
  <2>3. CASE k \in keys
    <3> DEFINE seen == call[b].seen[k]
               n == IF seen = NoThrottle THEN 1 ELSE seen.count + 1
    <3>1. throttle'[k] = [count |-> n, lock |-> IF n >= Limit(k) THEN "locked" ELSE "none"]
      BY <1>1, <2>3 DEF Counted
    <3>2. n = failures'[k] /\ n \in 1..Limit(k)
      <4>1. CASE seen = NoThrottle
        <5>1. throttle[k] = NoThrottle BY <1>1, <2>3, <4>1
        <5>2. failures'[k] = 1 BY <1>1, <2>1, <2>3, <5>1
        <5> QED BY <2>1, <4>1, <5>2
      <4>2. CASE seen # NoThrottle
        <5>1. throttle[k] # NoThrottle /\ throttle[k].lock # "locked" /\ seen = Fresh(throttle[k])
          BY <1>1, <1>2, <2>3, <4>2 DEF LoginOK
        <5>2. CASE throttle[k].lock = "expired"
          <6>1. n = 1 BY <4>2, <5>1, <5>2 DEF Fresh
          <6> QED BY <1>1, <2>1, <2>3, <5>1, <5>2, <6>1
        <5>3. CASE throttle[k].lock # "expired"
          <6>1. n = throttle[k].count + 1 BY <4>2, <5>1, <5>3 DEF Fresh
          <6>2. throttle[k].lock = "none" BY <2>1, <5>1, <5>3 DEF ThrottleRow
          <6> QED BY <1>1, <2>1, <2>3, <5>1, <5>3, <6>1, <6>2
        <5> QED BY <5>2, <5>3
      <4> QED BY <4>1, <4>2
    <3> HIDE DEF n
    <3>3. /\ throttle'[k].count = n /\ throttle'[k].lock = (IF n >= Limit(k) THEN "locked" ELSE "none")
          /\ throttle'[k] \in ThrottleRow
      BY <2>1, <3>1, <3>2 DEF ThrottleRow
    <3>4. throttle'[k] # NoThrottle BY <3>3, AccountsAssumption DEF ThrottleRow
    <3> QED BY <2>1, <3>2, <3>3, <3>4
  <2> QED BY <2>2, <2>3
<1>8. throttle' \in [Keys -> ThrottleRow \cup {NoThrottle}] /\ failures' \in [Keys -> Nat]
  <2>1. throttle' = [k \in Keys |-> throttle'[k]] /\ failures' = [k \in Keys |-> failures'[k]] BY <1>1
  <2> QED BY <1>7, <2>1
<1>9. ThrottleOK' BY <1>7 DEF ThrottleOK, Limit
<1>10. AdminRemains' BY <1>1, <1>2 DEF AdminRemains, ActiveAdmins
<1> QED BY <1>1, <1>2, <1>4, <1>5, <1>6, <1>7, <1>8, <1>9, <1>10, MovedAccounts DEF AccountsTypeOK, TablesOK

\* A login that clashes with another, a logout, and a lock that runs out.
LEMMA LoginClashesStep ==
  ASSUME AccountsInv, NEW b \in Browsers, LoginClashes(b) \/ Logout(b)
  PROVE  AccountsInv' /\ RowsMove
<1>1. /\ UNCHANGED <<account, throttle, chosen, stale, crossed, failures>>
      /\ \/ call' = [call EXCEPT ![b] = NoCall] /\ cookie' = cookie
         \/ call' = call /\ cookie' = [cookie EXCEPT ![b] = NoSession]
  BY DEF LoginClashes, Logout
<1>2. AccountsTypeOK /\ TablesOK /\ ThrottleOK /\ AdminRemains BY DEF AccountsInv
<1>3. RowsMove BY <1>1, <1>2, RowsRest DEF TablesOK
<1>4. SessionsMove BY <1>1, <1>2 DEF SessionsMove, TablesOK
<1>5. CallsMove BY <1>1, <1>2 DEF CallsMove, TablesOK
<1>6. ThrottleOK' BY <1>1, <1>2 DEF ThrottleOK, Limit
<1>7. AdminRemains' BY <1>1, <1>2 DEF AdminRemains, ActiveAdmins
<1> QED BY <1>1, <1>2, <1>3, <1>4, <1>5, <1>6, <1>7, MovedAccounts DEF AccountsTypeOK, TablesOK

\* The hour of a lock passes.
LEMMA LockExpiresStep ==
  ASSUME AccountsInv, NEW k \in Keys, LockExpires(k)
  PROVE  AccountsInv' /\ RowsMove
<1> DEFINE new == [throttle[k] EXCEPT !.lock = "expired"]
<1>1. /\ throttle[k] # NoThrottle /\ throttle[k].lock = "locked" /\ throttle' = [throttle EXCEPT ![k] = new]
      /\ UNCHANGED <<account, cookie, call, chosen, stale, crossed, failures>>
  BY DEF LockExpires
<1>2. AccountsTypeOK /\ TablesOK /\ ThrottleOK /\ AdminRemains BY DEF AccountsInv
<1>3. throttle \in [Keys -> ThrottleRow \cup {NoThrottle}] /\ throttle[k] \in ThrottleRow
  BY <1>1, <1>2 DEF TablesOK
<1>4. new \in ThrottleRow /\ new.count = throttle[k].count /\ new.lock = "expired"
  BY <1>3 DEF ThrottleRow
<1> HIDE DEF new
<1>n. new # NoThrottle BY <1>4, AccountsAssumption DEF ThrottleRow
<1>5. throttle'[k] = new /\ \A l \in Keys \ {k} : throttle'[l] = throttle[l] BY <1>1, <1>3
<1>6. RowsMove BY <1>1, <1>2, RowsRest DEF TablesOK
<1>7. SessionsMove BY <1>1, <1>2 DEF SessionsMove, TablesOK
<1>8. CallsMove
  <2>1. ASSUME NEW b \in Browsers, HoldsKey(b, k) PROVE FALSE
    <3>1. LoginOK(b) BY DEF AccountsInv, CallsOK
    <3> QED BY <1>1, <2>1, <3>1 DEF HoldsKey, LoginOK
  <2> QED BY <1>1, <1>2, <1>5, <2>1 DEF CallsMove, TablesOK
<1>9. throttle' \in [Keys -> ThrottleRow \cup {NoThrottle}] BY <1>1, <1>3, <1>4
<1>10. ThrottleOK' BY <1>1, <1>2, <1>4, <1>5, <1>n DEF ThrottleOK, Limit
<1>11. \A l \in Keys : throttle'[l] # NoThrottle => throttle'[l].count \in 1..Limit(l)
  BY <1>1, <1>2, <1>4, <1>5 DEF AccountsTypeOK
<1>12. AdminRemains' BY <1>1, <1>2 DEF AdminRemains, ActiveAdmins
<1> QED BY <1>1, <1>2, <1>6, <1>7, <1>8, <1>9, <1>10, <1>11, <1>12, MovedAccounts DEF AccountsTypeOK, TablesOK

-----------------------------------------------------------------------------
(* Changes of accounts.                                                    *)

\* A request that has read a row is about to change it.
LEMMA ChangeBegins ==
  ASSUME AccountsInv, NEW b \in Browsers, NEW a \in Accounts, NEW at \in {"update", "reset", "change"}, NEW new,
         Prepare(b, at, a, new), new \in Account, at # "update" => chosen < MaxPasswords,
         new.exists, new.version = account[a].version + 1, new.password > 0,
         a \in ActiveAdmins /\ ~(new.role = "admin" /\ new.active) => ActiveAdmins \ {a} # {}
  PROVE  AccountsInv' /\ RowsMove
<1> DEFINE c == [at |-> at, account |-> a, read |-> account[a], new |-> new, admins |-> ActiveAdmins]
<1>1. /\ account[a].exists /\ call' = [call EXCEPT ![b] = c]
      /\ chosen' = IF at = "update" THEN chosen ELSE chosen + 1
      /\ UNCHANGED <<account, throttle, cookie, stale, crossed, failures>>
  BY DEF Prepare
<1>2. AccountsTypeOK /\ TablesOK BY DEF AccountsInv
<1>3. call'[b] = c BY <1>1, <1>2 DEF TablesOK
<1>4. c.at = at /\ c.account = a /\ c.read = account[a] /\ c.new = new /\ c.admins = ActiveAdmins
  OBVIOUS
<1> HIDE DEF c
<1>5. chosen' \in 1..MaxPasswords BY <1>1, <1>2, AccountsAssumption DEF AccountsTypeOK
<1>6. account[a] \in Account BY <1>2 DEF AccountsTypeOK
<1>7. LoginOK(b)' BY <1>3, <1>4 DEF LoginOK
<1>8. ChangeOK(b)'
  BY <1>1, <1>3, <1>4, <1>6 DEF ChangeOK, ActiveAdmins
<1>9. \A d \in Browsers \ {b}, k \in Keys : HoldsKey(d, k) => ~HoldsKey(b, k)'
  BY <1>3, <1>4 DEF HoldsKey
<1> QED BY <1>1, <1>4, <1>5, <1>7, <1>8, <1>9, NewCall

\* A row with a new version.
LEMMA NewVersion ==
  ASSUME NEW row \in Account
  PROVE  LET new == [row EXCEPT !.version = @ + 1] IN
         /\ new \in Account
         /\ new.exists = row.exists /\ new.role = row.role /\ new.active = row.active
         /\ new.password = row.password /\ new.version = row.version + 1
<1> DEFINE new == [row EXCEPT !.version = @ + 1]
<1>1. new \in Account BY DEF Account
<1>2. /\ new.exists = row.exists /\ new.role = row.role /\ new.active = row.active
      /\ new.password = row.password /\ new.version = row.version + 1
  BY DEF Account
<1> QED BY <1>1, <1>2

\* What a change or a reset of a password makes of a row.
Repassworded(row, p, new) ==
  \E r \in BOOLEAN : new = [row EXCEPT !.password = p, !.version = @ + 1, !.reset = r]

\* The row stays a row, and its version grows.
LEMMA NewPassword ==
  ASSUME NEW row \in Account, NEW p \in 0..MaxPasswords, NEW new, Repassworded(row, p, new)
  PROVE  /\ new \in Account
         /\ new.exists = row.exists /\ new.role = row.role /\ new.active = row.active
         /\ new.password = p /\ new.version = row.version + 1
<1> PICK r \in BOOLEAN : new = [row EXCEPT !.password = p, !.version = @ + 1, !.reset = r]
  BY DEF Repassworded
<1> DEFINE renamed == [row EXCEPT !.password = p]
           versioned == [renamed EXCEPT !.version = @ + 1]
<1>1. /\ renamed \in Account /\ renamed.exists = row.exists /\ renamed.role = row.role
      /\ renamed.active = row.active /\ renamed.password = p /\ renamed.version = row.version
  <2>1. renamed \in Account BY DEF Account
  <2> QED BY <2>1 DEF Account
<1>2. new = [versioned EXCEPT !.reset = r] OBVIOUS
<1> HIDE DEF renamed
<1>3. /\ versioned \in Account /\ versioned.exists = row.exists /\ versioned.role = row.role
      /\ versioned.active = row.active /\ versioned.password = p /\ versioned.version = row.version + 1
  BY <1>1, NewVersion
<1> HIDE DEF versioned
<1>4. new \in Account BY <1>2, <1>3 DEF Account
<1> QED BY <1>2, <1>3, <1>4 DEF Account

\* What a request makes of the row that it has read.
LEMMA ChangedRows ==
  ASSUME AccountsInv, NEW a \in Accounts, account[a].exists
  PROVE  /\ \A e \in Edits : Update(account[a], e) # account[a] =>
              LET new == Update(account[a], e) IN
              /\ new \in Account /\ new.exists /\ new.version = account[a].version + 1 /\ new.password > 0
              /\ ~Removes(account[a], e) /\ a \in ActiveAdmins => new.role = "admin" /\ new.active
         /\ chosen < MaxPasswords => \A new \in {Reset(account[a]), Change(account[a])} :
              /\ new \in Account /\ new.exists /\ new.version = account[a].version + 1 /\ new.password > 0
              /\ new.role = account[a].role /\ new.active = account[a].active
<1>1. /\ account[a] \in Account /\ account[a].password > 0 /\ chosen \in 1..MaxPasswords
  BY DEF AccountsInv, AccountsTypeOK
<1>2. ASSUME NEW e \in Edits, Update(account[a], e) # account[a]
      PROVE  LET new == Update(account[a], e) IN
             /\ new \in Account /\ new.exists /\ new.version = account[a].version + 1 /\ new.password > 0
             /\ ~Removes(account[a], e) /\ a \in ActiveAdmins => new.role = "admin" /\ new.active
  <2> DEFINE edited == Edited(account[a], e)
             new == Update(account[a], e)
  <2>1. /\ edited \in Account /\ edited.exists = account[a].exists /\ edited.password = account[a].password
        /\ edited.version = account[a].version
        /\ edited.role = (IF e = "demote" THEN "staff" ELSE IF e = "promote" THEN "admin" ELSE account[a].role)
        /\ edited.active = (IF e = "deactivate" THEN FALSE ELSE IF e = "activate" THEN TRUE ELSE account[a].active)
    <3>1. CASE e = "deactivate" BY <1>1, <3>1 DEF Edited, Account
    <3>2. CASE e = "activate" BY <1>1, <3>2 DEF Edited, Account
    <3>3. CASE e = "demote" BY <1>1, <3>3 DEF Edited, Account, Roles
    <3>4. CASE e = "promote" BY <1>1, <3>4 DEF Edited, Account, Roles
    <3> QED BY <3>1, <3>2, <3>3, <3>4 DEF Edits
  <2>2. new = [edited EXCEPT !.version = @ + 1] BY <1>2 DEF Update
  <2> HIDE DEF edited
  <2>3. /\ new \in Account /\ new.exists = edited.exists /\ new.password = edited.password
        /\ new.version = edited.version + 1 /\ new.role = edited.role /\ new.active = edited.active
    BY <2>1, <2>2, NewVersion
  <2> HIDE DEF new
  <2>4. ~Removes(account[a], e) /\ a \in ActiveAdmins => new.role = "admin" /\ new.active
    BY <2>1, <2>3 DEF Removes, ActiveAdmins
  <2>5. new \in Account /\ new.exists /\ new.version = account[a].version + 1 /\ new.password > 0
    BY <1>1, <2>1, <2>3
  <2> QED BY <2>4, <2>5 DEF new
<1>3. ASSUME chosen < MaxPasswords
      PROVE  \A new \in {Reset(account[a]), Change(account[a])} :
               /\ new \in Account /\ new.exists /\ new.version = account[a].version + 1 /\ new.password > 0
               /\ new.role = account[a].role /\ new.active = account[a].active
  <2>1. chosen + 1 \in 0..MaxPasswords /\ chosen + 1 > 0 BY <1>1, <1>3, AccountsAssumption
  <2>2. Repassworded(account[a], chosen + 1, Reset(account[a])) /\ Repassworded(account[a], chosen + 1, Change(account[a]))
    BY DEF Reset, Change, Repassworded
  <2> SUFFICES ASSUME NEW new, Repassworded(account[a], chosen + 1, new)
               PROVE  /\ new \in Account /\ new.exists /\ new.version = account[a].version + 1 /\ new.password > 0
                      /\ new.role = account[a].role /\ new.active = account[a].active
    BY <2>2
  <2>3. /\ new \in Account
        /\ new.exists = account[a].exists /\ new.role = account[a].role /\ new.active = account[a].active
        /\ new.password = chosen + 1 /\ new.version = account[a].version + 1
    <3>1. PICK row \in Account : row = account[a] BY <1>1
    <3>2. PICK p \in 0..MaxPasswords : p = chosen + 1 BY <2>1
    <3>3. Repassworded(row, p, new) BY <3>1, <3>2
    <3>4. /\ new \in Account /\ new.password = p /\ new.version = row.version + 1
          /\ new.exists = row.exists /\ new.role = row.role /\ new.active = row.active
      BY <3>3, NewPassword
    <3> QED BY <3>1, <3>2, <3>4
  <2> QED BY <2>1, <2>3
<1> QED BY <1>2, <1>3

\* The three requests that change an account begin like that.
LEMMA ChangesBegin ==
  ASSUME AccountsInv, NEW b \in Browsers,
         \/ \E a \in Accounts, e \in Edits : BeginUpdate(b, a, e)
         \/ \E a \in Accounts : BeginReset(b, a)
         \/ BeginChange(b)
  PROVE  AccountsInv' /\ RowsMove
<1>1. ASSUME NEW a \in Accounts, NEW e \in Edits, BeginUpdate(b, a, e) PROVE AccountsInv' /\ RowsMove
  <2> DEFINE new == Update(account[a], e)
  <2>1. /\ new # account[a] /\ Prepare(b, "update", a, new) /\ account[a].exists
        /\ Removes(account[a], e) => Cardinality(ActiveAdmins) > 1
    BY <1>1 DEF BeginUpdate, MayRemove, Prepare
  <2>2. /\ new \in Account /\ new.exists /\ new.version = account[a].version + 1 /\ new.password > 0
        /\ ~Removes(account[a], e) /\ a \in ActiveAdmins => new.role = "admin" /\ new.active
    BY <2>1, ChangedRows
  <2> HIDE DEF new
  <2>3. Removes(account[a], e) => ActiveAdmins \ {a} # {} BY <2>1, AnotherAdmin
  <2> QED BY <2>1, <2>2, <2>3, ChangeBegins
<1>2. ASSUME NEW a \in Accounts, BeginReset(b, a) PROVE AccountsInv' /\ RowsMove
  <2> DEFINE new == Reset(account[a])
  <2>1. Prepare(b, "reset", a, new) /\ chosen < MaxPasswords /\ account[a].exists
    BY <1>2 DEF BeginReset, Prepare
  <2>2. /\ new \in Account /\ new.exists /\ new.version = account[a].version + 1 /\ new.password > 0
        /\ new.role = account[a].role /\ new.active = account[a].active
    BY <2>1, ChangedRows
  <2> HIDE DEF new
  <2> QED BY <2>1, <2>2, ChangeBegins DEF ActiveAdmins
<1>3. ASSUME BeginChange(b) PROVE AccountsInv' /\ RowsMove
  <2> DEFINE a == cookie[b].account
             new == Change(account[a])
  <2>1. Prepare(b, "change", a, new) /\ chosen < MaxPasswords /\ account[a].exists /\ a \in Accounts
    BY <1>3 DEF BeginChange, Prepare, SignedIn, AccountsInv, AccountsTypeOK
  <2>2. /\ new \in Account /\ new.exists /\ new.version = account[a].version + 1 /\ new.password > 0
        /\ new.role = account[a].role /\ new.active = account[a].active
    BY <2>1, ChangedRows
  <2> HIDE DEF new, a
  <2> QED BY <2>1, <2>2, ChangeBegins DEF ActiveAdmins
<1> QED BY <1>1, <1>2, <1>3

\* An account is created for an address that has none: nobody has a session of it.
LEMMA CreateStep ==
  ASSUME AccountsInv, NEW b \in Browsers, NEW a \in Accounts, NEW role \in Roles, CreateAccount(b, a, role)
  PROVE  AccountsInv' /\ RowsMove
<1> DEFINE new == [exists |-> TRUE, role |-> role, active |-> TRUE, password |-> chosen + 1,
                   version |-> 1, reset |-> TRUE]
<1>1. /\ ~account[a].exists /\ chosen < MaxPasswords /\ account' = [account EXCEPT ![a] = new]
      /\ chosen' = chosen + 1 /\ UNCHANGED <<throttle, cookie, call, stale, crossed, failures>>
  BY DEF CreateAccount
<1>2. AccountsTypeOK /\ TablesOK /\ ThrottleOK /\ AdminRemains BY DEF AccountsInv
<1>3. chosen' \in 1..MaxPasswords /\ chosen + 1 \in 0..MaxPasswords
  BY <1>1, <1>2, AccountsAssumption DEF AccountsTypeOK
<1>4. new \in Account /\ new.exists /\ new.version = 1 /\ new.password = chosen + 1 /\ new.active
  BY <1>3 DEF Account
<1> HIDE DEF new
<1>5. account'[a] = new /\ \A d \in Accounts \ {a} : account'[d] = account[d]
  BY <1>1, <1>2 DEF AccountsTypeOK
<1>6. account' \in [Accounts -> Account] BY <1>1, <1>2, <1>4 DEF AccountsTypeOK
<1>7. RowsMove BY <1>1, <1>2, <1>4, <1>5 DEF RowsMove, TablesOK
<1>8. SessionsMove BY <1>1, <1>2 DEF SessionsMove, TablesOK
<1>9. CallsMove BY <1>1, <1>2 DEF CallsMove, TablesOK
<1>10. ThrottleOK' BY <1>1, <1>2 DEF ThrottleOK, Limit
<1>11. AdminRemains'
  <2>1. a \notin ActiveAdmins BY <1>1, <1>2 DEF TablesOK, ActiveAdmins
  <2>2. ActiveAdmins \subseteq ActiveAdmins' BY <2>1, <1>5 DEF ActiveAdmins
  <2> QED BY <2>2, <1>1, <1>2 DEF AdminRemains
<1>12. \A d \in Accounts : /\ account'[d].exists <=> account'[d].version > 0 /\ account'[d].password > 0
                           /\ account'[d].active => account'[d].exists
  <2>1. chosen + 1 > 0 BY <1>2, AccountsAssumption DEF AccountsTypeOK
  <2> QED BY <1>2, <1>4, <1>5, <2>1 DEF AccountsTypeOK, TablesOK
<1> QED BY <1>1, <1>2, <1>3, <1>6, <1>7, <1>8, <1>9, <1>10, <1>11, <1>12, MovedAccounts DEF AccountsTypeOK, TablesOK

\* A throttle row may be deleted that no login holds.
LEMMA ThrottleCleared ==
  ASSUME AccountsInv, NEW a \in Accounts, a \notin LockedKeys, ClearThrottle(a)
  PROVE  /\ throttle' \in [Keys -> ThrottleRow \cup {NoThrottle}] /\ failures' \in [Keys -> Nat]
         /\ \A k \in Keys : throttle'[k] # NoThrottle => throttle'[k].count \in 1..Limit(k)
         /\ ThrottleOK'
         /\ \A b \in Browsers, k \in Keys : HoldsKey(b, k) => throttle'[k] = throttle[k]
<1>1. throttle' = [throttle EXCEPT ![a] = NoThrottle] /\ failures' = [failures EXCEPT ![a] = 0]
  BY DEF ClearThrottle
<1>2. AccountsTypeOK /\ TablesOK /\ ThrottleOK BY DEF AccountsInv
<1>3. \A b \in Browsers : ~HoldsKey(b, a) BY LockedKey
<1>4. \A k \in Keys : \/ k = a /\ throttle'[k] = NoThrottle /\ failures'[k] = 0
                      \/ k # a /\ throttle'[k] = throttle[k] /\ failures'[k] = failures[k]
  BY <1>1, <1>2 DEF TablesOK
<1>5. throttle' \in [Keys -> ThrottleRow \cup {NoThrottle}] /\ failures' \in [Keys -> Nat]
  BY <1>1, <1>2 DEF TablesOK
<1>6. ThrottleOK' BY <1>2, <1>4 DEF ThrottleOK, Limit
<1>7. \A k \in Keys : throttle'[k] # NoThrottle => throttle'[k].count \in 1..Limit(k)
  BY <1>2, <1>4 DEF AccountsTypeOK
<1>8. \A b \in Browsers, k \in Keys : HoldsKey(b, k) => throttle'[k] = throttle[k]
  BY <1>3, <1>4
<1> QED BY <1>5, <1>6, <1>7, <1>8

\* The operator's recovery works on the row as it is.
LEMMA RecoverStep ==
  ASSUME AccountsInv, NEW a \in Accounts, Recover(a)
  PROVE  AccountsInv' /\ RowsMove
<1> DEFINE new == Reset(account[a])
<1>1. /\ a \in ActiveAdmins /\ chosen < MaxPasswords /\ a \notin LockedKeys
      /\ account' = [account EXCEPT ![a] = new] /\ chosen' = chosen + 1 /\ ClearThrottle(a)
      /\ UNCHANGED <<cookie, call, stale, crossed>>
  BY DEF Recover
<1>2. AccountsTypeOK /\ TablesOK /\ ThrottleOK /\ AdminRemains BY DEF AccountsInv
<1>3. account[a].exists BY <1>1, <1>2 DEF TablesOK, ActiveAdmins
<1>4. chosen' \in 1..MaxPasswords
  BY <1>1, <1>2, AccountsAssumption DEF AccountsTypeOK
<1>5. /\ new \in Account /\ new.exists /\ new.version = account[a].version + 1 /\ new.password > 0
      /\ new.role = account[a].role /\ new.active = account[a].active
  BY <1>1, <1>3, ChangedRows
<1> HIDE DEF new
<1>6. account'[a] = new /\ \A d \in Accounts \ {a} : account'[d] = account[d]
  BY <1>1, <1>2 DEF AccountsTypeOK
<1>7. account' \in [Accounts -> Account] BY <1>1, <1>2, <1>5 DEF AccountsTypeOK
<1>8. account[a] \in Account /\ account[a].version \in Nat BY <1>2 DEF AccountsTypeOK, Account
<1>9. RowsMove BY <1>1, <1>2, <1>5, <1>6, <1>8 DEF RowsMove, TablesOK
<1>10. SessionsMove BY <1>1, <1>2 DEF SessionsMove, TablesOK
<1>11. CallsMove BY <1>1, <1>2, ThrottleCleared DEF CallsMove, TablesOK
<1>12. AdminRemains'
  <2>1. ActiveAdmins' = ActiveAdmins BY <1>5, <1>6 DEF ActiveAdmins
  <2> QED BY <2>1, <1>1, <1>2 DEF AdminRemains
<1>13. \A d \in Accounts : /\ account'[d].exists <=> account'[d].version > 0 /\ account'[d].password > 0
                           /\ account'[d].active => account'[d].exists
  BY <1>2, <1>5, <1>6, <1>8 DEF AccountsTypeOK, TablesOK
<1>14. crossed' \in BOOLEAN BY <1>1, <1>2 DEF TablesOK
<1> QED BY <1>1, <1>4, <1>7, <1>9, <1>10, <1>11, <1>12, <1>13, <1>14, ThrottleCleared, MovedAccounts

\* A request that was committed without having read the row as it is makes the
\* row stale; otherwise the row is what it has made of it.
LEMMA CommitStep ==
  ASSUME AccountsInv, NEW b \in Browsers, CommitChange(b)
  PROVE  AccountsInv' /\ RowsMove
<1> DEFINE a == call[b].account
           read == call[b].read
           new == call[b].new
           flushed == Flushed(a, read, new)
<1>1. /\ call[b].at \in {"update", "reset", "change"}
      /\ new.password # read.password => a \notin LockedKeys
      /\ account' = [account EXCEPT ![a] = flushed]
      /\ IF new.password # read.password THEN ClearThrottle(a) ELSE UNCHANGED <<throttle, failures>>
      /\ cookie' = IF call[b].at = "change" THEN [cookie EXCEPT ![b] = Token(a, new.password)] ELSE cookie
      /\ stale' = IF account[a] # read THEN stale \cup {a} ELSE stale
      /\ crossed' = (crossed \/ (account[a] # account'[a] /\ call[b].admins # ActiveAdmins))
      /\ call' = [call EXCEPT ![b] = NoCall] /\ chosen' = chosen
  BY DEF CommitChange
<1>2. AccountsTypeOK /\ TablesOK /\ ThrottleOK /\ AdminRemains /\ ChangeOK(b) BY DEF AccountsInv, CallsOK
<1>3. /\ a \in Accounts /\ account[a].exists /\ read \in Account /\ new \in Account /\ new.exists
      /\ new.version = read.version + 1 /\ new.password > 0
      /\ a \in call[b].admins <=> read.role = "admin" /\ read.active
      /\ a \in call[b].admins /\ ~(new.role = "admin" /\ new.active) => call[b].admins \ {a} # {}
  BY <1>1, <1>2 DEF ChangeOK
<1>4. /\ account \in [Accounts -> Account] /\ account[a] \in Account /\ account[a].version \in Nat
      /\ account[a].password > 0 /\ read.version \in Nat /\ new.version \in Nat
  BY <1>2, <1>3 DEF AccountsTypeOK, Account
<1>5. /\ flushed \in Account
      /\ \A f \in {"exists", "role", "active", "password", "version", "reset"} :
           flushed[f] = IF new[f] = read[f] THEN account[a][f] ELSE new[f]
  BY <1>3, <1>4, FlushedAccount
<1> HIDE DEF flushed
<1>6. /\ flushed.version = new.version
      /\ flushed.password = IF new.password = read.password THEN account[a].password ELSE new.password
      /\ flushed.exists
  <2>1. flushed.version = IF new.version = read.version THEN account[a].version ELSE new.version BY <1>5
  <2>2. flushed.password = IF new.password = read.password THEN account[a].password ELSE new.password BY <1>5
  <2>3. flushed.exists = IF new.exists = read.exists THEN account[a].exists ELSE new.exists BY <1>5
  <2> QED BY <1>3, <1>4, <2>1, <2>2, <2>3
<1>7. /\ flushed.role = IF new.role = read.role THEN account[a].role ELSE new.role
      /\ flushed.active = IF new.active = read.active THEN account[a].active ELSE new.active
  BY <1>5
<1>8. account' \in [Accounts -> Account] BY <1>1, <1>4, <1>5
<1>9. account'[a] = flushed /\ \A d \in Accounts \ {a} : account'[d] = account[d] BY <1>1, <1>3, <1>4
<1>10. stale \subseteq stale' /\ stale' \subseteq Accounts BY <1>1, <1>2, <1>3 DEF TablesOK
<1>11. a \notin stale' => account[a] = read BY <1>1
<1>12. RowsMove
  <2>1. a \notin stale' => account'[a].version > account[a].version
    BY <1>3, <1>4, <1>6, <1>9, <1>11
  <2> QED BY <1>6, <1>9, <1>10, <2>1 DEF RowsMove
<1>13. SessionsMove
  <2>1. CASE call[b].at # "change" BY <1>1, <1>2, <2>1 DEF SessionsMove, TablesOK
  <2>2. CASE call[b].at = "change"
    <3>1. cookie' = [c \in Browsers |-> cookie'[c]] /\ cookie'[b] = Token(a, new.password)
          /\ \A c \in Browsers \ {b} : cookie'[c] = cookie[c]
      BY <1>1, <1>2, <2>2 DEF TablesOK
    <3>2. cookie'[b].account = a /\ cookie'[b].version = account'[a].version /\ cookie'[b].password = new.password
      BY <3>1 DEF Token
    <3>3. account'[a].exists /\ (a \notin stale' => new.password = account'[a].password)
      BY <1>6, <1>9, <1>11
    <3> QED BY <1>3, <3>1, <3>2, <3>3 DEF SessionsMove
  <2> QED BY <2>1, <2>2
<1>14. /\ throttle' \in [Keys -> ThrottleRow \cup {NoThrottle}] /\ failures' \in [Keys -> Nat]
       /\ \A k \in Keys : throttle'[k] # NoThrottle => throttle'[k].count \in 1..Limit(k)
       /\ ThrottleOK'
       /\ \A c \in Browsers, k \in Keys : HoldsKey(c, k) => throttle'[k] = throttle[k]
  <2>1. CASE new.password # read.password BY <1>1, <1>3, <2>1, ThrottleCleared
  <2>2. CASE new.password = read.password
    <3>1. throttle' = throttle /\ failures' = failures BY <1>1, <2>2
    <3>2. ThrottleOK' BY <1>2, <3>1 DEF ThrottleOK, Limit
    <3> QED BY <1>2, <3>1, <3>2 DEF TablesOK, AccountsTypeOK
  <2> QED BY <2>1, <2>2
<1>15. CallsMove BY <1>1, <1>2, <1>14 DEF CallsMove, TablesOK
<1>16. crossed' \in BOOLEAN BY <1>1
<1>17. AdminRemains'
  <2> SUFFICES ASSUME ~crossed' PROVE ActiveAdmins' # {} BY DEF AdminRemains
  <2>1. ActiveAdmins # {} /\ (account[a] = account'[a] \/ call[b].admins = ActiveAdmins)
    BY <1>1, <1>2 DEF AdminRemains, TablesOK
  <2>2. CASE account[a] = account'[a]
    <3>1. ActiveAdmins' = ActiveAdmins BY <1>9, <2>2 DEF ActiveAdmins
    <3> QED BY <2>1, <3>1
  <2>3. CASE call[b].admins = ActiveAdmins
    <3>1. \A d \in ActiveAdmins \ {a} : d \in ActiveAdmins' BY <1>9 DEF ActiveAdmins
    <3>2. CASE a \in ActiveAdmins /\ ~(new.role = "admin" /\ new.active)
      BY <1>3, <2>3, <3>1, <3>2
    <3>3. CASE a \in ActiveAdmins /\ new.role = "admin" /\ new.active
      <4>1. account[a].role = "admin" /\ account[a].active BY <3>3 DEF ActiveAdmins
      <4>2. a \in ActiveAdmins' BY <1>3, <1>7, <1>9, <3>3, <4>1 DEF ActiveAdmins
      <4> QED BY <4>2
    <3>4. CASE a \notin ActiveAdmins BY <2>1, <3>1, <3>4
    <3> QED BY <3>2, <3>3, <3>4
  <2> QED BY <2>1, <2>2, <2>3
<1>18. \A d \in Accounts : /\ account'[d].exists <=> account'[d].version > 0 /\ account'[d].password > 0
                           /\ account'[d].active => account'[d].exists
  <2>1. flushed.password > 0 /\ flushed.version > 0 BY <1>3, <1>4, <1>6
  <2> QED BY <1>2, <1>6, <1>9, <2>1 DEF AccountsTypeOK, TablesOK
<1>19. chosen' \in 1..MaxPasswords BY <1>1, <1>2 DEF AccountsTypeOK
<1> QED BY <1>8, <1>12, <1>13, <1>14, <1>15, <1>16, <1>17, <1>18, <1>19, MovedAccounts

\* Every step.
LEMMA AccountsStep == AccountsInv /\ [AccountsNext]_accountsVars => AccountsInv' /\ RowsMove
<1> SUFFICES ASSUME AccountsInv, [AccountsNext]_accountsVars PROVE AccountsInv' /\ RowsMove
  OBVIOUS
<1>1. ASSUME NEW b \in Browsers, NEW a \in Accounts, NEW p \in 1..chosen, BeginLogin(b, a, p)
      PROVE  AccountsInv' /\ RowsMove
  <2>1. p \in Nat BY DEF AccountsInv, AccountsTypeOK
  <2> QED BY <1>1, <2>1, LoginBegins
<1>2. CASE UNCHANGED accountsVars
  <2>1. AccountsInv'
    BY <1>2 DEF accountsVars, AccountsInv, AccountsTypeOK, TablesOK, ThrottleOK, CallsOK, OneHoldsKey, CookiesOK,
       AdminRemains, LoginOK, ChangeOK, HoldsKey, CookieOK, ActiveAdmins, ThrottleKeys, Fresh, Limit, NoCall
  <2>2. RowsMove BY <1>2 DEF accountsVars, RowsMove, AccountsInv, TablesOK
  <2> QED BY <2>1, <2>2
<1> QED BY <1>1, <1>2, LoginSucceedsStep, LoginFailsStep, LoginClashesStep, ChangesBegin, CommitStep,
           CreateStep, RecoverStep, LockExpiresStep DEF AccountsNext

\* bootstrap_admin leaves one administrator.
LEMMA AccountsStart == AccountsInit => AccountsInv
<1> SUFFICES ASSUME AccountsInit PROVE AccountsInv
  OBVIOUS
<1> USE DEF AccountsInit
<1>1. NoAccount \in Account /\ [exists |-> TRUE, role |-> "admin", active |-> TRUE, password |-> 1,
                                version |-> 1, reset |-> FALSE] \in Account
  BY AccountsAssumption DEF NoAccount, Account, Roles
<1>2. account[FirstAdmin].role = "admin" /\ account[FirstAdmin].active BY AccountsAssumption
<1>3. AccountsTypeOK
  <2>1. account \in [Accounts -> Account] BY <1>1
  <2>2. \A a \in Accounts : account[a].exists <=> account[a].version > 0 /\ account[a].password > 0
    BY DEF NoAccount
  <2> QED BY <2>1, <2>2, AccountsAssumption DEF AccountsTypeOK
<1>4. TablesOK
  <2>1. \A a \in Accounts : account[a].active => account[a].exists BY DEF NoAccount
  <2> QED BY <2>1 DEF TablesOK
<1>5. ThrottleOK BY DEF ThrottleOK
<1>6. CallsOK BY DEF CallsOK, LoginOK, ChangeOK, NoCall
<1>7. OneHoldsKey BY DEF OneHoldsKey, HoldsKey, NoCall
<1>8. CookiesOK BY DEF CookiesOK, CookieOK
<1>9. AdminRemains BY <1>2, AccountsAssumption DEF AdminRemains, ActiveAdmins
<1> QED BY <1>3, <1>4, <1>5, <1>6, <1>7, <1>8, <1>9 DEF AccountsInv

\* What the handlers of auth.py and of admin_access_recovery.py keep, over all
\* their interleavings.
THEOREM AccountsInvariant == AccountsSpec => []AccountsInv
<1>1. AccountsInv /\ [AccountsNext]_accountsVars => AccountsInv' BY AccountsStep
<1> QED BY <1>1, AccountsStart, PTL DEF AccountsSpec

\* However requests race: an administrator remains, an old password opens no
\* session, and no failed login goes uncounted (update_account, authenticate).
THEOREM AccountsStayGuarded == AccountsSpec => []AccountsAreGuarded
<1>1. AccountsInv => AccountsAreGuarded
  <2> SUFFICES ASSUME AccountsInv PROVE OldPasswordIsOut /\ FailuresAreCounted
    BY DEF AccountsAreGuarded, AccountsInv
  <2>1. OldPasswordIsOut
    BY DEF AccountsInv, OldPasswordIsOut, SignedIn, CookiesOK, CookieOK
  <2>2. FailuresAreCounted
    <3>1. \A k \in Keys : Limit(k) \in Nat \ {0} BY AccountsAssumption DEF Limit
    <3> SUFFICES ASSUME NEW k \in Keys
                 PROVE  /\ failures[k] <= Limit(k)
                        /\ failures[k] = Limit(k) => throttle[k] # NoThrottle /\ throttle[k].lock # "none"
      BY DEF FailuresAreCounted
    <3>2. CASE throttle[k] = NoThrottle BY <3>1, <3>2 DEF AccountsInv, ThrottleOK
    <3>3. CASE throttle[k] # NoThrottle
      <4>1. failures[k] = throttle[k].count /\ throttle[k].count \in 1..Limit(k)
            /\ (throttle[k].lock = "none" => throttle[k].count < Limit(k))
        BY <3>3 DEF AccountsInv, ThrottleOK, AccountsTypeOK
      <4> QED BY <3>1, <3>3, <4>1
    <3> QED BY <3>2, <3>3
  <2> QED BY <2>1, <2>2
<1> QED BY <1>1, AccountsInvariant, PTL

\* A session that was ended stays ended, whatever is made of its account later
\* (require_authenticated_user).
THEOREM EndedSessionsStayEnded == AccountsSpec => EndedStaysEnded
<1>1. ASSUME AccountsInv, [AccountsNext]_accountsVars, NEW b \in Browsers,
             cookie[b] # NoSession, cookie'[b] = cookie[b], ~SignedIn(b), cookie[b].account \notin stale'
      PROVE  ~SignedIn(b)'
  <2> DEFINE a == cookie[b].account
  <2>1. RowsMove /\ account' \in [Accounts -> Account] BY <1>1, AccountsStep DEF AccountsInv, AccountsTypeOK
  <2>2. /\ a \in Accounts /\ account[a].exists /\ account[a] \in Account
    BY <1>1 DEF AccountsInv, AccountsTypeOK, TablesOK
  <2>3. a \notin stale BY <1>1, <2>1 DEF RowsMove
  <2>4. cookie[b].version \in Nat /\ cookie[b].version <= account[a].version
    BY <1>1, <2>3 DEF AccountsInv, CookiesOK, CookieOK
  <2>5. CASE account'[a] = account[a] BY <1>1, <2>5 DEF SignedIn
  <2>6. CASE account'[a].version > account[a].version
    <3>1. account'[a] \in Account BY <2>1, <2>2
    <3>2. account[a].version \in Nat /\ account'[a].version \in Nat BY <2>2, <3>1 DEF Account
    <3>3. account'[a].version # cookie[b].version BY <2>4, <2>6, <3>2
    <3> QED BY <1>1, <3>3 DEF SignedIn
  <2> QED BY <1>1, <2>1, <2>2, <2>5, <2>6 DEF RowsMove
<1>2. AccountsInv /\ [AccountsNext]_accountsVars =>
        [\A b \in Browsers : cookie[b] # NoSession /\ cookie'[b] = cookie[b] /\ ~SignedIn(b)
           /\ cookie[b].account \notin stale' => ~SignedIn(b)']_accountsVars
  BY <1>1
<1> QED BY <1>2, AccountsInvariant, PTL DEF AccountsSpec, EndedStaysEnded

-----------------------------------------------------------------------------
(* The photo inbox: the inductive invariant.                               *)

Claimed == [at |-> "claimed"]
Screenings == [at: {"done", "external"}, read: Intake]
Retries == [at: {"retry"}, read: {i \in Intake : i.status \in {"failed", "needs_review"}}]
Routings == [from: Queues, to: Queues]

\* The row, the runs, the retries and the trail.
InboxTablesOK ==
  /\ photo \in Photos /\ intake \in Intake /\ slipped \in BOOLEAN
  /\ run \in [Controllers -> {NoRun, Claimed} \cup Screenings]
  /\ retry \in [Managers -> {NoRetry} \cup Retries]
  /\ routings \in Seq(Routings)

\* Until a retry slips, a run has the intake to itself, as it has read it.
RunsAlone ==
  ~slipped => \A c \in Controllers : run[c] # NoRun =>
    /\ intake.status = "processing"
    /\ run[c] \in Screenings => run[c].read = intake
    /\ \A d \in Controllers \ {c} : run[d] = NoRun

\* Until then an analysed intake is in a queue, and a sensitive one in quarantine.
Analysed ==
  ~slipped =>
    /\ intake.status \in {"routed", "needs_review"} => intake.queue # "none"
    /\ photo = "sensitive" /\ intake.status = "needs_review" => intake.quarantine

\* The trail leads to the queue of the intake.
TrailLeads ==
  /\ \A i \in 1..(Len(routings) - 1) : routings[i + 1].from = routings[i].to
  /\ routings # <<>> => intake.queue = routings[Len(routings)].to

InboxInv == InboxTablesOK /\ RunsAlone /\ Analysed /\ TrailLeads /\ external \subseteq {"unclear"}

-----------------------------------------------------------------------------
\* No state of a run or of a retry is taken for another.
LEMMA InboxShapes ==
  /\ NoRun # Claimed /\ NoRun \notin Screenings /\ Claimed \notin Screenings /\ NoRetry \notin Retries
  /\ NoRun.at = "idle" /\ Claimed.at = "claimed"
  /\ \A h \in Screenings : h.at \in {"done", "external"} /\ h.read \in Intake
<1>1. \A h \in Screenings : h.at \in {"done", "external"} /\ h.read \in Intake BY DEF Screenings
<1>2. \A h \in Retries : h.at = "retry" BY DEF Retries
<1>3. NoRun.at = "idle" /\ Claimed.at = "claimed" /\ NoRetry.at = "idle" BY DEF NoRun, Claimed, NoRetry
<1> QED BY <1>1, <1>2, <1>3

\* The intake is claimed by a run that finds it pending.
LEMMA ClaimStep ==
  ASSUME InboxInv, NEW c \in Controllers, Claim(c)
  PROVE  InboxInv'
<1>1. /\ InboxTablesOK /\ RunsAlone /\ TrailLeads /\ intake.status = "pending" /\ intake.attempts < MaxAttempts
      /\ run' = [run EXCEPT ![c] = Claimed]
      /\ UNCHANGED <<photo, retry, shown, routings, external, slipped>>
  BY DEF InboxInv, Claim, Claimable, Claimed
<1>2. /\ intake' \in Intake /\ intake'.status = "processing" /\ intake'.queue = intake.queue
  <2> DEFINE i1 == [intake EXCEPT !.status = "processing"]
             i2 == [i1 EXCEPT !.attempts = @ + 1]
  <2>1. i1 \in Intake /\ i1.status = "processing" /\ i1.queue = intake.queue /\ i1.attempts = intake.attempts
    BY <1>1 DEF InboxTablesOK, Intake, IntakeStatuses
  <2>2. intake' = i2 BY <1>1 DEF Claim, InboxTablesOK, Intake
  <2>3. i1.attempts + 1 \in 0..MaxAttempts BY <1>1, <2>1, BackupsAssumption DEF InboxTablesOK, Intake
  <2> HIDE DEF i1
  <2>4. i2 \in Intake /\ i2.status = i1.status /\ i2.queue = i1.queue BY <2>1, <2>3 DEF Intake
  <2> QED BY <2>1, <2>2, <2>4
<1>3. InboxTablesOK' BY <1>1, <1>2 DEF InboxTablesOK
<1>4. RunsAlone'
  <2> SUFFICES ASSUME ~slipped PROVE \A d \in Controllers : run'[d] # NoRun => d = c
    BY <1>1, <1>2, InboxShapes DEF RunsAlone, InboxTablesOK
  <2> QED BY <1>1 DEF RunsAlone, InboxTablesOK
<1>5. Analysed' /\ TrailLeads' BY <1>1, <1>2 DEF Analysed, TrailLeads
<1> QED BY <1>1, <1>3, <1>4, <1>5 DEF InboxInv

\* The image is read and screened.
LEMMA ReadPhotoStep ==
  ASSUME InboxInv, NEW c \in Controllers, ReadPhoto(c)
  PROVE  InboxInv'
<1>1. /\ InboxTablesOK /\ RunsAlone /\ Analysed /\ TrailLeads /\ run[c] # NoRun
      /\ UNCHANGED <<photo, intake, retry, shown, routings, slipped>>
  BY InboxShapes DEF InboxInv, ReadPhoto
<1>2. PICK next \in Screened(photo) :
        /\ run' = [run EXCEPT ![c] = [at |-> next, read |-> intake]]
        /\ external' = IF next = "external" THEN external \cup {photo} ELSE external
  BY DEF ReadPhoto
<1> DEFINE h == [at |-> next, read |-> intake]
<1>3. next \in {"done", "external"} /\ (next = "external" => photo = "unclear")
  BY <1>1, <1>2 DEF Screened, InboxTablesOK, Photos
<1>4. h \in Screenings /\ h.read = intake BY <1>1, <1>3 DEF Screenings, InboxTablesOK
<1> HIDE DEF h
<1>5. run'[c] = h /\ \A d \in Controllers \ {c} : run'[d] = run[d] BY <1>1, <1>2 DEF InboxTablesOK, h
<1>6. InboxTablesOK' BY <1>1, <1>2, <1>4 DEF InboxTablesOK, h
<1>7. RunsAlone' BY <1>1, <1>4, <1>5, InboxShapes DEF RunsAlone
<1>8. Analysed' /\ TrailLeads' /\ external' \subseteq {"unclear"}
  BY <1>1, <1>2, <1>3 DEF Analysed, TrailLeads, InboxInv
<1> QED BY <1>6, <1>7, <1>8 DEF InboxInv

\* A run ends, and leaves the row or sets only its status to failed.
LEMMA RunEnds ==
  ASSUME InboxInv, NEW c \in Controllers, run' = [run EXCEPT ![c] = NoRun],
         intake' = intake \/ (run[c] # NoRun /\ intake' = [intake EXCEPT !.status = "failed"]),
         UNCHANGED <<photo, retry, shown, routings, external, slipped>>
  PROVE  InboxInv'
<1>1. InboxTablesOK /\ RunsAlone /\ Analysed /\ TrailLeads BY DEF InboxInv
<1>2. intake' \in Intake /\ intake'.queue = intake.queue /\ (intake' = intake \/ intake'.status = "failed")
  BY <1>1 DEF InboxTablesOK, Intake, IntakeStatuses
<1>3. run'[c] = NoRun /\ \A d \in Controllers \ {c} : run'[d] = run[d] BY <1>1 DEF InboxTablesOK
<1>4. InboxTablesOK' BY <1>1, <1>2 DEF InboxTablesOK
<1>5. RunsAlone'
  <2>1. CASE intake' = intake BY <1>1, <1>3, <2>1 DEF RunsAlone
  <2>2. CASE intake' # intake BY <1>1, <1>3, <2>2 DEF RunsAlone
  <2> QED BY <2>1, <2>2
<1>6. Analysed' /\ TrailLeads' BY <1>1, <1>2 DEF Analysed, TrailLeads
<1> QED BY <1>4, <1>5, <1>6 DEF InboxInv

\* The analysis is written: the intake is in the first queue, and in quarantine
\* if it is sensitive.
LEMMA FinishedStep ==
  ASSUME InboxInv, NEW c \in Controllers, Route(c) \/ Triage(c)
  PROVE  InboxInv'
<1>1. InboxTablesOK /\ RunsAlone /\ Analysed /\ TrailLeads BY DEF InboxInv
<1>2. PICK s \in {"routed", "needs_review"}, f \in BOOLEAN :
        /\ Finished(c, s, f)
        /\ s = "routed" => photo # "sensitive"
        /\ s = "needs_review" /\ photo = "sensitive" => f = TRUE
  <2>1. CASE Route(c)
    <3>1. run[c].at \in {"done", "external"} BY <2>1 DEF Route, Finished
    <3>2. run[c] \in Screenings BY <1>1, <3>1, InboxShapes DEF InboxTablesOK
    <3>3. run[c].read.quarantine \in BOOLEAN BY <3>2 DEF Screenings, Intake
    <3> QED BY <2>1, <3>3 DEF Route
  <2>2. CASE Triage(c)
    <3>1. (photo = "sensitive") \in BOOLEAN OBVIOUS
    <3> QED BY <2>2, <3>1 DEF Triage
  <2> QED BY <2>1, <2>2
<1>3. PICK h \in Screenings : h = run[c] BY <1>1, <1>2, InboxShapes DEF Finished, InboxTablesOK
<1>4. PICK g \in BOOLEAN : g = IF f = h.read.quarantine THEN intake.quarantine ELSE f
  BY <1>1 DEF InboxTablesOK, Intake
<1>5. /\ intake' = [intake EXCEPT !.status = s, !.queue = "finance_intake", !.quarantine = g]
      /\ routings' = <<>> /\ run' = [run EXCEPT ![c] = NoRun]
      /\ UNCHANGED <<photo, retry, shown, external, slipped>>
  BY <1>2, <1>3, <1>4 DEF Finished
<1>6. intake' \in Intake /\ intake'.status = s /\ intake'.queue = "finance_intake" /\ intake'.quarantine = g
  <2> DEFINE i1 == [intake EXCEPT !.status = s]
             i2 == [i1 EXCEPT !.queue = "finance_intake"]
             i3 == [i2 EXCEPT !.quarantine = g]
  <2>1. i1 \in Intake /\ i1.status = s BY <1>1 DEF InboxTablesOK, Intake, IntakeStatuses
  <2>2. intake' = i3 BY <1>1, <1>5 DEF InboxTablesOK, Intake
  <2> HIDE DEF i1
  <2>3. i2 \in Intake /\ i2.status = i1.status /\ i2.queue = "finance_intake" BY <2>1 DEF Intake, Queues
  <2> HIDE DEF i2
  <2>4. i3 \in Intake /\ i3.status = i2.status /\ i3.queue = i2.queue /\ i3.quarantine = g BY <2>3 DEF Intake
  <2> QED BY <2>1, <2>2, <2>3, <2>4
<1>7. run'[c] = NoRun /\ \A d \in Controllers \ {c} : run'[d] = run[d] BY <1>1, <1>5 DEF InboxTablesOK
<1>8. InboxTablesOK' BY <1>1, <1>5, <1>6 DEF InboxTablesOK
<1>9. RunsAlone' BY <1>1, <1>3, <1>5, <1>7, InboxShapes DEF RunsAlone
<1>10. Analysed'
  <2>1. ~slipped => h.read = intake BY <1>1, <1>3, InboxShapes DEF RunsAlone
  <2>2. ~slipped => g = f BY <1>4, <2>1
  <2> QED BY <1>2, <1>5, <1>6, <2>2 DEF Analysed
<1>11. TrailLeads' BY <1>5 DEF TrailLeads
<1> QED BY <1>5, <1>8, <1>9, <1>10, <1>11 DEF InboxInv

\* A manager begins a retry, or looks at the queue.
LEMMA BeginRetryStep ==
  ASSUME InboxInv, NEW m \in Managers, BeginRetry(m) \/ ShowQueue(m)
  PROVE  InboxInv'
<1>1. CASE BeginRetry(m)
  <2> DEFINE h == [at |-> "retry", read |-> intake]
  <2>1. h \in Retries BY <1>1 DEF BeginRetry, MayRetry, InboxInv, InboxTablesOK, Retries
  <2>2. retry' = [retry EXCEPT ![m] = h] BY <1>1 DEF BeginRetry
  <2> HIDE DEF h
  <2> QED BY <1>1, <2>1, <2>2 DEF BeginRetry, InboxInv, InboxTablesOK, RunsAlone, Analysed, TrailLeads
<1>2. CASE ShowQueue(m)
  BY <1>2 DEF ShowQueue, InboxInv, InboxTablesOK, RunsAlone, Analysed, TrailLeads
<1> QED BY <1>1, <1>2

\* A retry is committed: it has slipped, or nobody works on the intake.
LEMMA CommitRetryStep ==
  ASSUME InboxInv, NEW m \in Managers, CommitRetry(m)
  PROVE  InboxInv'
<1>1. InboxTablesOK /\ RunsAlone BY DEF InboxInv
<1>2. PICK h \in Retries : h = retry[m] BY <1>1 DEF CommitRetry, InboxTablesOK
<1>3. PICK q \in Queues \cup {"none"} : q = IF h.read.queue = "none" THEN intake.queue ELSE "none"
  BY <1>1 DEF InboxTablesOK, Intake
<1>4. PICK g \in BOOLEAN : g = IF h.read.quarantine THEN FALSE ELSE intake.quarantine
  BY <1>1 DEF InboxTablesOK, Intake
<1>5. /\ intake' = [intake EXCEPT !.status = "pending", !.queue = q, !.quarantine = g]
      /\ routings' = <<>> /\ slipped' = (slipped \/ intake # h.read) /\ retry' = [retry EXCEPT ![m] = NoRetry]
      /\ UNCHANGED <<photo, run, shown, external>>
  BY <1>2, <1>3, <1>4 DEF CommitRetry
<1>6. intake' \in Intake /\ intake'.status = "pending"
  <2> DEFINE i1 == [intake EXCEPT !.status = "pending"]
             i2 == [i1 EXCEPT !.queue = q]
             i3 == [i2 EXCEPT !.quarantine = g]
  <2>1. i1 \in Intake /\ i1.status = "pending" BY <1>1 DEF InboxTablesOK, Intake, IntakeStatuses
  <2>2. intake' = i3 BY <1>1, <1>5 DEF InboxTablesOK, Intake
  <2> HIDE DEF i1
  <2>3. i2 \in Intake /\ i2.status = i1.status BY <2>1 DEF Intake
  <2> HIDE DEF i2
  <2>4. i3 \in Intake /\ i3.status = i2.status BY <2>3 DEF Intake
  <2> QED BY <2>1, <2>2, <2>3, <2>4
<1>7. InboxTablesOK' BY <1>1, <1>5, <1>6 DEF InboxTablesOK
<1>8. RunsAlone'
  <2> SUFFICES ASSUME ~slipped', NEW c \in Controllers, run[c] # NoRun PROVE FALSE
    BY <1>5 DEF RunsAlone
  <2>1. ~slipped /\ intake = h.read BY <1>5
  <2>2. intake.status \in {"failed", "needs_review"} BY <2>1 DEF Retries
  <2> QED BY <1>1, <2>1, <2>2 DEF RunsAlone
<1>9. Analysed' /\ TrailLeads' BY <1>5, <1>6 DEF Analysed, TrailLeads
<1> QED BY <1>5, <1>7, <1>8, <1>9 DEF InboxInv

\* A queue is changed from where its reviewer saw it.
LEMMA ChangeQueueStep ==
  ASSUME InboxInv, NEW m \in Managers, NEW q \in Queues, ChangeQueue(m, q)
  PROVE  InboxInv'
<1>1. InboxTablesOK /\ RunsAlone /\ Analysed /\ TrailLeads BY DEF InboxInv
<1> DEFINE change == [from |-> shown[m], to |-> q]
<1>2. /\ intake.status \in {"routed", "needs_review", "failed"} /\ shown[m] \in Queues /\ intake.queue = shown[m]
      /\ intake' = [intake EXCEPT !.queue = q] /\ routings' = Append(routings, change)
      /\ UNCHANGED <<photo, run, retry, shown, external, slipped>>
  BY DEF ChangeQueue, StillThere
<1>3. change \in Routings /\ change.from = intake.queue /\ change.to = q BY <1>2 DEF Routings
<1> HIDE DEF change
<1>4. /\ intake' \in Intake /\ intake'.status = intake.status /\ intake'.queue = q
      /\ intake'.quarantine = intake.quarantine
  BY <1>1, <1>2 DEF InboxTablesOK, Intake
<1>5. routings \in Seq(Routings) BY <1>1 DEF InboxTablesOK
<1>6. /\ routings' \in Seq(Routings) /\ Len(routings') = Len(routings) + 1 /\ Len(routings) \in Nat
      /\ routings'[Len(routings) + 1] = change /\ \A i \in 1..Len(routings) : routings'[i] = routings[i]
  BY <1>2, <1>3, <1>5
<1>7. InboxTablesOK' BY <1>1, <1>2, <1>4, <1>6 DEF InboxTablesOK
<1>8. RunsAlone' BY <1>1, <1>2 DEF RunsAlone
<1>9. Analysed' BY <1>1, <1>2, <1>4 DEF Analysed, Queues
<1>10. TrailLeads'
  <2>1. routings'[Len(routings')].to = intake'.queue BY <1>3, <1>4, <1>6
  <2> SUFFICES ASSUME NEW i \in 1..(Len(routings') - 1) PROVE routings'[i + 1].from = routings'[i].to
    BY <2>1 DEF TrailLeads
  <2>2. i \in 1..Len(routings) /\ routings'[i] = routings[i] BY <1>6
  <2>3. CASE i = Len(routings)
    <3>1. routings # <<>> BY <1>5, <2>2, <2>3
    <3> QED BY <1>1, <1>3, <1>6, <2>2, <2>3, <3>1 DEF TrailLeads
  <2>4. CASE i # Len(routings)
    <3>1. i \in 1..(Len(routings) - 1) /\ i + 1 \in 1..Len(routings) BY <1>6, <2>2, <2>4
    <3>2. routings'[i + 1] = routings[i + 1] BY <1>6, <3>1
    <3> QED BY <1>1, <2>2, <3>1, <3>2 DEF TrailLeads
  <2> QED BY <2>3, <2>4
<1> QED BY <1>2, <1>7, <1>8, <1>9, <1>10 DEF InboxInv

\* Every step of the inbox.
LEMMA InboxStep == InboxInv /\ [InboxNext]_inboxVars => InboxInv'
<1> SUFFICES ASSUME InboxInv, [InboxNext]_inboxVars PROVE InboxInv'
  OBVIOUS
<1>1. ASSUME NEW c \in Controllers, GiveUp(c) \/ ProcessingFails(c) \/ RunDies(c) PROVE InboxInv'
  BY <1>1, RunEnds DEF GiveUp, ProcessingFails, RunDies
<1>2. CASE UNCHANGED inboxVars
  BY <1>2 DEF inboxVars, InboxInv, InboxTablesOK, RunsAlone, Analysed, TrailLeads
<1> QED BY <1>1, <1>2, ClaimStep, ReadPhotoStep, FinishedStep, BeginRetryStep, CommitRetryStep, ChangeQueueStep
        DEF InboxNext

\* A photo that nobody has looked at.
LEMMA InboxStart == InboxInit => InboxInv
<1> SUFFICES ASSUME InboxInit PROVE InboxInv
  OBVIOUS
<1> USE DEF InboxInit
<1>1. intake \in Intake BY BackupsAssumption DEF Intake, IntakeStatuses
<1>2. <<>> \in Seq(Routings) OBVIOUS
<1>3. InboxTablesOK BY <1>1, <1>2 DEF InboxTablesOK
<1> QED BY <1>3 DEF InboxInv, RunsAlone, Analysed, TrailLeads

\* What holds of the inbox by its invariant.
LEMMA InboxKept == InboxInv => InboxIsOrderly
<1> SUFFICES ASSUME InboxInv PROVE InboxIsOrderly
  OBVIOUS
<1>1. InboxTablesOK /\ RunsAlone /\ Analysed /\ TrailLeads BY DEF InboxInv
<1>2. InboxTypeOK
  <2>1. \A i \in DOMAIN routings : routings[i] \in Routings BY <1>1 DEF InboxTablesOK
  <2> QED BY <1>1, <2>1 DEF InboxTypeOK, InboxTablesOK, Analysed, Routings
<1>3. OneControllerAtWork
  <2> SUFFICES ASSUME ~slipped PROVE Cardinality({c \in Controllers : run[c] # NoRun}) <= 1
    BY DEF OneControllerAtWork
  <2>1. CASE \A c \in Controllers : run[c] = NoRun
    <3>1. {c \in Controllers : run[c] # NoRun} = {} BY <2>1
    <3> QED BY <3>1, FS_EmptySet
  <2>2. ASSUME NEW c \in Controllers, run[c] # NoRun PROVE Cardinality({d \in Controllers : run[d] # NoRun}) <= 1
    <3>1. {d \in Controllers : run[d] # NoRun} = {c} BY <1>1, <2>2 DEF RunsAlone
    <3>2. Cardinality({c}) = 1 BY FS_Singleton
    <3> QED BY <3>1, <3>2
  <2> QED BY <2>1, <2>2
<1>4. SensitiveStaysLocal BY <1>1 DEF InboxInv, Analysed, SensitiveStaysLocal
<1>5. RoutingsChain BY <1>1 DEF TrailLeads, RoutingsChain, Last
<1> QED BY <1>2, <1>3, <1>4, <1>5 DEF InboxIsOrderly

\* What backups.py keeps of an intake and of its trail.
THEOREM InboxInvariant == InboxSpec => []InboxInv
<1> QED BY InboxStep, InboxStart, PTL DEF InboxSpec

-----------------------------------------------------------------------------
(* The inbox of improvements: the inductive invariant.                     *)

Verdicts == [status: {"new", "closed"}, note: {"none", "fixed", "later"}, by: Reviewing \cup {"none"}]
ImprovementRow ==
  [exists: BOOLEAN, count: Nat, seen: 0..MaxReports,
   status: {"new", "closed"}, note: {"none", "fixed", "later"}, by: Reviewing \cup {"none"}]

Waiting == [at: {"insert", "time"}, group: Groups]
Timed == [at: {"update", "commit"}, group: Groups, time: 1..MaxReports]
Reviews == [at: {"save"}, group: Groups, read: ImprovementRow, new: Verdicts]

\* The tables, the transactions and what managers have opened.
HelpTablesOK ==
  /\ improvement \in [Groups -> ImprovementRow] /\ evidence \in [Groups -> SUBSET (1..reports)]
  /\ decided \in [Groups -> Verdicts] /\ holder \in [Groups -> Reporters \cup {NoHolder}]
  /\ reporting \in [Reporters -> {Idle} \cup Waiting \cup Timed]
  /\ opened \in [Reviewing -> {Idle} \cup Reviews]

\* The time of a report that is under way was taken by no other report.
FreshTimes ==
  \A r \in Reporters : reporting[r] \in Timed =>
    /\ reporting[r].time <= reports
    /\ \A g \in Groups : reporting[r].time \notin evidence[g]
    /\ \A s \in Reporters \ {r} : reporting[s] \in Timed => reporting[s].time # reporting[r].time

HelpInv == HelpTablesOK /\ FreshTimes /\ HelpHolds

-----------------------------------------------------------------------------
\* No state of a transaction is taken for another.
LEMMA ReportShapes ==
  /\ Idle \notin Waiting /\ Idle \notin Timed /\ \A w \in Waiting : w \notin Timed
  /\ \A h \in Timed : h.at \in {"update", "commit"} /\ h.group \in Groups /\ h.time \in 1..MaxReports
  /\ \A w \in Waiting : w.at \in {"insert", "time"} /\ w.group \in Groups
  /\ Idle \notin Reviews
<1>1. \A w \in Waiting : w.at \in {"insert", "time"} /\ w.group \in Groups BY DEF Waiting
<1>2. \A h \in Timed : h.at \in {"update", "commit"} /\ h.group \in Groups /\ h.time \in 1..MaxReports
  BY DEF Timed
<1>3. \A h \in Reviews : h.at = "save" BY DEF Reviews
<1>4. Idle.at = "idle" BY DEF Idle
<1> QED BY <1>1, <1>2, <1>3, <1>4

\* A transaction goes to a state without a time of its own, and nothing is counted.
LEMMA ReportMoves ==
  ASSUME HelpInv, NEW r \in Reporters, NEW state \in {Idle} \cup Waiting \cup Timed,
         Reports(r, state), holder' \in [Groups -> Reporters \cup {NoHolder}],
         state \in Timed => reporting[r] \in Timed /\ state.time = reporting[r].time,
         UNCHANGED <<improvement, evidence, opened, reports, reviews, receipts, overtook, decided, rivals>>
  PROVE  HelpInv'
<1>1. reporting' \in [Reporters -> {Idle} \cup Waiting \cup Timed] /\ reporting'[r] = state
      /\ \A s \in Reporters \ {r} : reporting'[s] = reporting[s]
  BY DEF Reports, HelpInv, HelpTablesOK
<1>2. HelpTablesOK' BY <1>1 DEF HelpInv, HelpTablesOK
<1>3. FreshTimes' BY <1>1 DEF HelpInv, FreshTimes
<1>4. HelpHolds'
  BY DEF HelpInv, HelpHolds, HelpTypeOK, EvidenceCounted, SeenIsNewest, LastReviewStands, Verdict
<1> QED BY <1>2, <1>3, <1>4 DEF HelpInv

\* The group is read, its key inserted or its row waited for, or all is lost.
LEMMA ReportingStep ==
  ASSUME HelpInv, NEW r \in Reporters,
         (\E g \in Groups : ReadGroup(r, g)) \/ InsertGroup(r) \/ UpdateGroup(r) \/ ReportLost(r)
  PROVE  HelpInv'
<1>1. reporting[r] \in {Idle} \cup Waiting \cup Timed /\ holder \in [Groups -> Reporters \cup {NoHolder}]
  BY DEF HelpInv, HelpTablesOK
<1>2. ASSUME NEW g \in Groups, ReadGroup(r, g) PROVE HelpInv'
  <2>1. PICK a \in {"insert", "time"} : Reports(r, [at |-> a, group |-> g]) BY <1>2 DEF ReadGroup
  <2>2. [at |-> a, group |-> g] \in Waiting BY DEF Waiting
  <2> QED BY <1>1, <1>2, <2>1, <2>2, ReportMoves, ReportShapes DEF ReadGroup
<1>3. CASE InsertGroup(r)
  <2>1. reporting[r] \in Waiting BY <1>1, <1>3, ReportShapes DEF InsertGroup, Reporting, Idle
  <2>2. PICK g \in Groups : g = reporting[r].group BY <2>1, ReportShapes
  <2>3. [at |-> "time", group |-> g] \in Waiting BY DEF Waiting
  <2>4. holder' \in [Groups -> Reporters \cup {NoHolder}] BY <1>1, <1>3, <2>2 DEF InsertGroup, Holds
  <2> QED BY <1>3, <2>2, <2>3, <2>4, ReportMoves, ReportShapes DEF InsertGroup
<1>4. CASE UpdateGroup(r)
  <2>1. reporting[r] \in Timed BY <1>1, <1>4, ReportShapes DEF UpdateGroup, Reporting, Idle
  <2>2. PICK h \in Timed : h = reporting[r] BY <2>1
  <2>3. [h EXCEPT !.at = "commit"] \in Timed /\ [h EXCEPT !.at = "commit"].time = h.time BY DEF Timed
  <2>4. holder' \in [Groups -> Reporters \cup {NoHolder}]
    BY <1>1, <1>4, <2>1, ReportShapes DEF UpdateGroup, Holds
  <2> QED BY <1>4, <2>2, <2>3, <2>4, ReportMoves DEF UpdateGroup
<1>5. CASE ReportLost(r)
  <2>1. holder' \in [Groups -> Reporters \cup {NoHolder}] BY <1>1, <1>5 DEF ReportLost
  <2> QED BY <1>5, <2>1, ReportMoves, ReportShapes DEF ReportLost
<1> QED BY <1>2, <1>3, <1>4, <1>5

\* A report takes a time that is nobody's.
LEMMA TakeTimeStep ==
  ASSUME HelpInv, NEW r \in Reporters, TakeTime(r)
  PROVE  HelpInv'
<1>1. /\ reporting \in [Reporters -> {Idle} \cup Waiting \cup Timed] /\ HelpTypeOK
      /\ evidence \in [Groups -> SUBSET (1..reports)] /\ FreshTimes
  BY DEF HelpInv, HelpTablesOK, HelpHolds
<1>2. PICK g \in Groups : g = reporting[r].group
  <2>1. reporting[r] \in Waiting BY <1>1, ReportShapes DEF TakeTime, Reporting, Idle
  <2> QED BY <2>1, ReportShapes
<1> DEFINE new == [at |-> "update", group |-> g, time |-> reports + 1]
<1>3. /\ reports \in Nat /\ reports < MaxReports /\ reports' = reports + 1 /\ Reports(r, new)
      /\ UNCHANGED <<improvement, evidence, holder, opened, reviews, receipts, overtook, decided, rivals>>
  BY <1>1, <1>2 DEF TakeTime, HelpTypeOK
<1>4. new \in Timed /\ new.time = reports + 1 BY <1>3, HelpAssumption DEF Timed
<1> HIDE DEF new
<1>5. reporting' \in [Reporters -> {Idle} \cup Waiting \cup Timed] /\ reporting'[r] = new
      /\ \A s \in Reporters \ {r} : reporting'[s] = reporting[s]
  BY <1>1, <1>3, <1>4 DEF Reports
<1>6. 1..reports \subseteq 1..reports' BY <1>3
<1>7. HelpTablesOK' BY <1>1, <1>3, <1>5, <1>6 DEF HelpInv, HelpTablesOK
<1>8. \A g2 \in Groups : new.time \notin evidence'[g2]
  <2>1. \A t \in 1..reports : t # reports + 1 BY <1>3
  <2> QED BY <1>1, <1>3, <1>4, <2>1
<1>9. \A s \in Reporters \ {r} : reporting[s] \in Timed => reporting[s].time # new.time /\ reporting[s].time <= reports'
  <2> SUFFICES ASSUME NEW s \in Reporters \ {r}, reporting[s] \in Timed
               PROVE  reporting[s].time # new.time /\ reporting[s].time <= reports'
    OBVIOUS
  <2>1. reporting[s].time \in Nat /\ reporting[s].time <= reports BY <1>1, ReportShapes DEF FreshTimes
  <2> QED BY <1>3, <1>4, <2>1
<1>10. FreshTimes' BY <1>1, <1>3, <1>4, <1>5, <1>8, <1>9 DEF FreshTimes
<1>11. HelpHolds'
  BY <1>3, HelpAssumption DEF HelpInv, HelpHolds, HelpTypeOK, EvidenceCounted, SeenIsNewest, LastReviewStands, Verdict
<1> QED BY <1>7, <1>10, <1>11 DEF HelpInv

\* What a row is after its report: it has one more, of this time.
LEMMA EvidencedRow ==
  ASSUME NEW row \in ImprovementRow, NEW h \in Timed
  PROVE  LET new == Evidenced(row, h) IN
         /\ new \in ImprovementRow /\ new.exists = TRUE /\ new.count = row.count + 1
         /\ new.seen = h.time /\ Verdict(new) = Verdict(row)
<1> DEFINE n1 == [row EXCEPT !.exists = TRUE]
           n2 == [n1 EXCEPT !.count = @ + 1]
           n3 == [n2 EXCEPT !.seen = h.time]
<1>1. h.time \in 0..MaxReports BY DEF Timed
<1>2. n1 \in ImprovementRow /\ n1.exists = TRUE /\ n1.count = row.count /\ Verdict(n1) = Verdict(row)
  BY DEF ImprovementRow, Verdict
<1>3. n3 = Evidenced(row, h) BY DEF Evidenced, ImprovementRow
<1> HIDE DEF n1
<1>4. n2 \in ImprovementRow /\ n2.exists = n1.exists /\ n2.count = n1.count + 1 /\ Verdict(n2) = Verdict(n1)
  BY <1>2 DEF ImprovementRow, Verdict
<1> HIDE DEF n2
<1>5. n3 \in ImprovementRow /\ n3.exists = n2.exists /\ n3.count = n2.count /\ n3.seen = h.time
      /\ Verdict(n3) = Verdict(n2)
  BY <1>1, <1>4 DEF ImprovementRow, Verdict
<1> QED BY <1>2, <1>3, <1>4, <1>5

\* A report is committed: its group counts it, and saw it last unless it was late.
LEMMA CommitReportStep ==
  ASSUME HelpInv, NEW r \in Reporters, CommitReport(r)
  PROVE  HelpInv'
<1>1. HelpTablesOK /\ FreshTimes /\ HelpTypeOK /\ EvidenceCounted /\ SeenIsNewest /\ LastReviewStands
  BY DEF HelpInv, HelpHolds
<1>2. PICK h \in Timed : h = reporting[r]
  <2>1. reporting[r] \in Timed BY <1>1, ReportShapes DEF CommitReport, Reporting, Idle, HelpTablesOK
  <2> QED BY <2>1
<1> PICK g : g = h.group OBVIOUS
<1> PICK t : t = h.time OBVIOUS
<1> PICK new : new = Evidenced(improvement[g], h) OBVIOUS
<1>3. /\ g \in Groups /\ t \in 1..MaxReports /\ t <= reports /\ reports \in Nat /\ \A g2 \in Groups : t \notin evidence[g2]
      /\ \A s \in Reporters \ {r} : reporting[s] \in Timed => reporting[s].time # t
  BY <1>1, <1>2, ReportShapes DEF FreshTimes, HelpTypeOK
<1>4. /\ improvement' = [improvement EXCEPT ![g] = new] /\ evidence' = [evidence EXCEPT ![g] = @ \cup {t}]
      /\ receipts' = receipts \cup {<<g, t>>}
      /\ overtook' = (IF improvement[g].seen > t THEN overtook \cup {g} ELSE overtook)
      /\ holder' = [holder EXCEPT ![g] = NoHolder] /\ reporting' = [reporting EXCEPT ![r] = Idle]
      /\ UNCHANGED <<opened, reports, reviews, decided, rivals>>
  BY <1>2 DEF CommitReport, Holds, Reports, HelpTablesOK
<1>5. new \in ImprovementRow /\ new.exists = TRUE /\ new.count = improvement[g].count + 1 /\ new.seen = t
      /\ Verdict(new) = Verdict(improvement[g])
  BY <1>1, <1>3, EvidencedRow DEF HelpTablesOK
<1>6. t \in 1..reports BY <1>3
<1>7. HelpTablesOK' BY <1>1, <1>3, <1>4, <1>5, <1>6 DEF HelpTablesOK
<1>8. /\ reporting'[r] = Idle /\ \A s \in Reporters \ {r} : reporting'[s] = reporting[s]
      /\ evidence'[g] = evidence[g] \cup {t} /\ \A g2 \in Groups \ {g} : evidence'[g2] = evidence[g2]
      /\ improvement'[g] = new /\ \A g2 \in Groups \ {g} : improvement'[g2] = improvement[g2]
  BY <1>1, <1>3, <1>4 DEF HelpTablesOK
<1>9. FreshTimes'
  <2> SUFFICES ASSUME NEW s \in Reporters, reporting'[s] \in Timed
               PROVE  /\ reporting'[s].time <= reports' /\ \A g2 \in Groups : reporting'[s].time \notin evidence'[g2]
                      /\ \A q \in Reporters \ {s} : reporting'[q] \in Timed => reporting'[q].time # reporting'[s].time
    BY DEF FreshTimes
  <2>1. s # r /\ reporting'[s] = reporting[s] BY <1>8, ReportShapes
  <2>2. \A q \in Reporters : reporting'[q] \in Timed => reporting'[q] = reporting[q] BY <1>8, ReportShapes
  <2> QED BY <1>1, <1>3, <1>4, <1>8, <2>1, <2>2 DEF FreshTimes
<1>10. EvidenceCounted'
  <2>1. IsFiniteSet(evidence[g]) /\ Cardinality(evidence[g] \cup {t}) = Cardinality(evidence[g]) + 1
    <3>1. IsFiniteSet(1..reports) BY <1>3, FS_Interval
    <3>2. IsFiniteSet(evidence[g]) BY <1>1, <1>3, <3>1, FS_Subset DEF HelpTablesOK
    <3> QED BY <1>3, <3>2, FS_AddElement
  <2>2. \A g2 \in Groups : improvement'[g2].count = Cardinality(evidence'[g2])
    BY <1>1, <1>5, <1>8, <2>1, ZenonT(40) DEF EvidenceCounted
  <2>3. \A g2 \in Groups : improvement'[g2].exists <=> evidence'[g2] # {}
    BY <1>1, <1>5, <1>8 DEF EvidenceCounted
  <2>4. \A g2 \in Groups, u \in 1..MaxReports : <<g2, u>> \in receipts' <=> u \in evidence'[g2]
    BY <1>1, <1>4, <1>8, ZenonT(40) DEF EvidenceCounted
  <2> QED BY <2>2, <2>3, <2>4 DEF EvidenceCounted
<1>11. SeenIsNewest'
  <2> SUFFICES ASSUME NEW g2 \in Groups \ overtook', NEW u \in evidence'[g2]
               PROVE  improvement'[g2].seen >= u
    BY DEF SeenIsNewest
  <2>1. g2 \notin overtook BY <1>4
  <2>2. CASE g2 # g BY <1>1, <1>8, <2>1, <2>2 DEF SeenIsNewest
  <2>3. CASE g2 = g /\ u = t BY <1>3, <1>5, <1>8, <2>3
  <2>4. CASE g2 = g /\ u \in evidence[g]
    <3>1. improvement[g].seen \in Nat BY <1>1, <1>3 DEF HelpTablesOK, ImprovementRow
    <3>2. u \in Nat BY <1>1, <1>3, <2>4 DEF HelpTablesOK
    <3>3. ~(improvement[g].seen > t) BY <1>4, <2>4
    <3>4. improvement[g].seen >= u BY <1>1, <2>1, <2>4 DEF SeenIsNewest
    <3> QED BY <1>3, <1>5, <1>8, <2>4, <3>1, <3>2, <3>3, <3>4
  <2> QED BY <1>8, <2>2, <2>3, <2>4
<1>12. LastReviewStands' BY <1>1, <1>4, <1>5, <1>8 DEF LastReviewStands
<1>13. HelpTypeOK' BY <1>4, <1>7, <1>1 DEF HelpTypeOK, HelpTablesOK
<1> QED BY <1>7, <1>9, <1>10, <1>11, <1>12, <1>13 DEF HelpInv, HelpHolds

\* A manager opens a group.
LEMMA OpenReviewStep ==
  ASSUME HelpInv, NEW m \in Reviewing, NEW g \in Groups, NEW s \in {"new", "closed"},
         NEW n \in {"fixed", "later"}, OpenReview(m, g, s, n)
  PROVE  HelpInv'
<1> DEFINE h == [at |-> "save", group |-> g, read |-> improvement[g], new |-> [status |-> s, note |-> n, by |-> m]]
<1>1. h \in Reviews BY DEF HelpInv, HelpTablesOK, Reviews, Verdicts
<1>2. opened' = [opened EXCEPT ![m] = h] BY DEF OpenReview
<1> HIDE DEF h
<1>3. opened' \in [Reviewing -> {Idle} \cup Reviews] BY <1>1, <1>2 DEF HelpInv, HelpTablesOK
<1>4. HelpTablesOK' /\ FreshTimes' BY <1>3 DEF HelpInv, HelpTablesOK, FreshTimes, OpenReview
<1>5. HelpTypeOK' BY HelpAssumption DEF HelpInv, HelpHolds, HelpTypeOK, OpenReview
<1>6. EvidenceCounted' /\ SeenIsNewest' /\ LastReviewStands'
  BY DEF HelpInv, HelpHolds, EvidenceCounted, SeenIsNewest, LastReviewStands, Verdict, OpenReview
<1> QED BY <1>4, <1>5, <1>6 DEF HelpInv, HelpHolds

\* What a review makes of a row: its decision, if the row says what was read.
LEMMA ReviewedRow ==
  ASSUME NEW row \in ImprovementRow, NEW h \in Reviews
  PROVE  LET new == Reviewed(row, h) IN
         /\ new \in ImprovementRow /\ new.exists = row.exists /\ new.count = row.count /\ new.seen = row.seen
         /\ Verdict(row) = Verdict(h.read) => Verdict(new) = h.new
<1> DEFINE s == IF h.new.status = h.read.status THEN row.status ELSE h.new.status
           n == IF h.new.note = h.read.note THEN row.note ELSE h.new.note
           b == IF h.new.by = h.read.by THEN row.by ELSE h.new.by
           n1 == [row EXCEPT !.status = s]
           n2 == [n1 EXCEPT !.note = n]
           n3 == [n2 EXCEPT !.by = b]
<1>1. h.read \in ImprovementRow /\ h.new \in Verdicts BY DEF Reviews
<1>2. /\ s \in {"new", "closed"} /\ n \in {"none", "fixed", "later"} /\ b \in Reviewing \cup {"none"}
      /\ (row.status = h.read.status /\ row.note = h.read.note /\ row.by = h.read.by) =>
           s = h.new.status /\ n = h.new.note /\ b = h.new.by
  BY <1>1 DEF Verdicts, ImprovementRow
<1>3. n3 = Reviewed(row, h) BY DEF Reviewed, ImprovementRow
<1> HIDE DEF s, n, b
<1>4. n1 \in ImprovementRow /\ n1.exists = row.exists /\ n1.count = row.count /\ n1.seen = row.seen /\ n1.status = s
  BY <1>2 DEF ImprovementRow
<1> HIDE DEF n1
<1>5. n2 \in ImprovementRow /\ n2.exists = n1.exists /\ n2.count = n1.count /\ n2.seen = n1.seen
      /\ n2.status = n1.status /\ n2.note = n
  BY <1>2, <1>4 DEF ImprovementRow
<1> HIDE DEF n2
<1>6. n3 \in ImprovementRow /\ n3.exists = n2.exists /\ n3.count = n2.count /\ n3.seen = n2.seen
      /\ n3.status = n2.status /\ n3.note = n2.note /\ n3.by = b
  BY <1>2, <1>5 DEF ImprovementRow
<1> HIDE DEF n3
<1>7. Verdict(row) = Verdict(h.read) => row.status = h.read.status /\ row.note = h.read.note /\ row.by = h.read.by
  BY DEF Verdict
<1>8. (s = h.new.status /\ n = h.new.note /\ b = h.new.by) => Verdict(n3) = h.new
  BY <1>1, <1>4, <1>5, <1>6 DEF Verdict, Verdicts
<1> QED BY <1>2, <1>3, <1>4, <1>5, <1>6, <1>7, <1>8

\* A review is saved.
LEMMA SaveReviewStep ==
  ASSUME HelpInv, NEW m \in Reviewing, SaveReview(m)
  PROVE  HelpInv'
<1>1. HelpTablesOK /\ FreshTimes /\ HelpTypeOK /\ EvidenceCounted /\ SeenIsNewest /\ LastReviewStands
  BY DEF HelpInv, HelpHolds
<1>2. PICK h \in Reviews : h = opened[m] BY <1>1 DEF SaveReview, HelpTablesOK
<1>3. PICK g \in Groups : g = h.group BY DEF Reviews
<1> PICK new : new = Reviewed(improvement[g], h) OBVIOUS
<1>4. /\ improvement' = [improvement EXCEPT ![g] = new] /\ decided' = [decided EXCEPT ![g] = h.new]
      /\ rivals' = (IF Verdict(improvement[g]) # Verdict(h.read) THEN rivals \cup {g} ELSE rivals)
      /\ opened' = [opened EXCEPT ![m] = Idle]
      /\ UNCHANGED <<evidence, holder, reporting, reports, reviews, receipts, overtook>>
  BY <1>2, <1>3 DEF SaveReview
<1>5. /\ new \in ImprovementRow /\ new.exists = improvement[g].exists /\ new.count = improvement[g].count
      /\ new.seen = improvement[g].seen
      /\ Verdict(improvement[g]) = Verdict(h.read) => Verdict(new) = h.new
  BY <1>1, ReviewedRow DEF HelpTablesOK
<1>6. h.new \in Verdicts BY DEF Reviews
<1>7. HelpTablesOK' BY <1>1, <1>4, <1>5, <1>6 DEF HelpTablesOK
<1>8. /\ improvement'[g] = new /\ \A g2 \in Groups \ {g} : improvement'[g2] = improvement[g2]
      /\ decided'[g] = h.new /\ \A g2 \in Groups \ {g} : decided'[g2] = decided[g2]
  BY <1>1, <1>4 DEF HelpTablesOK
<1>9. FreshTimes' /\ HelpTypeOK' BY <1>1, <1>4 DEF FreshTimes, HelpTypeOK
<1>10. EvidenceCounted' BY <1>1, <1>4, <1>5, <1>8 DEF EvidenceCounted
<1>11. SeenIsNewest'
  <2>1. \A g2 \in Groups : improvement'[g2].seen = improvement[g2].seen BY <1>5, <1>8
  <2> QED BY <1>1, <1>4, <2>1 DEF SeenIsNewest
<1>12. LastReviewStands' BY <1>1, <1>4, <1>5, <1>8 DEF LastReviewStands
<1> QED BY <1>7, <1>9, <1>10, <1>11, <1>12 DEF HelpInv, HelpHolds

\* No report, no review.
LEMMA HelpStart == HelpInit => HelpInv
<1> SUFFICES ASSUME HelpInit PROVE HelpInv
  OBVIOUS
<1> USE DEF HelpInit
<1>1. NoGroup \in ImprovementRow BY HelpAssumption DEF NoGroup, ImprovementRow
<1>2. Verdict(NoGroup) \in Verdicts BY DEF Verdict, NoGroup, Verdicts
<1>3. HelpTablesOK BY <1>1, <1>2 DEF HelpTablesOK
<1>4. FreshTimes BY ReportShapes DEF FreshTimes
<1>5. EvidenceCounted BY FS_EmptySet DEF EvidenceCounted, NoGroup
<1>6. HelpTypeOK BY HelpAssumption DEF HelpTypeOK
<1>7. SeenIsNewest /\ LastReviewStands BY DEF SeenIsNewest, LastReviewStands
<1> QED BY <1>3, <1>4, <1>5, <1>6, <1>7 DEF HelpInv, HelpHolds

\* What help_feedback.py keeps of its groups, their reports and their reviews.
THEOREM HelpInvariant == HelpSpec => []HelpInv
<1>1. HelpInv /\ [HelpNext]_helpVars => HelpInv'
  <2> SUFFICES ASSUME HelpInv, [HelpNext]_helpVars PROVE HelpInv'
    OBVIOUS
  <2>1. CASE UNCHANGED helpVars
    BY <2>1 DEF helpVars, HelpInv, HelpTablesOK, FreshTimes, HelpHolds, HelpTypeOK, EvidenceCounted,
                SeenIsNewest, LastReviewStands, Verdict
  <2> QED BY <2>1, ReportingStep, TakeTimeStep, CommitReportStep, OpenReviewStep, SaveReviewStep DEF HelpNext
<1> QED BY <1>1, HelpStart, PTL DEF HelpSpec

-----------------------------------------------------------------------------
(* Drafts: the inductive invariant.                                        *)

Known == 0..Len(edits)
Work == 1..Len(edits)
DraftRow == [status: {"active", "closed"}, revision: Nat, payload: Nat]
SaveCalls == [at: {"sent"}, id: Nat, revision: Nat, payload: Nat]
Answers == [result: {"saved"}, id: Nat, revision: Nat] \cup [result: {"conflict", "offline"}]
CallStates == {NotCalling} \cup SaveCalls \cup [at: {"answered"}, answer: Answers]
ClosingStates ==
  {NotCalling} \cup [at: {"waiting"}, behind: Nat] \cup [at: {"sent"}, revision: Nat]
    \cup [at: {"answered"}, result: {"saved", "conflict", "offline"}]
Pages == [form: Nat, ready: BOOLEAN, timer: BOOLEAN, chain: Seq(Nat), call: CallStates,
          closing: ClosingStates, id: Nat, revision: Nat, url: Nat,
          status: {"idle", "loading", "saved", "offline", "recovery", "saving", "conflict"}]

\* An edit is made from earlier ones, and from all that those were made from.
LineageOK ==
  /\ edits \in Seq(SUBSET Nat)
  /\ \A n \in Work : edits[n] \subseteq 0..(n - 1) /\ \A m \in edits[n] : MadeFrom(m) \subseteq edits[n]

\* A page that knows the revision of a draft has seen what it says.
Sees(id, revision, n) ==
  id \in DOMAIN drafts =>
    /\ revision <= drafts[id].revision
    /\ Unchanged(id, revision) => drafts[id].payload \in MadeFrom(n)

DraftTablesOK ==
  /\ page \in [Tabs -> Pages] /\ buffer \in [Profiles -> Known] /\ drafts \in Seq(DraftRow)
  /\ \A d \in DOMAIN drafts : drafts[d].revision > 0 /\ drafts[d].payload \in saved
  /\ saved \subseteq Work /\ last \in [Tabs -> Known] /\ trampled = {}

\* The saves of a page's chain were made from each other, and its form from them.
ChainOK(p) ==
  /\ p.form \in Known /\ \A i \in DOMAIN p.chain : p.chain[i] \in Work /\ p.chain[i] \in MadeFrom(p.form)
  /\ \A i, j \in DOMAIN p.chain : i <= j => p.chain[i] \in MadeFrom(p.chain[j])
  /\ p.timer => p.form # 0
  /\ p.call # NotCalling => p.chain # <<>>
  /\ p.id \in 0..Len(drafts) /\ p.url \in 0..Len(drafts) /\ (p.id # 0 => p.revision > 0)

\* A page that is not ready has done nothing yet.
FreshOK(p) ==
  ~p.ready => p.form = 0 /\ p.chain = <<>> /\ ~p.timer /\ p.call = NotCalling /\ p.closing = NotCalling
                /\ p.id = 0 /\ p.status # "saved"

\* A close waits for the saves that were before it.
ClosingOK(p) ==
  /\ p.closing.at = "waiting" =>
       p.closing.behind <= Len(p.chain) /\ (p.closing.behind = 0 => p.call = NotCalling)
  /\ p.closing.at = "sent" => p.id # 0

\* What a page knows of its draft was seen by its form and by each save.
SeesOK(p) ==
  \A n \in {p.form} \cup {p.chain[i] : i \in DOMAIN p.chain} :
    /\ Sees(p.id, p.revision, n)
    /\ p.call.at = "answered" /\ p.call.answer.result = "saved" => Sees(p.call.answer.id, p.call.answer.revision, n)

CallOK(p) ==
  /\ p.call.at = "sent" => p.call.payload = Head(p.chain) /\ p.call.id \in 0..Len(drafts)
                             /\ Sees(p.call.id, p.call.revision, p.call.payload)
  /\ p.call.at = "answered" /\ p.call.answer.result = "saved" =>
       p.call.answer.id \in DOMAIN drafts /\ p.call.answer.revision > 0 /\ Head(p.chain) \in saved

\* The last save of the chain is the form, when nothing is to be added to it.
TailOK(p) ==
  /\ ~p.timer /\ p.chain # <<>> /\ (p.closing.at = "waiting" => Len(p.chain) > p.closing.behind)
       => p.chain[Len(p.chain)] = p.form
  /\ p.status = "saved" /\ ~p.timer /\ p.chain = <<>> /\ p.closing = NotCalling => p.form \in saved

StrayOK(c) ==
  /\ c \in SaveCalls /\ c.payload \in Work /\ c.id \in 0..Len(drafts) /\ Sees(c.id, c.revision, c.payload)

PageOK(p) == ChainOK(p) /\ FreshOK(p) /\ ClosingOK(p) /\ SeesOK(p) /\ CallOK(p) /\ TailOK(p)

DraftsInv ==
  /\ DraftTablesOK /\ LineageOK /\ WorkSurvives
  /\ \A t \in Tabs : PageOK(page[t])
  /\ \A c \in strays : StrayOK(c)

-----------------------------------------------------------------------------
\* What every edit was made from.
LEMMA Ancestry ==
  ASSUME LineageOK, NEW n \in Known
  PROVE  /\ n \in MadeFrom(n) /\ 0 \in MadeFrom(n) /\ MadeFrom(n) \subseteq 0..n /\ MadeFrom(n) \subseteq Known
         /\ \A m \in MadeFrom(n) : MadeFrom(m) \subseteq MadeFrom(n)
<1>1. Len(edits) \in Nat BY DEF LineageOK
<1>2. CASE n = 0 BY <1>1, <1>2 DEF MadeFrom, Known
<1>3. CASE n # 0
  <2>1. n \in Work BY <1>1, <1>3 DEF Known, Work
  <2>2. edits[n] \subseteq 0..(n - 1) /\ \A m \in edits[n] : MadeFrom(m) \subseteq edits[n] BY <2>1 DEF LineageOK
  <2>3. MadeFrom(n) = edits[n] \cup {n, 0} BY <1>3 DEF MadeFrom
  <2>4. MadeFrom(0) = {0} BY DEF MadeFrom
  <2>5. MadeFrom(n) \subseteq 0..n BY <1>1, <2>1, <2>2, <2>3 DEF Work
  <2> QED BY <1>1, <2>1, <2>2, <2>3, <2>4, <2>5 DEF Known, Work
<1> QED BY <1>2, <1>3

\* The fields of a page.
LEMMA PageFields ==
  ASSUME NEW p \in Pages
  PROVE  /\ p.form \in Nat /\ p.ready \in BOOLEAN /\ p.timer \in BOOLEAN /\ p.chain \in Seq(Nat)
         /\ p.call \in CallStates /\ p.closing \in ClosingStates /\ p.id \in Nat /\ p.revision \in Nat
         /\ p.url \in Nat /\ p.status \in {"idle", "loading", "saved", "offline", "recovery", "saving", "conflict"}
BY DEF Pages

\* The shapes of a save and of a close.
LEMMA CallShapes ==
  /\ \A c \in CallStates : c.at \in {"none", "sent", "answered"} /\ (c.at = "none" <=> c = NotCalling)
  /\ \A c \in CallStates : c.at = "sent" => c \in SaveCalls /\ c.id \in Nat /\ c.revision \in Nat /\ c.payload \in Nat
  /\ \A c \in CallStates : c.at = "answered" =>
       /\ c.answer \in Answers
       /\ c.answer.result = "saved" => c.answer.id \in Nat /\ c.answer.revision \in Nat
  /\ \A c \in ClosingStates : c.at \in {"none", "waiting", "sent", "answered"} /\ (c.at = "none" <=> c = NotCalling)
  /\ \A c \in ClosingStates : c.at = "waiting" => c.behind \in Nat /\ c = [at |-> "waiting", behind |-> c.behind]
BY DEF CallStates, ClosingStates, SaveCalls, Answers, NotCalling

\* What one step adds for all to see.
DraftsGrow ==
  /\ Len(edits) <= Len(edits') /\ Len(drafts) <= Len(drafts') /\ saved \subseteq saved'
  /\ edits \in Seq(SUBSET Nat) /\ edits' \in Seq(SUBSET Nat) /\ drafts \in Seq(DraftRow) /\ drafts' \in Seq(DraftRow)
  /\ \A n \in Known : MadeFrom(n)' = MadeFrom(n)
  /\ \A id \in 0..Len(drafts), revision \in Nat, n \in Known : Sees(id, revision, n) => Sees(id, revision, n)'

\* A page, or a request whose page is gone, is as right after a step of another.
LEMMA PageStays ==
  ASSUME DraftsGrow, NEW p \in Pages, PageOK(p)
  PROVE  PageOK(p)'
<1>1. /\ Len(edits) \in Nat /\ Len(edits') \in Nat /\ Len(drafts) \in Nat /\ Len(drafts') \in Nat
      /\ Known \subseteq Known' /\ Work \subseteq Work' /\ DOMAIN drafts = 1..Len(drafts) /\ DOMAIN drafts' = 1..Len(drafts')
      /\ Work \subseteq Known
  BY DEF DraftsGrow, Known, Work
<1>2. p.form \in Known /\ p.chain \in Seq(Nat) /\ \A i \in DOMAIN p.chain : p.chain[i] \in Known /\ p.chain[i] \in Work
  BY <1>1, PageFields DEF PageOK, ChainOK
<1>3. ChainOK(p)'
  <2>1. p.id \in 0..Len(drafts') /\ p.url \in 0..Len(drafts') BY <1>1 DEF PageOK, ChainOK, DraftsGrow
  <2> QED BY <1>1, <1>2, <2>1 DEF PageOK, ChainOK, DraftsGrow
<1>4. FreshOK(p)' /\ ClosingOK(p)' BY DEF PageOK, FreshOK, ClosingOK
<1>5. SeesOK(p)'
  <2> SUFFICES ASSUME NEW n \in {p.form} \cup {p.chain[i] : i \in DOMAIN p.chain}
               PROVE  /\ Sees(p.id, p.revision, n)'
                      /\ p.call.at = "answered" /\ p.call.answer.result = "saved" =>
                           Sees(p.call.answer.id, p.call.answer.revision, n)'
    BY DEF SeesOK
  <2>1. n \in Known BY <1>2
  <2>2. Sees(p.id, p.revision, n)'
    <3>1. p.id \in 0..Len(drafts) /\ p.revision \in Nat BY PageFields DEF PageOK, ChainOK
    <3> QED BY <2>1, <3>1 DEF PageOK, SeesOK, DraftsGrow
  <2>3. ASSUME p.call.at = "answered", p.call.answer.result = "saved"
        PROVE  Sees(p.call.answer.id, p.call.answer.revision, n)'
    <3>1. p.call.answer.id \in 0..Len(drafts) BY <1>1, <2>3 DEF PageOK, CallOK
    <3>2. p.call.answer.revision \in Nat BY <2>3, PageFields, CallShapes
    <3> QED BY <2>1, <2>3, <3>1, <3>2 DEF PageOK, SeesOK, DraftsGrow
  <2> QED BY <2>2, <2>3
<1>6. CallOK(p)'
  <2>1. ASSUME p.call.at = "sent"
        PROVE  /\ p.call.payload = Head(p.chain) /\ p.call.id \in 0..Len(drafts')
               /\ Sees(p.call.id, p.call.revision, p.call.payload)'
    <3>1. /\ p.call.payload = Head(p.chain) /\ p.call.id \in 0..Len(drafts)
          /\ Sees(p.call.id, p.call.revision, p.call.payload)
      BY <2>1 DEF PageOK, CallOK
    <3>2. p.chain # <<>> /\ p.call.revision \in Nat
      <4>1. p.call # NotCalling BY <2>1 DEF NotCalling
      <4> QED BY <2>1, <4>1, PageFields, CallShapes DEF PageOK, ChainOK
    <3>3. 1 \in DOMAIN p.chain /\ p.call.payload = p.chain[1] BY <1>2, <3>1, <3>2
    <3>4. p.call.payload \in Known BY <1>2, <3>3
    <3> QED BY <1>1, <3>1, <3>2, <3>4 DEF DraftsGrow
  <2>2. ASSUME p.call.at = "answered", p.call.answer.result = "saved"
        PROVE  p.call.answer.id \in DOMAIN drafts' /\ p.call.answer.revision > 0 /\ Head(p.chain) \in saved'
    BY <1>1, <2>2 DEF PageOK, CallOK, DraftsGrow
  <2> QED BY <2>1, <2>2 DEF CallOK
<1>7. TailOK(p)' BY DEF PageOK, TailOK, DraftsGrow
<1> QED BY <1>3, <1>4, <1>5, <1>6, <1>7 DEF PageOK

\* The same of a request.
LEMMA StrayStays ==
  ASSUME DraftsGrow, NEW c, StrayOK(c)
  PROVE  StrayOK(c)'
<1>1. /\ Len(edits) \in Nat /\ Len(edits') \in Nat /\ Len(drafts) \in Nat /\ Len(drafts') \in Nat
      /\ Work \subseteq Work' /\ Work \subseteq Known
  BY DEF DraftsGrow, Known, Work
<1>2. c.revision \in Nat BY DEF StrayOK, SaveCalls
<1> QED BY <1>1, <1>2 DEF StrayOK, DraftsGrow

\* Nothing new to be seen.
LEMMA StillGrows ==
  ASSUME DraftsInv, UNCHANGED <<drafts, edits, saved>>
  PROVE  DraftsGrow
BY DEF DraftsInv, DraftTablesOK, LineageOK, DraftsGrow, MadeFrom, Sees, Unchanged, Known

\* The drafts and the edits grow, the pages that change are right, and no work is lost.
LEMMA DraftsStep ==
  ASSUME DraftsInv, DraftsGrow, page' \in [Tabs -> Pages], \A u \in Tabs : page'[u] = page[u] \/ PageOK(page[u])',
         buffer' \in [Profiles -> Known'], last' \in [Tabs -> Known'], WorkSurvives', LineageOK',
         \A d \in DOMAIN drafts' : drafts'[d].revision > 0 /\ drafts'[d].payload \in saved',
         saved' \subseteq Work', trampled' = {},
         \A c \in strays' : c \in strays \/ StrayOK(c)'
  PROVE  DraftsInv'
<1>1. \A u \in Tabs : PageOK(page[u])'
  <2> SUFFICES ASSUME NEW u \in Tabs, page'[u] = page[u] PROVE PageOK(page[u])' OBVIOUS
  <2>1. page[u] \in Pages /\ PageOK(page[u]) BY DEF DraftsInv, DraftTablesOK
  <2>2. PICK o \in Pages : o = page[u] BY <2>1
  <2>3. PageOK(o)' BY <2>1, <2>2, PageStays
  <2> QED BY <2>1, <2>2, <2>3
<1>2. \A c \in strays' : StrayOK(c)' BY StrayStays DEF DraftsInv
<1>3. DraftTablesOK' BY DEF DraftTablesOK, DraftsGrow
<1> QED BY <1>1, <1>2, <1>3 DEF DraftsInv

\* One page changes, and neither the drafts nor the edits.
LEMMA PageStep ==
  ASSUME DraftsInv, NEW t \in Tabs, NEW p \in Pages, Set(t, p), PageOK(p),
         UNCHANGED <<drafts, edits, saved, trampled>>,
         buffer' \in [Profiles -> Known], last' \in [Tabs -> Known], WorkSurvives',
         \A c \in strays' : c \in strays \/ StrayOK(c)
  PROVE  DraftsInv'
<1>1. DraftsGrow BY StillGrows
<1>2. page' \in [Tabs -> Pages] /\ page'[t] = p /\ \A u \in Tabs \ {t} : page'[u] = page[u]
  BY DEF DraftsInv, DraftTablesOK, Set
<1>3. PageOK(p)' BY <1>1, PageStays
<1>4. \A u \in Tabs : page'[u] = page[u] \/ PageOK(page[u])' BY <1>2, <1>3
<1>5. Known' = Known /\ Work' = Work BY DEF Known, Work
<1>6. LineageOK' BY DEF DraftsInv, LineageOK, Work, MadeFrom
<1>7. \A c \in strays' : c \in strays \/ StrayOK(c)' BY <1>1, StrayStays
<1> QED BY <1>1, <1>2, <1>4, <1>5, <1>6, <1>7, DraftsStep DEF DraftsInv, DraftTablesOK

\* A step of the page alone.
LEMMA PageAlone ==
  ASSUME DraftsInv, NEW t \in Tabs, NEW p \in Pages, Set(t, p), PageOK(p),
         UNCHANGED <<buffer, drafts, edits, last, saved, trampled, displaced>>,
         \A c \in strays' : c \in strays \/ StrayOK(c)
  PROVE  DraftsInv'
<1>1. WorkSurvives' BY DEF DraftsInv, WorkSurvives, MadeFrom
<1> QED BY <1>1, PageStep DEF DraftsInv, DraftTablesOK

\* A buffer is given to a form: the work that was in it is in the form, or displaced.
LEMMA BufferGiven ==
  ASSUME DraftsInv, DraftsAssumption, NEW b \in Profiles, NEW form \in Known, buffer' = [buffer EXCEPT ![b] = form],
         Displaces(b, form), UNCHANGED <<edits, last, saved>>
  PROVE  buffer' \in [Profiles -> Known] /\ last' \in [Tabs -> Known] /\ WorkSurvives'
<1>1. buffer \in [Profiles -> Known] /\ LineageOK /\ BrowserOf \in [Tabs -> Profiles] BY DEF DraftsInv, DraftTablesOK, DraftsAssumption
<1>2. ASSUME NEW t \in Tabs, last[t] # 0, last[t] \notin displaced'
      PROVE  \E n \in saved \cup {buffer'[BrowserOf[t]]} : last[t] \in MadeFrom(n)
  <2>1. last[t] \notin displaced BY <1>2 DEF Displaces
  <2>2. PICK n \in saved \cup {buffer[BrowserOf[t]]} : last[t] \in MadeFrom(n) BY <1>2, <2>1 DEF DraftsInv, WorkSurvives
  <2>3. CASE n \in saved BY <2>2, <2>3
  <2>4. CASE n = buffer[BrowserOf[t]] /\ BrowserOf[t] = b
    <3>1. last[t] \in MadeFrom(form) BY <1>2, <2>2, <2>4 DEF Displaces
    <3> QED BY <1>1, <2>4, <3>1
  <2>5. CASE n = buffer[BrowserOf[t]] /\ BrowserOf[t] # b
    <3>1. buffer'[BrowserOf[t]] = n BY <1>1, <2>5
    <3> QED BY <2>2, <3>1
  <2> QED BY <2>2, <2>3, <2>4, <2>5
<1>3. WorkSurvives' BY <1>2 DEF WorkSurvives, MadeFrom
<1> QED BY <1>1, <1>3 DEF DraftsInv, DraftTablesOK

\* A page's form is put in the buffer.
LEMMA BufferedStep ==
  ASSUME DraftsInv, DraftsAssumption, NEW t \in Tabs, NEW p \in Pages, PageOK(p), Buffered(t, p),
         UNCHANGED <<drafts, strays, edits, last, saved, trampled>>
  PROVE  DraftsInv'
<1>1. CASE p.ready /\ p.form # 0
  <2> DEFINE new == [p EXCEPT !.timer = TRUE]
  <2>1. /\ Set(t, new) /\ buffer' = [buffer EXCEPT ![BrowserOf[t]] = p.form] /\ Displaces(BrowserOf[t], p.form)
    BY <1>1 DEF Buffered
  <2>2. /\ new \in Pages /\ new.timer = TRUE /\ new.form = p.form /\ new.ready = p.ready /\ new.chain = p.chain
        /\ new.call = p.call /\ new.closing = p.closing /\ new.id = p.id /\ new.revision = p.revision
        /\ new.url = p.url /\ new.status = p.status
    BY DEF Pages
  <2> HIDE DEF new
  <2>3. PageOK(new)
    BY <1>1, <2>2 DEF PageOK, ChainOK, FreshOK, ClosingOK, SeesOK, CallOK, TailOK
  <2>4. BrowserOf[t] \in Profiles /\ p.form \in Known BY DEF DraftsAssumption, PageOK, ChainOK
  <2>5. buffer' \in [Profiles -> Known] /\ last' \in [Tabs -> Known] /\ WorkSurvives' BY <2>1, <2>4, BufferGiven
  <2> QED BY <2>1, <2>2, <2>3, <2>5, PageStep
<1>2. CASE ~(p.ready /\ p.form # 0)
  <2>1. Set(t, p) /\ UNCHANGED <<buffer, displaced>> BY <1>2 DEF Buffered
  <2> QED BY <2>1, PageAlone
<1> QED BY <1>1, <1>2

\* What a page of which nothing is known sees.
LEMMA NothingSeen ==
  ASSUME DraftsInv, NEW revision, NEW n
  PROVE  Sees(0, revision, n)
<1>1. 0 \notin DOMAIN drafts BY DEF DraftsInv, DraftTablesOK
<1> QED BY <1>1 DEF Sees

\* The restored page.
LEMMA InitializeStep ==
  ASSUME DraftsInv, DraftsAssumption, NEW t \in Tabs, Initialize(t)
  PROVE  DraftsInv'
<1>1. PICK p \in Pages : p = page[t] BY DEF DraftsInv, DraftTablesOK
<1>2. /\ PageOK(p) /\ ~p.ready /\ p.form = 0 /\ p.chain = <<>> /\ ~p.timer /\ p.call = NotCalling
      /\ p.closing = NotCalling /\ p.id = 0 /\ p.status = "idle"
  BY <1>1 DEF DraftsInv, PageOK, FreshOK, Initialize
<1>3. /\ UNCHANGED <<drafts, strays, edits, last, saved, trampled>>
      /\ LineageOK /\ Len(drafts) \in Nat /\ DOMAIN drafts = 1..Len(drafts) /\ saved \subseteq Work /\ Work \subseteq Known
  BY DEF Initialize, DraftsInv, DraftTablesOK, LineageOK, Known, Work
<1>4. ASSUME NEW new \in Pages, new.form \in Known, new.chain = <<>>, ~new.timer, new.call = NotCalling, new.closing = NotCalling,
             new.id \in 0..Len(drafts), new.url \in 0..Len(drafts), Sees(new.id, new.revision, new.form),
             ~new.ready => new.form = 0 /\ new.id = 0 /\ new.status # "saved",
             new.status = "saved" => new.form \in saved, new.id # 0 => new.revision > 0
      PROVE  PageOK(new)
  <2>1. DOMAIN new.chain = {} BY <1>4
  <2>2. NotCalling.at = "none" BY DEF NotCalling
  <2> QED BY <1>4, <2>1, <2>2 DEF PageOK, ChainOK, FreshOK, ClosingOK, SeesOK, CallOK, TailOK
<1>5. CASE p.url # 0 /\ drafts[p.url].status = "active" /\
           Buffered(t, [p EXCEPT !.form = drafts[p.url].payload, !.id = p.url,
                                 !.revision = drafts[p.url].revision, !.status = "saved", !.ready = TRUE])
  <2> DEFINE new == [p EXCEPT !.form = drafts[p.url].payload, !.id = p.url,
                              !.revision = drafts[p.url].revision, !.status = "saved", !.ready = TRUE]
  <2>1. p.url \in DOMAIN drafts BY <1>2, <1>3, <1>5 DEF PageOK, ChainOK
  <2>2. PICK d \in DraftRow : d = drafts[p.url] BY <2>1 DEF DraftsInv, DraftTablesOK
  <2>3. d.payload \in saved /\ d.payload \in Nat /\ d.revision \in Nat /\ d.revision > 0
    BY <2>1, <2>2 DEF DraftsInv, DraftTablesOK, DraftRow
  <2>4. /\ new \in Pages /\ new.form = d.payload /\ new.id = p.url /\ new.revision = d.revision /\ new.status = "saved"
        /\ new.ready = TRUE /\ new.chain = p.chain /\ new.timer = p.timer /\ new.call = p.call /\ new.closing = p.closing
        /\ new.url = p.url
    BY <2>2, <2>3 DEF Pages
  <2> HIDE DEF new
  <2>5. d.payload \in Known BY <1>3, <2>3
  <2>6. Sees(new.id, new.revision, new.form)
    BY <1>3, <2>2, <2>3, <2>4, <2>5, Ancestry DEF Sees
  <2>7. PageOK(new) BY <1>2, <1>3, <1>4, <2>1, <2>3, <2>4, <2>5, <2>6
  <2>8. Buffered(t, new) BY <1>5 DEF new
  <2> QED BY <1>3, <2>4, <2>7, <2>8, BufferedStep
<1>6. CASE Set(t, [p EXCEPT !.status = "loading"]) /\ UNCHANGED <<buffer, displaced>>
  <2> DEFINE new == [p EXCEPT !.status = "loading"]
  <2>1. /\ new \in Pages /\ new.form = p.form /\ new.id = p.id /\ new.revision = p.revision /\ new.status = "loading"
        /\ new.ready = p.ready /\ new.chain = p.chain /\ new.timer = p.timer /\ new.call = p.call /\ new.closing = p.closing
        /\ new.url = p.url
    BY DEF Pages
  <2> HIDE DEF new
  <2>2. PageOK(new) BY <1>2, <2>1 DEF PageOK, ChainOK, FreshOK, ClosingOK, SeesOK, CallOK, TailOK
  <2>3. Set(t, new) BY <1>6 DEF new
  <2> QED BY <1>3, <1>6, <2>1, <2>2, <2>3, PageAlone
<1>7. CASE Buffered(t, [p EXCEPT !.url = 0, !.status = "offline", !.ready = TRUE])
  <2> DEFINE new == [p EXCEPT !.url = 0, !.status = "offline", !.ready = TRUE]
  <2>1. /\ new \in Pages /\ new.form = p.form /\ new.id = p.id /\ new.revision = p.revision /\ new.status = "offline"
        /\ new.ready = TRUE /\ new.chain = p.chain /\ new.timer = p.timer /\ new.call = p.call /\ new.closing = p.closing
        /\ new.url = 0
    BY DEF Pages
  <2> HIDE DEF new
  <2>2. PageOK(new)
    BY <1>2, <1>3, <1>4, <2>1, NothingSeen DEF PageOK, ChainOK
  <2>3. Buffered(t, new) BY <1>7 DEF new
  <2> QED BY <1>3, <2>1, <2>2, <2>3, BufferedStep
<1>8. CASE p.url = 0 /\ Buffered(t, [p EXCEPT !.form = buffer[BrowserOf[t]], !.ready = TRUE,
                                              !.status = IF buffer[BrowserOf[t]] = 0 THEN @ ELSE "recovery"])
  <2> PICK f \in Known : f = buffer[BrowserOf[t]] BY DEF DraftsInv, DraftTablesOK, DraftsAssumption
  <2> PICK st \in {"idle", "recovery"} : st = IF f = 0 THEN "idle" ELSE "recovery" OBVIOUS
  <2> DEFINE new == [p EXCEPT !.form = f, !.ready = TRUE, !.status = st]
  <2>1. f \in Nat BY DEF Known
  <2>2. /\ new \in Pages /\ new.form = f /\ new.id = p.id /\ new.revision = p.revision /\ new.status = st
        /\ new.ready = TRUE /\ new.chain = p.chain /\ new.timer = p.timer /\ new.call = p.call /\ new.closing = p.closing
        /\ new.url = p.url
    BY <2>1 DEF Pages
  <2>3. Buffered(t, new) BY <1>2, <1>8
  <2> HIDE DEF new
  <2>4. PageOK(new) BY <1>2, <1>3, <1>4, <2>2, NothingSeen DEF PageOK, ChainOK
  <2> QED BY <1>3, <2>2, <2>3, <2>4, BufferedStep
<1> QED BY <1>1, <1>5, <1>6, <1>7, <1>8 DEF Initialize

\* A page and its invariant, in one place.
LEMMA KnownPage ==
  ASSUME DraftsInv, NEW t \in Tabs
  PROVE  /\ page[t] \in Pages /\ PageOK(page[t]) /\ LineageOK /\ saved \subseteq Work /\ Work \subseteq Known
         /\ Len(drafts) \in Nat /\ DOMAIN drafts = 1..Len(drafts) /\ NotCalling.at = "none"
BY DEF DraftsInv, DraftTablesOK, LineageOK, Known, Work, NotCalling

\* A chain with one more save, and a chain without its first.
LEMMA ChainAppended ==
  ASSUME NEW chain \in Seq(Nat), NEW n \in Nat
  PROVE  LET new == Append(chain, n) IN
         /\ new \in Seq(Nat) /\ Len(new) = Len(chain) + 1 /\ Len(chain) \in Nat /\ new # <<>>
         /\ DOMAIN chain = 1..Len(chain) /\ DOMAIN new = 1..(Len(chain) + 1)
         /\ new[Len(chain) + 1] = n /\ \A i \in 1..Len(chain) : new[i] = chain[i]
         /\ chain # <<>> => Head(new) = Head(chain)
OBVIOUS

\* A sequence without its first element.
LEMMA ChainTail ==
  ASSUME NEW chain \in Seq(Nat), chain # <<>>
  PROVE  LET new == Tail(chain) IN
         /\ new \in Seq(Nat) /\ Len(chain) \in Nat /\ Len(chain) >= 1 /\ Len(new) = Len(chain) - 1
         /\ DOMAIN chain = 1..Len(chain) /\ DOMAIN new = 1..(Len(chain) - 1)
         /\ Head(chain) = chain[1] /\ \A i \in 1..(Len(chain) - 1) : new[i] = chain[i + 1]
         /\ new = <<>> <=> Len(chain) = 1
<1> DEFINE new == Tail(chain)
<1>1. new \in Seq(Nat) /\ Len(new) = Len(chain) - 1 BY HeadTailProperties
<1>2. Len(chain) \in Nat /\ Len(chain) # 0 OBVIOUS
<1>3. DOMAIN chain = 1..Len(chain) /\ Head(chain) = chain[1] OBVIOUS
<1>4. DOMAIN new = 1..(Len(chain) - 1) BY <1>1
<1>5. \A i \in 1..(Len(chain) - 1) : new[i] = chain[i + 1] BY <1>2
<1>6. new = <<>> <=> Len(new) = 0 BY <1>1, SMTT(30)
<1> QED BY <1>1, <1>2, <1>3, <1>4, <1>5, <1>6

\* The timer fires.
LEMMA TimerStep ==
  ASSUME DraftsInv, NEW t \in Tabs, TimerFires(t)
  PROVE  DraftsInv'
<1>1. PICK p \in Pages : p = page[t] BY KnownPage
<1> DEFINE new == [p EXCEPT !.timer = FALSE, !.chain = Append(@, p.form)]
<1>2. /\ PageOK(p) /\ p.timer /\ Set(t, new)
      /\ UNCHANGED <<buffer, drafts, strays, opens, edits, last, saved, trampled, displaced>>
  BY <1>1, KnownPage DEF TimerFires
<1>3. PICK chain \in Seq(Nat) : chain = Append(p.chain, p.form) BY PageFields, ChainAppended
<1>4. /\ Len(chain) = Len(p.chain) + 1 /\ Len(p.chain) \in Nat /\ chain # <<>>
      /\ DOMAIN p.chain = 1..Len(p.chain) /\ DOMAIN chain = 1..(Len(p.chain) + 1)
      /\ chain[Len(p.chain) + 1] = p.form /\ \A i \in 1..Len(p.chain) : chain[i] = p.chain[i]
      /\ p.chain # <<>> => Head(chain) = Head(p.chain)
  BY <1>3, PageFields, ChainAppended
<1>5. /\ new \in Pages /\ new.form = p.form /\ new.ready = p.ready /\ new.timer = FALSE /\ new.chain = chain
      /\ new.call = p.call /\ new.closing = p.closing /\ new.id = p.id /\ new.revision = p.revision
      /\ new.url = p.url /\ new.status = p.status
  BY <1>3 DEF Pages
<1> HIDE DEF new
<1>6. p.form \in Work /\ p.form \in MadeFrom(p.form) /\ p.ready
  <2>1. p.form \in Known /\ p.form # 0 BY <1>2 DEF PageOK, ChainOK
  <2>2. p.form \in Work BY <2>1, KnownPage DEF Known, Work
  <2> QED BY <1>2, <2>1, <2>2, Ancestry, KnownPage DEF PageOK, FreshOK
<1>7. ChainOK(new)
  <2>1. \A i \in DOMAIN chain : chain[i] \in Work /\ chain[i] \in MadeFrom(p.form)
    <3> SUFFICES ASSUME NEW i \in DOMAIN chain, i # Len(p.chain) + 1 PROVE chain[i] \in Work /\ chain[i] \in MadeFrom(p.form)
      BY <1>4, <1>6
    <3>1. i \in 1..Len(p.chain) BY <1>4
    <3> QED BY <1>2, <1>4, <3>1 DEF PageOK, ChainOK
  <2>2. ASSUME NEW i \in DOMAIN chain, NEW j \in DOMAIN chain, i <= j PROVE chain[i] \in MadeFrom(chain[j])
    <3>1. CASE j = Len(p.chain) + 1 BY <1>4, <2>1, <3>1
    <3>2. CASE j # Len(p.chain) + 1
      <4>1. i \in 1..Len(p.chain) /\ j \in 1..Len(p.chain)
        <5>1. i \in 1..(Len(p.chain) + 1) /\ j \in 1..(Len(p.chain) + 1) BY <1>4, <2>2
        <5>2. \A k \in Nat : i \in 1..(k + 1) /\ j \in 1..(k + 1) /\ i <= j /\ j # k + 1 => i \in 1..k /\ j \in 1..k
          OBVIOUS
        <5>3. Len(p.chain) \in Nat BY <1>4
        <5> QED BY <2>2, <3>2, <5>1, <5>2, <5>3
      <4> QED BY <1>2, <1>4, <2>2, <4>1 DEF PageOK, ChainOK
    <3> QED BY <3>1, <3>2
  <2> QED BY <1>2, <1>4, <1>5, <2>1, <2>2 DEF PageOK, ChainOK
<1>8. FreshOK(new) BY <1>5, <1>6 DEF FreshOK
<1>9. ClosingOK(new)
  <2>1. p.closing.at = "waiting" => p.closing.behind \in Nat BY PageFields, CallShapes
  <2> QED BY <1>2, <1>4, <1>5, <2>1 DEF PageOK, ClosingOK
<1>10. SeesOK(new)
  <2>1. {chain[i] : i \in DOMAIN chain} \subseteq {p.form} \cup {p.chain[i] : i \in DOMAIN p.chain} BY <1>4, SMTT(30)
  <2> QED BY <1>2, <1>5, <2>1 DEF PageOK, SeesOK
<1>11. CallOK(new)
  <2>1. p.call.at # "none" => p.chain # <<>> BY <1>2, KnownPage DEF PageOK, ChainOK
  <2> QED BY <1>2, <1>4, <1>5, <2>1 DEF PageOK, CallOK
<1>12. TailOK(new) BY <1>4, <1>5 DEF TailOK
<1>13. PageOK(new) BY <1>7, <1>8, <1>9, <1>10, <1>11, <1>12 DEF PageOK
<1> QED BY <1>2, <1>5, <1>13, PageAlone

\* A save is sent, or its request or answer is lost.
LEMMA SendSaveStep ==
  ASSUME DraftsInv, NEW t \in Tabs, SendSave(t) \/ LoseCall(t)
  PROVE  DraftsInv'
<1>1. PICK p \in Pages : p = page[t] BY KnownPage
<1>2. PageOK(p) /\ p.chain \in Seq(Nat) /\ p.id \in Nat /\ p.revision \in Nat
  BY <1>1, KnownPage, PageFields
<1>3. CASE SendSave(t)
  <2> DEFINE nextCall == [at |-> "sent", id |-> p.id, revision |-> p.revision, payload |-> Head(p.chain)]
             new == [p EXCEPT !.status = "saving", !.call = nextCall]
  <2>1. /\ p.chain # <<>> /\ p.call = NotCalling /\ ~Resuming(t) /\ Set(t, new)
        /\ UNCHANGED <<buffer, drafts, strays, opens, edits, last, saved, trampled, displaced>>
    BY <1>1, <1>3 DEF SendSave
  <2>2. Head(p.chain) = p.chain[1] /\ 1 \in DOMAIN p.chain /\ Head(p.chain) \in Nat BY <1>2, <2>1
  <2>3. /\ nextCall \in CallStates /\ nextCall.at = "sent" /\ nextCall # NotCalling /\ nextCall.id = p.id /\ nextCall.revision = p.revision
        /\ nextCall.payload = Head(p.chain)
    BY <1>2, <2>2 DEF CallStates, SaveCalls, NotCalling
  <2> HIDE DEF nextCall
  <2>4. /\ new \in Pages /\ new.form = p.form /\ new.ready = p.ready /\ new.timer = p.timer /\ new.chain = p.chain
        /\ new.call = nextCall /\ new.closing = p.closing /\ new.id = p.id /\ new.revision = p.revision
        /\ new.url = p.url /\ new.status = "saving"
    BY <2>3 DEF Pages
  <2> HIDE DEF new
  <2>5. ClosingOK(new)
    <3>1. p.closing.at = "waiting" => p.closing.behind # 0
      BY <1>1, <2>1, PageFields, CallShapes DEF Resuming
    <3> QED BY <1>2, <2>4, <3>1 DEF PageOK, ClosingOK
  <2>6. CallOK(new)
    <3>1. Sees(p.id, p.revision, Head(p.chain)) BY <1>2, <2>2 DEF PageOK, SeesOK
    <3> QED BY <1>2, <2>3, <2>4, <3>1 DEF PageOK, ChainOK, CallOK
  <2>7. ChainOK(new) /\ FreshOK(new) BY <1>2, <2>1, <2>4 DEF PageOK, ChainOK, FreshOK
  <2>8. SeesOK(new) BY <1>2, <2>3, <2>4 DEF PageOK, SeesOK
  <2>9. TailOK(new) BY <1>2, <2>1, <2>4 DEF PageOK, TailOK
  <2>10. PageOK(new) BY <2>5, <2>6, <2>7, <2>8, <2>9 DEF PageOK
  <2> QED BY <2>1, <2>4, <2>10, PageAlone
<1>4. CASE LoseCall(t)
  <2> DEFINE nextCall == [at |-> "answered", answer |-> [result |-> "offline"]]
             new == [p EXCEPT !.call = nextCall]
  <2>1. /\ p.call.at \in {"sent", "answered"} /\ Set(t, new)
        /\ UNCHANGED <<buffer, drafts, strays, opens, edits, last, saved, trampled, displaced>>
    BY <1>1, <1>4 DEF LoseCall
  <2>2. nextCall \in CallStates /\ nextCall.at = "answered" /\ nextCall.answer.result # "saved"
    BY DEF CallStates, Answers
  <2> HIDE DEF nextCall
  <2>3. /\ new \in Pages /\ new.form = p.form /\ new.ready = p.ready /\ new.timer = p.timer /\ new.chain = p.chain
        /\ new.call = nextCall /\ new.closing = p.closing /\ new.id = p.id /\ new.revision = p.revision
        /\ new.url = p.url /\ new.status = p.status
    BY <2>2 DEF Pages
  <2> HIDE DEF new
  <2>4. p.call # NotCalling BY <2>1 DEF NotCalling
  <2>5. PageOK(new)
    BY <1>2, <2>2, <2>3, <2>4 DEF PageOK, ChainOK, FreshOK, ClosingOK, SeesOK, CallOK, TailOK
  <2> QED BY <2>1, <2>3, <2>5, PageAlone
<1> QED BY <1>3, <1>4

\* A close begins, is sent or ends without success.
LEMMA CloseSteps ==
  ASSUME DraftsInv, NEW t \in Tabs, NEW p \in Pages, p = page[t], NEW closing \in ClosingStates, NEW st,
         st \in {"idle", "loading", "saved", "offline", "recovery", "saving", "conflict"}, NEW timer \in BOOLEAN,
         p.ready, timer => p.timer,
         closing.at = "waiting" => ~timer /\ closing.behind = Len(p.chain),
         closing.at = "sent" => p.id # 0,
         closing.at # "waiting" => timer = p.timer /\ p.closing # NotCalling
                                    /\ (p.closing.at = "waiting" => p.closing.behind = 0),
         closing = NotCalling => st # "saved",
         Set(t, [p EXCEPT !.timer = timer, !.closing = closing, !.status = st]),
         UNCHANGED <<buffer, drafts, strays, edits, last, saved, trampled, displaced>>
  PROVE  DraftsInv'
<1> DEFINE new == [p EXCEPT !.timer = timer, !.closing = closing, !.status = st]
<1>1. /\ new \in Pages /\ new.form = p.form /\ new.ready = p.ready /\ new.timer = timer /\ new.chain = p.chain
      /\ new.call = p.call /\ new.closing = closing /\ new.id = p.id /\ new.revision = p.revision
      /\ new.url = p.url /\ new.status = st
  BY DEF Pages
<1>2. Set(t, new) OBVIOUS
<1> HIDE DEF new
<1>3. PageOK(p) /\ p.chain \in Seq(Nat) /\ Len(p.chain) \in Nat /\ (p.chain = <<>> <=> Len(p.chain) = 0)
  BY KnownPage, PageFields
<1>4. ChainOK(new) /\ FreshOK(new) /\ SeesOK(new) /\ CallOK(new)
  BY <1>1, <1>3 DEF PageOK, ChainOK, FreshOK, SeesOK, CallOK
<1>5. ClosingOK(new) BY <1>1, <1>3 DEF PageOK, ChainOK, ClosingOK
<1>6. TailOK(new)
  <2>1. CASE closing.at = "waiting" BY <1>1, <1>3, <2>1, CallShapes DEF TailOK
  <2>2. CASE closing.at # "waiting" BY <1>1, <1>3, <2>2 DEF PageOK, TailOK
  <2> QED BY <2>1, <2>2
<1>7. PageOK(new) BY <1>4, <1>5, <1>6 DEF PageOK
<1> QED BY <1>1, <1>2, <1>7, PageAlone

\* A close that is begun, sent or refused.
LEMMA OpenCloseSteps ==
  ASSUME DraftsInv, NEW t \in Tabs,
         \/ BeginClose(t)
         \/ SendClose(t) /\ page[t].id # 0
         \/ ReceiveClose(t) /\ UNCHANGED <<buffer, last, displaced>> /\
            Set(t, [page[t] EXCEPT !.closing = NotCalling,
               !.status = IF page[t].closing = [at |-> "answered", result |-> "conflict"]
                          THEN "conflict" ELSE "offline"])
  PROVE  DraftsInv'
<1>1. PICK p \in Pages : p = page[t] BY KnownPage
<1>2. /\ PageOK(p) /\ Len(p.chain) \in Nat /\ p.timer \in BOOLEAN /\ p.revision \in Nat /\ NotCalling.at = "none"
      /\ p.status \in {"idle", "loading", "saved", "offline", "recovery", "saving", "conflict"}
  BY <1>1, KnownPage, PageFields
<1>3. p.closing # NotCalling => p.ready BY <1>2 DEF PageOK, FreshOK
<1>4. CASE BeginClose(t)
  <2> DEFINE closing == [at |-> "waiting", behind |-> Len(p.chain)]
  <2>1. closing \in ClosingStates /\ closing.at = "waiting" /\ closing.behind = Len(p.chain) /\ closing # NotCalling
    BY <1>2 DEF ClosingStates, NotCalling
  <2> HIDE DEF closing
  <2>2. [p EXCEPT !.timer = FALSE, !.closing = closing] = [p EXCEPT !.timer = FALSE, !.closing = closing, !.status = p.status]
    BY DEF Pages
  <2>3. p.ready /\ Set(t, [p EXCEPT !.timer = FALSE, !.closing = closing, !.status = p.status])
        /\ UNCHANGED <<buffer, drafts, strays, edits, last, saved, trampled, displaced>>
    BY <1>1, <1>4, <2>2 DEF BeginClose, closing
  <2> QED BY <1>1, <1>2, <2>1, <2>3, CloseSteps
<1>5. CASE SendClose(t) /\ page[t].id # 0
  <2> DEFINE closing == [at |-> "sent", revision |-> p.revision]
  <2>1. closing \in ClosingStates /\ closing.at = "sent" /\ closing # NotCalling BY <1>2 DEF ClosingStates, NotCalling
  <2>2. p.closing.behind = 0 /\ p.closing # NotCalling
    <3>1. p.closing = [at |-> "waiting", behind |-> 0] BY <1>1, <1>5 DEF SendClose, Resuming
    <3> QED BY <3>1 DEF NotCalling
  <2>3. Set(t, [p EXCEPT !.closing = closing]) /\ UNCHANGED <<buffer, drafts, strays, edits, last, saved, trampled, displaced>>
    BY <1>1, <1>5 DEF SendClose
  <2> HIDE DEF closing
  <2>4. [p EXCEPT !.closing = closing] = [p EXCEPT !.timer = p.timer, !.closing = closing, !.status = p.status] BY DEF Pages
  <2>5. Set(t, [p EXCEPT !.timer = p.timer, !.closing = closing, !.status = p.status]) BY <2>3, <2>4
  <2> QED BY <1>1, <1>2, <1>3, <1>5, <2>1, <2>2, <2>3, <2>5, CloseSteps
<1>6. CASE ReceiveClose(t) /\ UNCHANGED <<buffer, last, displaced>> /\
           Set(t, [page[t] EXCEPT !.closing = NotCalling,
               !.status = IF page[t].closing = [at |-> "answered", result |-> "conflict"]
                          THEN "conflict" ELSE "offline"])
  <2>1. PICK st \in {"conflict", "offline"} :
          st = IF page[t].closing = [at |-> "answered", result |-> "conflict"] THEN "conflict" ELSE "offline"
    OBVIOUS
  <2>2. [p EXCEPT !.closing = NotCalling, !.status = st] = [p EXCEPT !.timer = p.timer, !.closing = NotCalling, !.status = st]
    BY DEF Pages
  <2>3. Set(t, [p EXCEPT !.timer = p.timer, !.closing = NotCalling, !.status = st]) BY <1>1, <1>6, <2>1, <2>2
  <2>4. p.closing.at \in {"sent", "answered"} /\ UNCHANGED <<buffer, drafts, strays, edits, last, saved, trampled, displaced>>
    BY <1>1, <1>6 DEF ReceiveClose
  <2>5. p.closing # NotCalling /\ NotCalling \in ClosingStates BY <1>2, <2>4 DEF ClosingStates
  <2> QED BY <1>1, <1>2, <1>3, <2>3, <2>4, <2>5, CloseSteps
<1> QED BY <1>4, <1>5, <1>6

\* A form is closed: the work of its browser is completed with it, or displaced.
LEMMA ClosedStep ==
  ASSUME DraftsInv, DraftsAssumption, NEW t \in Tabs, Closed(t), page[t].closing # NotCalling,
         page[t].closing.at = "waiting" => page[t].closing.behind = 0,
         UNCHANGED <<drafts, strays, edits, saved, trampled>>
  PROVE  DraftsInv'
<1>1. PICK p \in Pages : p = page[t] BY KnownPage
<1>2. PICK b \in Profiles : b = BrowserOf[t] BY DEF DraftsAssumption
<1> DEFINE new == [p EXCEPT !.closing = NotCalling, !.id = 0, !.revision = 0, !.url = 0, !.status = "idle"]
<1>3. /\ PageOK(p) /\ Set(t, new) /\ buffer' = [buffer EXCEPT ![b] = 0] /\ Displaces(b, p.form)
      /\ last' = [u \in Tabs |-> IF BrowserOf[u] = b /\ last[u] \in MadeFrom(p.form) THEN 0 ELSE last[u]]
  BY <1>1, <1>2, KnownPage DEF Closed
<1>4. NotCalling \in ClosingStates /\ NotCalling.at = "none" BY DEF ClosingStates, NotCalling
<1>5. /\ new \in Pages /\ new.form = p.form /\ new.ready = p.ready /\ new.timer = p.timer /\ new.chain = p.chain
      /\ new.call = p.call /\ new.closing = NotCalling /\ new.id = 0 /\ new.revision = 0
      /\ new.url = 0 /\ new.status = "idle"
  BY <1>4 DEF Pages
<1> HIDE DEF new
<1>6. 0 \in 0..Len(drafts) /\ p.ready BY <1>1, <1>3, KnownPage DEF PageOK, FreshOK
<1>7. ChainOK(new) /\ FreshOK(new) /\ ClosingOK(new) /\ CallOK(new)
  BY <1>3, <1>4, <1>5, <1>6 DEF PageOK, ChainOK, FreshOK, ClosingOK, CallOK
<1>8. SeesOK(new) BY <1>3, <1>5, NothingSeen DEF PageOK, SeesOK
<1>9. TailOK(new)
  <2>1. p.chain # <<>> => Len(p.chain) > 0 BY PageFields
  <2> QED BY <1>1, <1>3, <1>4, <1>5, <2>1 DEF PageOK, TailOK
<1>10. PageOK(new) BY <1>7, <1>8, <1>9 DEF PageOK
<1>11. /\ buffer \in [Profiles -> Known] /\ last \in [Tabs -> Known] /\ 0 \in Known /\ BrowserOf \in [Tabs -> Profiles]
  BY KnownPage DEF DraftsInv, DraftTablesOK, DraftsAssumption, LineageOK, Known
<1>12. buffer' \in [Profiles -> Known] /\ last' \in [Tabs -> Known] BY <1>3, <1>11
<1>13. ASSUME NEW u \in Tabs, last'[u] # 0, last'[u] \notin displaced'
       PROVE  \E n \in saved \cup {buffer'[BrowserOf[u]]} : last'[u] \in MadeFrom(n)
  <2>1. last'[u] = last[u] /\ ~(BrowserOf[u] = b /\ last[u] \in MadeFrom(p.form)) BY <1>3, <1>13
  <2>2. last[u] \notin displaced BY <1>3, <1>13, <2>1 DEF Displaces
  <2>3. PICK n \in saved \cup {buffer[BrowserOf[u]]} : last[u] \in MadeFrom(n) BY <1>13, <2>1, <2>2 DEF DraftsInv, WorkSurvives
  <2>4. CASE n \in saved BY <2>1, <2>3, <2>4
  <2>5. CASE n = buffer[BrowserOf[u]] /\ BrowserOf[u] = b BY <1>3, <1>13, <2>1, <2>3, <2>5 DEF Displaces
  <2>6. CASE n = buffer[BrowserOf[u]] /\ BrowserOf[u] # b
    <3>1. buffer'[BrowserOf[u]] = n BY <1>3, <1>11, <2>6
    <3> QED BY <2>1, <2>3, <3>1
  <2> QED BY <2>3, <2>4, <2>5, <2>6
<1>14. WorkSurvives' BY <1>13 DEF WorkSurvives, MadeFrom
<1> QED BY <1>3, <1>5, <1>10, <1>12, <1>14, PageStep

\* The end of a save: what its page knows, and the buffer that held what was saved.
LEMMA ReceiveSaveStep ==
  ASSUME DraftsInv, DraftsAssumption, NEW t \in Tabs, ReceiveSave(t)
  PROVE  DraftsInv'
<1>1. PICK p \in Pages : p = page[t] BY KnownPage
<1>2. PICK closing : closing = IF p.closing.at = "waiting" THEN [at |-> "waiting", behind |-> p.closing.behind - 1] ELSE p.closing
  OBVIOUS
<1>3. /\ PageOK(p) /\ p.call.at = "answered" /\ p.call # NotCalling /\ p.chain # <<>> /\ p.chain \in Seq(Nat) /\ p.ready
      /\ UNCHANGED <<drafts, strays, edits, last, saved, trampled, displaced>>
  <2>1. PageOK(p) /\ p.call.at = "answered" BY <1>1, KnownPage DEF ReceiveSave
  <2>2. p.call # NotCalling BY <2>1 DEF NotCalling
  <2> QED BY <2>1, <2>2, PageFields DEF ReceiveSave, PageOK, ChainOK, FreshOK
<1>4. closing \in ClosingStates /\ closing.at = p.closing.at /\ (closing = NotCalling <=> p.closing = NotCalling)
      /\ (p.closing.at = "waiting" => closing.behind = p.closing.behind - 1 /\ p.closing.behind \in Nat /\ p.closing.behind # 0)
  <2>1. CASE p.closing.at = "waiting"
    <3>1. p.closing.behind \in Nat /\ p.closing.behind # 0 BY <1>3, <2>1, PageFields, CallShapes DEF PageOK, ClosingOK
    <3>2. p.closing.behind - 1 \in Nat BY <3>1
    <3> QED BY <1>2, <2>1, <3>1, <3>2 DEF ClosingStates, NotCalling
  <2>2. CASE p.closing.at # "waiting" BY <1>2, <2>2, PageFields
  <2> QED BY <2>1, <2>2
<1>5. PICK chain : chain = Tail(p.chain) OBVIOUS
<1>6. /\ chain \in Seq(Nat) /\ Len(p.chain) \in Nat /\ Len(p.chain) >= 1 /\ Len(chain) = Len(p.chain) - 1
      /\ DOMAIN p.chain = 1..Len(p.chain) /\ DOMAIN chain = 1..(Len(p.chain) - 1)
      /\ Head(p.chain) = p.chain[1] /\ \A i \in 1..(Len(p.chain) - 1) : chain[i] = p.chain[i + 1]
      /\ chain = <<>> <=> Len(p.chain) = 1
  BY <1>3, <1>5, ChainTail
<1>7. \A i \in DOMAIN chain : i + 1 \in DOMAIN p.chain /\ chain[i] = p.chain[i + 1]
  <2>1. \A k \in Nat : \A i \in 1..(k - 1) : i + 1 \in 1..k OBVIOUS
  <2> QED BY <1>6, <2>1
<1>8. NotCalling \in CallStates /\ NotCalling.at = "none" BY DEF CallStates, NotCalling
<1>9. ASSUME NEW new \in Pages, new.form = p.form, new.ready = p.ready, new.timer = p.timer, new.chain = chain,
             new.call = NotCalling, new.closing = closing, new.id \in 0..Len(drafts), new.url \in 0..Len(drafts),
             \A n \in {p.form} \cup {p.chain[i] : i \in DOMAIN p.chain} : Sees(new.id, new.revision, n),
             closing.at = "sent" => new.id # 0, new.id # 0 => new.revision > 0,
             new.status = "saved" => Head(p.chain) \in saved
      PROVE  PageOK(new)
  <2>1. ChainOK(new)
    <3>1. \A i, j \in DOMAIN chain : i <= j => chain[i] \in MadeFrom(chain[j])
      <4> SUFFICES ASSUME NEW i \in DOMAIN chain, NEW j \in DOMAIN chain, i <= j PROVE chain[i] \in MadeFrom(chain[j]) OBVIOUS
      <4>1. i + 1 <= j + 1 BY <1>6
      <4> QED BY <1>3, <1>7, <4>1 DEF PageOK, ChainOK
    <3> QED BY <1>3, <1>7, <1>9, <3>1 DEF PageOK, ChainOK
  <2>2. FreshOK(new) BY <1>3, <1>9 DEF FreshOK
  <2>3. ClosingOK(new)
    <3>1. closing.at = "waiting" => closing.behind <= Len(chain)
      <4>1. ASSUME p.closing.at = "waiting" PROVE p.closing.behind - 1 <= Len(p.chain) - 1
        BY <1>3, <1>4, <1>6, <4>1, SMTT(30) DEF PageOK, ClosingOK
      <4> QED BY <1>4, <1>6, <4>1
    <3> QED BY <1>9, <3>1 DEF ClosingOK
  <2>4. SeesOK(new)
    <3>1. {chain[i] : i \in DOMAIN chain} \subseteq {p.chain[i] : i \in DOMAIN p.chain} BY <1>7
    <3> QED BY <1>8, <1>9, <3>1 DEF SeesOK
  <2>5. CallOK(new) BY <1>8, <1>9 DEF CallOK
  <2>6. TailOK(new)
    <3>1. CASE chain # <<>>
      <4>1. Len(p.chain) - 1 \in DOMAIN chain /\ (Len(p.chain) - 1) + 1 = Len(p.chain) BY <1>6, <3>1
      <4>2. chain[Len(chain)] = p.chain[Len(p.chain)] BY <1>6, <1>7, <4>1
      <4>3. closing.at = "waiting" /\ Len(chain) > closing.behind => Len(p.chain) > p.closing.behind BY <1>4, <1>6
      <4> QED BY <1>3, <1>4, <1>9, <3>1, <4>2, <4>3 DEF PageOK, TailOK
    <3>2. CASE chain = <<>>
      <4>1. ~p.timer /\ closing = NotCalling => Head(p.chain) = p.form
        BY <1>3, <1>4, <1>6, <1>8, <3>2 DEF PageOK, TailOK
      <4> QED BY <1>9, <3>2, <4>1 DEF TailOK
    <3> QED BY <3>1, <3>2
  <2> QED BY <2>1, <2>2, <2>3, <2>4, <2>5, <2>6 DEF PageOK
<1>10. PICK a : a = p.call.answer OBVIOUS
<1> DEFINE done == [p EXCEPT !.call = NotCalling, !.chain = Tail(@),
                             !.closing = IF p.closing.at = "waiting" THEN [at |-> "waiting", behind |-> @.behind - 1] ELSE @]
<1>11. /\ done \in Pages /\ done.form = p.form /\ done.ready = p.ready /\ done.timer = p.timer /\ done.chain = chain
       /\ done.call = NotCalling /\ done.closing = closing /\ done.id = p.id /\ done.revision = p.revision
       /\ done.url = p.url /\ done.status = p.status
  BY <1>2, <1>4, <1>5, <1>6, <1>8 DEF Pages
<1>12. CASE /\ a.result = "saved"
            /\ Set(t, [done EXCEPT !.id = a.id, !.revision = a.revision, !.url = a.id, !.status = "saved"])
            /\ buffer' = [buffer EXCEPT ![BrowserOf[t]] = IF Reached(t, Head(p.chain)) THEN 0 ELSE @]
  <2> HIDE DEF done
  <2> DEFINE new == [done EXCEPT !.id = a.id, !.revision = a.revision, !.url = a.id, !.status = "saved"]
  <2>1. a.id \in Nat /\ a.revision \in Nat BY <1>3, <1>10, <1>12, PageFields, CallShapes
  <2>2. /\ new \in Pages /\ new.form = p.form /\ new.ready = p.ready /\ new.timer = p.timer /\ new.chain = chain
        /\ new.call = NotCalling /\ new.closing = closing /\ new.id = a.id /\ new.revision = a.revision
        /\ new.url = a.id /\ new.status = "saved"
    BY <1>11, <2>1 DEF Pages
  <2>3. Set(t, new) BY <1>12
  <2> HIDE DEF new
  <2>4. a.id \in DOMAIN drafts /\ a.revision > 0 /\ Head(p.chain) \in saved BY <1>3, <1>10, <1>12 DEF PageOK, CallOK
  <2>5. a.id \in 0..Len(drafts) /\ a.id # 0 BY <2>4, KnownPage
  <2>6. \A n \in {p.form} \cup {p.chain[i] : i \in DOMAIN p.chain} : Sees(a.id, a.revision, n)
    BY <1>3, <1>10, <1>12 DEF PageOK, SeesOK
  <2>7. PageOK(new) BY <1>9, <2>2, <2>4, <2>5, <2>6
  <2>8. buffer \in [Profiles -> Known] /\ 0 \in Known /\ BrowserOf \in [Tabs -> Profiles] /\ last \in [Tabs -> Known]
    BY KnownPage DEF DraftsInv, DraftTablesOK, DraftsAssumption, LineageOK, Known
  <2>9. \A b \in Profiles : buffer'[b] = buffer[b] \/ buffer[b] \in saved
    BY <1>12, <2>4, <2>8 DEF Reached
  <2>10. WorkSurvives'
    <3> SUFFICES ASSUME NEW u \in Tabs, last[u] # 0, last[u] \notin displaced
                 PROVE  \E n \in saved \cup {buffer'[BrowserOf[u]]} : last[u] \in MadeFrom(n)
      BY <1>3 DEF WorkSurvives, MadeFrom
    <3>1. PICK n \in saved \cup {buffer[BrowserOf[u]]} : last[u] \in MadeFrom(n) BY DEF DraftsInv, WorkSurvives
    <3>2. BrowserOf[u] \in Profiles BY <2>8
    <3> QED BY <2>9, <3>1, <3>2
  <2>11. buffer' \in [Profiles -> Known] BY <1>12, <2>8
  <2> QED BY <1>3, <2>2, <2>3, <2>7, <2>8, <2>10, <2>11, PageStep
<1>13. CASE a.result # "saved" /\ Set(t, [done EXCEPT !.status = a.result]) /\ UNCHANGED buffer
  <2> HIDE DEF done
  <2> DEFINE new == [done EXCEPT !.status = a.result]
  <2>1. a.result \in {"conflict", "offline"}
    <3>1. a \in Answers BY <1>3, <1>10, PageFields, CallShapes
    <3> QED BY <1>13, <3>1 DEF Answers
  <2>2. /\ new \in Pages /\ new.form = p.form /\ new.ready = p.ready /\ new.timer = p.timer /\ new.chain = chain
        /\ new.call = NotCalling /\ new.closing = closing /\ new.id = p.id /\ new.revision = p.revision
        /\ new.url = p.url /\ new.status = a.result
    BY <1>11, <2>1 DEF Pages
  <2>3. Set(t, new) BY <1>13
  <2> HIDE DEF new
  <2>4. /\ p.id \in 0..Len(drafts) /\ p.url \in 0..Len(drafts) /\ (p.closing.at = "sent" => p.id # 0)
        /\ (p.id # 0 => p.revision > 0)
        /\ \A n \in {p.form} \cup {p.chain[i] : i \in DOMAIN p.chain} : Sees(p.id, p.revision, n)
    BY <1>3 DEF PageOK, ChainOK, ClosingOK, SeesOK
  <2>5. PageOK(new) BY <1>4, <1>9, <2>1, <2>2, <2>4
  <2> QED BY <1>3, <1>13, <2>2, <2>3, <2>5, PageAlone
<1> HIDE DEF done
<1> QED BY <1>1, <1>10, <1>12, <1>13 DEF ReceiveSave, done

\* A page is opened: a request of the one that was there may still arrive.
LEMMA OpenPageStep ==
  ASSUME DraftsInv, NEW t \in Tabs, NEW url, OpenPage(t, url)
  PROVE  DraftsInv'
<1>1. PICK p \in Pages : p = page[t] BY KnownPage
<1>2. PageOK(p) /\ p.chain \in Seq(Nat) BY <1>1, KnownPage, PageFields
<1>3. url \in 0..Len(drafts) /\ url \in Nat
  <2>1. p.url \in 0..Len(drafts) BY <1>2 DEF PageOK, ChainOK
  <2>2. Len(drafts) \in Nat /\ DOMAIN drafts = 1..Len(drafts) BY KnownPage
  <2>3. url \in {p.url, 0} \cup DOMAIN drafts BY <1>1 DEF OpenPage
  <2> QED BY <2>1, <2>2, <2>3
<1> DEFINE new == NewPage(url)
<1>4. /\ new \in Pages /\ new.form = 0 /\ new.ready = FALSE /\ new.timer = FALSE /\ new.chain = <<>> /\ new.call = NotCalling
      /\ new.closing = NotCalling /\ new.id = 0 /\ new.revision = 0 /\ new.url = url /\ new.status = "idle"
  BY <1>3 DEF NewPage, Pages, CallStates, ClosingStates
<1> HIDE DEF new
<1>5. PageOK(new)
  <2>1. DOMAIN new.chain = {} /\ NotCalling.at = "none" BY <1>4 DEF NotCalling
  <2>2. 0 \in Known /\ 0 \in 0..Len(drafts) BY KnownPage DEF Known, LineageOK
  <2> QED BY <1>3, <1>4, <2>1, <2>2, NothingSeen DEF PageOK, ChainOK, FreshOK, ClosingOK, SeesOK, CallOK, TailOK
<1>6. \A c \in strays' : c \in strays \/ StrayOK(c)
  <2> SUFFICES ASSUME p.call.at = "sent" PROVE StrayOK(p.call) BY <1>1 DEF OpenPage
  <2>1. p.call # NotCalling BY DEF NotCalling
  <2>2. p.chain # <<>> BY <1>2, <2>1 DEF PageOK, ChainOK
  <2>3. 1 \in DOMAIN p.chain /\ Head(p.chain) = p.chain[1] BY <1>2, <2>2
  <2>4. p.call.payload \in Work BY <1>2, <2>3 DEF PageOK, ChainOK, CallOK
  <2>5. p.call \in SaveCalls BY PageFields, CallShapes
  <2> QED BY <1>2, <2>4, <2>5 DEF PageOK, CallOK, StrayOK
<1>7. Set(t, new) /\ UNCHANGED <<buffer, drafts, edits, last, saved, trampled, displaced>>
  BY DEF OpenPage, new
<1> QED BY <1>4, <1>5, <1>6, <1>7, PageAlone

\* An edit is made from what its page shows.
LEMMA EditStep ==
  ASSUME DraftsInv, DraftsAssumption, NEW t \in Tabs, Edit(t)
  PROVE  DraftsInv'
<1>1. PICK p \in Pages : p = page[t] BY KnownPage
<1>2. PICK n : n = Len(edits) + 1 OBVIOUS
<1>3. PICK b \in Profiles : b = BrowserOf[t] BY DEF DraftsAssumption
<1>4. PageOK(p) /\ p.ready /\ p.form \in Known BY <1>1, KnownPage DEF Edit, PageOK, ChainOK
<1>5. /\ edits' = Append(edits, MadeFrom(p.form)) /\ last' = [last EXCEPT ![t] = n]
      /\ Set(t, [p EXCEPT !.form = n, !.timer = TRUE]) /\ buffer' = [buffer EXCEPT ![b] = n] /\ Displaces(b, p.form)
      /\ UNCHANGED <<drafts, strays, saved, trampled>>
  BY <1>1, <1>2, <1>3 DEF Edit
<1>6. PICK from : from = MadeFrom(p.form) OBVIOUS
<1>7. from \subseteq 0..p.form /\ from \subseteq Known /\ p.form \in from /\ 0 \in from /\ \A m \in from : MadeFrom(m) \subseteq from
  BY <1>4, <1>6, KnownPage, Ancestry
<1>8. /\ Len(edits) \in Nat /\ n \in Nat /\ n # 0 /\ n \notin Known /\ edits \in Seq(SUBSET Nat) /\ from \in SUBSET Nat
  <2>1. Len(edits) \in Nat /\ edits \in Seq(SUBSET Nat) BY KnownPage DEF LineageOK
  <2> QED BY <1>2, <1>7, <2>1 DEF Known
<1>9. /\ edits' \in Seq(SUBSET Nat) /\ Len(edits') = n /\ edits'[n] = from
      /\ \A m \in 1..Len(edits) : edits'[m] = edits[m]
  BY <1>2, <1>5, <1>6, <1>8
<1>10. Known' = Known \cup {n} /\ Work' = Work \cup {n} BY <1>2, <1>8, <1>9 DEF Known, Work
<1>11. \A m \in Known : MadeFrom(m)' = MadeFrom(m)
  <2> SUFFICES ASSUME NEW m \in Known, m # 0 PROVE MadeFrom(m)' = MadeFrom(m) BY DEF MadeFrom
  <2>1. m \in 1..Len(edits) BY <1>8 DEF Known
  <2> QED BY <1>9, <2>1 DEF MadeFrom
<1>12. MadeFrom(n)' = from \cup {n} BY <1>7, <1>8, <1>9 DEF MadeFrom
<1>13. DraftsGrow
  <2>1. \A id, revision, m : m \in Known /\ Sees(id, revision, m) => Sees(id, revision, m)'
    BY <1>5, <1>11 DEF Sees, Unchanged
  <2>2. drafts \in Seq(DraftRow) /\ Len(drafts) \in Nat BY DEF DraftsInv, DraftTablesOK
  <2> QED BY <1>2, <1>5, <1>8, <1>9, <1>11, <2>1, <2>2 DEF DraftsGrow
<1>14. LineageOK'
  <2> SUFFICES ASSUME NEW m \in Work \cup {n}
               PROVE  edits'[m] \subseteq 0..(m - 1) /\ \A o \in edits'[m] : MadeFrom(o)' \subseteq edits'[m]
    BY <1>9, <1>10 DEF LineageOK
  <2>1. CASE m = n
    <3>1. from \subseteq 0..(n - 1) BY <1>2, <1>7, <1>8 DEF Known
    <3>2. \A o \in from : MadeFrom(o)' \subseteq from BY <1>7, <1>11
    <3> QED BY <1>9, <2>1, <3>1, <3>2
  <2>2. CASE m # n
    <3>1. m \in Work /\ edits'[m] = edits[m] BY <1>9, <2>2 DEF Work
    <3>2. edits[m] \subseteq 0..(m - 1) /\ \A o \in edits[m] : MadeFrom(o) \subseteq edits[m]
      BY <3>1, KnownPage DEF LineageOK
    <3>3. edits[m] \subseteq Known BY <1>8, <3>1, <3>2 DEF Known, Work
    <3> QED BY <1>11, <3>1, <3>2, <3>3
  <2> QED BY <2>1, <2>2
<1> DEFINE new == [p EXCEPT !.form = n, !.timer = TRUE]
<1>15. /\ new \in Pages /\ new.form = n /\ new.ready = p.ready /\ new.timer = TRUE /\ new.chain = p.chain
       /\ new.call = p.call /\ new.closing = p.closing /\ new.id = p.id /\ new.revision = p.revision
       /\ new.url = p.url /\ new.status = p.status
  BY <1>8 DEF Pages
<1>16. Set(t, new) BY <1>5
<1> HIDE DEF new
<1>17. PageOK(new)'
  <2>1. PageOK(p)' BY <1>4, <1>13, PageStays
  <2>2. MadeFrom(p.form)' \subseteq MadeFrom(n)' BY <1>4, <1>6, <1>11, <1>12
  <2>3. ChainOK(new)'
    BY <1>8, <1>10, <1>15, <2>1, <2>2 DEF PageOK, ChainOK
  <2>4. FreshOK(new)' /\ ClosingOK(new)' /\ CallOK(new)' /\ TailOK(new)'
    BY <1>4, <1>15, <2>1 DEF PageOK, FreshOK, ClosingOK, CallOK, TailOK
  <2>5. \A id, revision : Sees(id, revision, p.form)' => Sees(id, revision, n)' BY <2>2 DEF Sees
  <2>6. SeesOK(new)' BY <1>15, <2>1, <2>5 DEF PageOK, SeesOK
  <2> QED BY <2>3, <2>4, <2>6 DEF PageOK
<1>18. buffer \in [Profiles -> Known] /\ last \in [Tabs -> Known] /\ BrowserOf \in [Tabs -> Profiles]
  BY DEF DraftsInv, DraftTablesOK, DraftsAssumption
<1>19. buffer' \in [Profiles -> Known'] /\ last' \in [Tabs -> Known'] BY <1>5, <1>10, <1>18
<1>20. ASSUME NEW u \in Tabs, last'[u] # 0, last'[u] \notin displaced'
       PROVE  \E m \in saved \cup {buffer'[BrowserOf[u]]} : last'[u] \in MadeFrom(m)'
  <2>1. CASE u = t
    <3>1. last'[u] = n /\ buffer'[BrowserOf[u]] = n BY <1>3, <1>5, <1>18, <2>1
    <3> QED BY <1>12, <3>1
  <2>2. CASE u # t
    <3>1. last'[u] = last[u] BY <1>5, <1>18, <2>2
    <3>2. last[u] \notin displaced BY <1>5, <1>20, <3>1 DEF Displaces
    <3>3. PICK m \in saved \cup {buffer[BrowserOf[u]]} : last[u] \in MadeFrom(m)
      BY <1>20, <3>1, <3>2 DEF DraftsInv, WorkSurvives
    <3>4. m \in Known BY <1>18, <3>3, KnownPage
    <3>5. CASE m \in saved \/ BrowserOf[u] # b
      <4>1. m \in saved \cup {buffer'[BrowserOf[u]]} BY <1>5, <1>18, <3>3, <3>5
      <4> QED BY <1>11, <3>1, <3>3, <3>4, <4>1
    <3>6. CASE m = buffer[b] /\ BrowserOf[u] = b
      <4>1. last[u] \in from BY <1>5, <1>6, <1>20, <3>1, <3>3, <3>6 DEF Displaces
      <4>2. buffer'[BrowserOf[u]] = n BY <1>5, <1>18, <3>6
      <4> QED BY <1>12, <3>1, <4>1, <4>2
    <3> QED BY <3>3, <3>5, <3>6
  <2> QED BY <2>1, <2>2
<1>21. WorkSurvives' BY <1>5, <1>20 DEF WorkSurvives
<1>22. /\ \A d \in DOMAIN drafts' : drafts'[d].revision > 0 /\ drafts'[d].payload \in saved'
       /\ saved' \subseteq Work' /\ trampled' = {}
  BY <1>5, <1>10 DEF DraftsInv, DraftTablesOK
<1>23. page' \in [Tabs -> Pages] /\ \A u \in Tabs : page'[u] = page[u] \/ PageOK(page[u])'
  <2>1. page' \in [Tabs -> Pages] /\ page'[t] = new /\ \A u \in Tabs \ {t} : page'[u] = page[u]
    BY <1>15, <1>16 DEF DraftsInv, DraftTablesOK, Set
  <2> QED BY <1>17, <2>1
<1>24. \A c \in strays' : c \in strays \/ StrayOK(c)' BY <1>5
<1> QED BY <1>13, <1>14, <1>19, <1>21, <1>22, <1>23, <1>24, DraftsStep

\* The rows of the server are those of before, of a later revision or unchanged.
RowsGrow ==
  /\ drafts' \in Seq(DraftRow) /\ Len(drafts) <= Len(drafts') /\ saved \subseteq saved' /\ saved' \subseteq Work
  /\ \A d \in DOMAIN drafts' : drafts'[d].revision > 0 /\ drafts'[d].payload \in saved'
  /\ \A d \in DOMAIN drafts : drafts'[d] = drafts[d] \/ drafts'[d].revision = drafts[d].revision + 1
  /\ \A d \in DOMAIN drafts : drafts[d].status = "closed" => drafts'[d] = drafts[d]

\* Who has seen a revision has still seen it, or it is gone.
LEMMA RowsAreSeen ==
  ASSUME DraftsInv, RowsGrow, edits' = edits
  PROVE  DraftsGrow
<1>1. /\ Len(drafts) \in Nat /\ Len(drafts') \in Nat /\ DOMAIN drafts = 1..Len(drafts) /\ DOMAIN drafts' = 1..Len(drafts')
      /\ drafts \in Seq(DraftRow) /\ edits \in Seq(SUBSET Nat) /\ Len(edits) \in Nat
  BY DEF DraftsInv, DraftTablesOK, LineageOK, RowsGrow
<1>2. ASSUME NEW id \in 0..Len(drafts), NEW revision \in Nat, NEW n \in Known, Sees(id, revision, n)
      PROVE  Sees(id, revision, n)'
  <2> SUFFICES ASSUME id \in DOMAIN drafts
               PROVE  /\ revision <= drafts'[id].revision
                      /\ drafts'[id].status = "active" /\ drafts'[id].revision = revision => drafts'[id].payload \in MadeFrom(n)
    BY <1>1, <1>2 DEF Sees, Unchanged, MadeFrom
  <2>1. /\ revision <= drafts[id].revision /\ drafts[id].revision \in Nat
        /\ drafts[id].status = "active" /\ drafts[id].revision = revision => drafts[id].payload \in MadeFrom(n)
    <3>1. drafts[id] \in DraftRow BY <1>1
    <3> QED BY <1>2, <3>1 DEF Sees, Unchanged, DraftRow
  <2>2. CASE drafts'[id] = drafts[id] BY <2>1, <2>2
  <2>3. CASE drafts'[id].revision = drafts[id].revision + 1 BY <2>1, <2>3
  <2> QED BY <2>2, <2>3 DEF RowsGrow
<1>3. \A n \in Known : MadeFrom(n)' = MadeFrom(n) BY DEF MadeFrom
<1>4. /\ Len(edits) <= Len(edits') /\ Len(drafts) <= Len(drafts') /\ saved \subseteq saved'
      /\ edits' \in Seq(SUBSET Nat) /\ drafts' \in Seq(DraftRow)
  BY <1>1 DEF RowsGrow
<1>5. \A id \in 0..Len(drafts), revision \in Nat, n \in Known : Sees(id, revision, n) => Sees(id, revision, n)' BY <1>2
<1> QED BY <1>1, <1>3, <1>4, <1>5 DEF DraftsGrow

\* The server answers, and nothing else changes than a page or the requests under way.
LEMMA ServerStep ==
  ASSUME DraftsInv, RowsGrow, UNCHANGED <<buffer, edits, last, displaced>>, trampled' = {},
         page' \in [Tabs -> Pages], \A u \in Tabs : page'[u] = page[u] \/ PageOK(page[u])', strays' \subseteq strays
  PROVE  DraftsInv'
<1>1. DraftsGrow BY RowsAreSeen
<1>2. Known' = Known /\ Work' = Work BY DEF Known, Work
<1>3. LineageOK' BY DEF DraftsInv, LineageOK, Work, MadeFrom
<1>4. WorkSurvives'
  <2> SUFFICES ASSUME NEW u \in Tabs, last[u] # 0, last[u] \notin displaced
               PROVE  \E n \in saved' \cup {buffer[BrowserOf[u]]} : last[u] \in MadeFrom(n)
    BY DEF WorkSurvives, MadeFrom
  <2> QED BY DEF DraftsInv, WorkSurvives, RowsGrow
<1> QED BY <1>1, <1>2, <1>3, <1>4, DraftsStep DEF DraftsInv, DraftTablesOK, RowsGrow

\* The server takes a save of what its sender has seen, makes a draft, or refuses.
LEMMA ServeKeeps ==
  ASSUME DraftsInv, NEW c, StrayOK(c), Serve(c)
  PROVE  /\ RowsGrow /\ trampled' = {}
         /\ Answer(c) \in Answers
         /\ Answer(c).result = "saved" =>
              /\ Answer(c).id \in DOMAIN drafts' /\ c.payload \in saved'
              /\ drafts'[Answer(c).id].payload = c.payload /\ drafts'[Answer(c).id].revision = Answer(c).revision
<1>1. /\ Len(drafts) \in Nat /\ DOMAIN drafts = 1..Len(drafts) /\ drafts \in Seq(DraftRow) /\ trampled = {}
      /\ saved \subseteq Work /\ Work \subseteq Nat /\ \A d \in DOMAIN drafts : drafts[d].revision > 0 /\ drafts[d].payload \in saved
  BY KnownPage DEF DraftsInv, DraftTablesOK, Work
<1>2. /\ c.payload \in Work /\ c.payload \in Nat /\ c.id \in 0..Len(drafts) /\ Sees(c.id, c.revision, c.payload)
      /\ c.revision \in Nat
  BY <1>1 DEF StrayOK, SaveCalls
<1>3. CASE c.id = Unknown
  <2> DEFINE row == [status |-> "active", revision |-> 1, payload |-> c.payload]
  <2>1. row \in DraftRow /\ row.status = "active" /\ row.revision = 1 /\ row.payload = c.payload BY <1>2 DEF DraftRow
  <2>2. drafts' = Append(drafts, row) /\ saved' = saved \cup {c.payload} /\ trampled' = trampled BY <1>3 DEF Serve
  <2> HIDE DEF row
  <2>3. /\ drafts' \in Seq(DraftRow) /\ Len(drafts') = Len(drafts) + 1 /\ DOMAIN drafts' = 1..(Len(drafts) + 1)
        /\ drafts'[Len(drafts) + 1] = row /\ \A d \in 1..Len(drafts) : drafts'[d] = drafts[d]
    BY <1>1, <2>1, <2>2
  <2>4. \A d \in DOMAIN drafts' : drafts'[d].revision > 0 /\ drafts'[d].payload \in saved'
    <3> SUFFICES ASSUME NEW d \in DOMAIN drafts', d # Len(drafts) + 1
                 PROVE  drafts'[d].revision > 0 /\ drafts'[d].payload \in saved'
      BY <2>1, <2>2, <2>3
    <3>1. d \in 1..Len(drafts) BY <1>1, <2>3
    <3> QED BY <1>1, <2>2, <2>3, <3>1
  <2>7. \A d \in DOMAIN drafts : drafts'[d] = drafts[d] BY <1>1, <2>3
  <2>8. Len(drafts) <= Len(drafts') /\ saved \subseteq saved' /\ saved' \subseteq Work
    <3>1. saved \subseteq saved' /\ saved' \subseteq Work BY <1>1, <1>2, <2>2
    <3>2. Len(drafts) <= Len(drafts') BY <1>1, <2>3
    <3> QED BY <3>1, <3>2
  <2>5. RowsGrow BY <2>3, <2>4, <2>7, <2>8 DEF RowsGrow
  <2>6. Answer(c) = [result |-> "saved", id |-> Len(drafts) + 1, revision |-> 1] BY <1>3 DEF Answer
  <2>9. Answer(c) \in Answers /\ Answer(c).id = Len(drafts) + 1 /\ Answer(c).revision = 1 BY <1>1, <2>6 DEF Answers
  <2> QED BY <1>1, <2>1, <2>2, <2>3, <2>5, <2>9
<1>4. CASE c.id # Unknown /\ Unchanged(c.id, c.revision)
  <2>1. c.id \in DOMAIN drafts BY <1>1, <1>2, <1>4 DEF Unknown
  <2>2. PICK old \in DraftRow : old = drafts[c.id] BY <1>1, <2>1
  <2> DEFINE later == [old EXCEPT !.revision = @ + 1]
             row == [later EXCEPT !.payload = c.payload]
  <2>12. old.revision \in Nat BY DEF DraftRow
  <2>13. later \in DraftRow /\ later.status = old.status /\ later.revision = old.revision + 1 BY <2>12 DEF DraftRow
  <2>4. /\ drafts' = [drafts EXCEPT ![c.id].revision = @ + 1, ![c.id].payload = c.payload]
        /\ saved' = saved \cup {c.payload} /\ trampled' = trampled \cup ({drafts[c.id].payload} \ MadeFrom(c.payload))
    BY <1>4 DEF Serve
  <2>5. drafts' = [drafts EXCEPT ![c.id] = row] BY <2>1, <2>2, <2>4
  <2> HIDE DEF later
  <2>3. row \in DraftRow /\ row.status = old.status /\ row.revision = old.revision + 1 /\ row.payload = c.payload
    BY <1>2, <2>13 DEF DraftRow
  <2> HIDE DEF row
  <2>6. /\ drafts' \in Seq(DraftRow) /\ Len(drafts') = Len(drafts) /\ DOMAIN drafts' = DOMAIN drafts
        /\ drafts'[c.id] = row /\ \A d \in DOMAIN drafts \ {c.id} : drafts'[d] = drafts[d]
    <3>1. drafts' \in Seq(DraftRow) /\ Len(drafts') = Len(drafts) BY <1>1, <2>1, <2>3, <2>5, ExceptSeq
    <3> QED BY <1>1, <2>1, <2>5, <3>1
  <2>7. drafts[c.id].payload \in MadeFrom(c.payload) BY <1>2, <1>4, <2>1 DEF Sees
  <2>8. old.status = "active" /\ old.revision = c.revision BY <1>4, <2>2 DEF Unchanged
  <2>9. \A d \in DOMAIN drafts' : drafts'[d].revision > 0 /\ drafts'[d].payload \in saved'
    <3>1. row.revision > 0 /\ row.payload \in saved' BY <2>3, <2>4, <2>12
    <3> QED BY <1>1, <2>4, <2>6, <3>1
  <2>14. \A d \in DOMAIN drafts : drafts'[d] = drafts[d] \/ drafts'[d].revision = drafts[d].revision + 1
    BY <2>2, <2>3, <2>6
  <2>15. \A d \in DOMAIN drafts : drafts[d].status = "closed" => drafts'[d] = drafts[d] BY <2>2, <2>6, <2>8
  <2>16. Len(drafts) <= Len(drafts') /\ saved \subseteq saved' /\ saved' \subseteq Work BY <1>1, <1>2, <2>4, <2>6
  <2>10. RowsGrow BY <2>6, <2>9, <2>14, <2>15, <2>16 DEF RowsGrow
  <2>11. Answer(c) = [result |-> "saved", id |-> c.id, revision |-> old.revision + 1] BY <1>4, <2>2 DEF Answer
  <2>17. Answer(c) \in Answers /\ Answer(c).id = c.id /\ Answer(c).revision = old.revision + 1
    BY <1>1, <2>1, <2>11, <2>12 DEF Answers
  <2>18. trampled' = {} /\ c.payload \in saved' BY <1>1, <2>2, <2>4, <2>7
  <2> QED BY <2>1, <2>3, <2>6, <2>10, <2>17, <2>18
<1>5. CASE c.id # Unknown /\ ~Unchanged(c.id, c.revision)
  <2>1. UNCHANGED <<drafts, saved, trampled>> BY <1>5 DEF Serve
  <2>2. Answer(c).result # "saved" /\ Answer(c) \in Answers BY <1>5 DEF Answer, Answers
  <2>3. RowsGrow BY <1>1, <2>1 DEF RowsGrow
  <2> QED BY <1>1, <2>1, <2>2, <2>3
<1> QED BY <1>3, <1>4, <1>5 DEF Unknown

\* A save reaches the server, of a page or of one that is gone.
LEMMA ServeSteps ==
  ASSUME DraftsInv, (\E t \in Tabs : ServeSave(t)) \/ (\E c \in strays : ServeStray(c))
  PROVE  DraftsInv' /\ RowsGrow
<1>1. ASSUME NEW t \in Tabs, ServeSave(t) PROVE DraftsInv' /\ RowsGrow
  <2>1. PICK p \in Pages : p = page[t] BY KnownPage
  <2>2. PICK c : c = p.call OBVIOUS
  <2>3. /\ PageOK(p) /\ c.at = "sent" /\ c # NotCalling /\ Serve(c)
        /\ Set(t, [p EXCEPT !.call = [at |-> "answered", answer |-> Answer(c)]])
        /\ UNCHANGED <<buffer, strays, opens, edits, last, displaced>>
    BY <1>1, <2>1, <2>2, KnownPage DEF ServeSave, NotCalling
  <2>4. p.chain # <<>> /\ p.chain \in Seq(Nat) /\ p.ready BY <2>2, <2>3, PageFields DEF PageOK, ChainOK, FreshOK
  <2>5. 1 \in DOMAIN p.chain /\ Head(p.chain) = p.chain[1] BY <2>4
  <2>6. c.payload = p.chain[1] /\ StrayOK(c)
    BY <2>2, <2>3, <2>5, PageFields, CallShapes DEF PageOK, ChainOK, CallOK, StrayOK
  <2>7. PICK a \in Answers : a = Answer(c) BY <2>3, <2>6, ServeKeeps
  <2>8. /\ RowsGrow /\ trampled' = {}
        /\ a.result = "saved" => /\ a.id \in DOMAIN drafts' /\ c.payload \in saved'
                                 /\ drafts'[a.id].payload = c.payload /\ drafts'[a.id].revision = a.revision
    BY <2>3, <2>6, <2>7, ServeKeeps
  <2> DEFINE nextCall == [at |-> "answered", answer |-> a]
             new == [p EXCEPT !.call = nextCall]
  <2>9. nextCall \in CallStates /\ nextCall.at = "answered" /\ nextCall.answer = a BY DEF CallStates
  <2>10. Set(t, new) BY <2>3, <2>7
  <2> HIDE DEF nextCall
  <2>11. /\ new \in Pages /\ new.form = p.form /\ new.ready = p.ready /\ new.timer = p.timer /\ new.chain = p.chain
         /\ new.call = nextCall /\ new.closing = p.closing /\ new.id = p.id /\ new.revision = p.revision
         /\ new.url = p.url /\ new.status = p.status
    BY <2>9 DEF Pages
  <2> HIDE DEF new
  <2>12. DraftsGrow BY <2>3, <2>8, RowsAreSeen
  <2>13. PageOK(p)' BY <2>3, <2>12, PageStays
  <2>14. PageOK(new)'
    <3>1. ChainOK(new)' /\ FreshOK(new)' /\ TailOK(new)'
      BY <2>4, <2>11, <2>13 DEF PageOK, ChainOK, FreshOK, TailOK
    <3>2. ClosingOK(new)' BY <2>2, <2>3, <2>11, <2>13 DEF PageOK, ClosingOK
    <3>3. CallOK(new)'
      <4>1. ASSUME a.result = "saved" PROVE a.id \in DOMAIN drafts' /\ a.revision > 0 /\ p.chain[1] \in saved'
        BY <2>6, <2>8, <4>1 DEF RowsGrow
      <4> QED BY <2>5, <2>9, <2>11, <4>1 DEF CallOK
    <3>4. SeesOK(new)'
      <4> SUFFICES ASSUME NEW n \in {p.form} \cup {p.chain[i] : i \in DOMAIN p.chain}
                   PROVE  Sees(p.id, p.revision, n)' /\ (a.result = "saved" => Sees(a.id, a.revision, n)')
        BY <2>9, <2>11 DEF SeesOK
      <4>1. Sees(p.id, p.revision, n)' BY <2>13 DEF PageOK, SeesOK
      <4>2. ASSUME a.result = "saved" PROVE Sees(a.id, a.revision, n)'
        <5>1. p.chain[1] \in MadeFrom(n)
          <6>1. CASE n = p.form BY <2>3, <2>5, <6>1 DEF PageOK, ChainOK
          <6>2. CASE n \in {p.chain[i] : i \in DOMAIN p.chain}
            <7>1. PICK i \in DOMAIN p.chain : n = p.chain[i] BY <6>2
            <7>2. 1 <= i BY <2>4, <7>1
            <7> QED BY <2>3, <2>5, <7>1, <7>2 DEF PageOK, ChainOK
          <6> QED BY <6>1, <6>2
        <5>2. p.chain[1] \in MadeFrom(n)' BY <2>3, <5>1 DEF MadeFrom
        <5>3. drafts'[a.id] \in DraftRow BY <2>8, <4>2 DEF RowsGrow
        <5>4. a.revision <= drafts'[a.id].revision BY <2>8, <4>2, <5>3 DEF DraftRow
        <5> QED BY <2>6, <2>8, <4>2, <5>2, <5>4 DEF Sees
      <4> QED BY <4>1, <4>2
    <3> QED BY <3>1, <3>2, <3>3, <3>4 DEF PageOK
  <2>15. page' \in [Tabs -> Pages] /\ \A u \in Tabs : page'[u] = page[u] \/ PageOK(page[u])'
    <3>1. page' \in [Tabs -> Pages] /\ page'[t] = new /\ \A u \in Tabs \ {t} : page'[u] = page[u]
      BY <2>10, <2>11 DEF DraftsInv, DraftTablesOK, Set
    <3> QED BY <2>14, <3>1
  <2> QED BY <2>3, <2>8, <2>15, ServerStep
<1>2. ASSUME NEW c \in strays, ServeStray(c) PROVE DraftsInv' /\ RowsGrow
  <2>1. /\ StrayOK(c) /\ Serve(c) /\ strays' \subseteq strays /\ UNCHANGED <<page, buffer, opens, edits, last, displaced>>
    BY <1>2 DEF ServeStray, DraftsInv
  <2>2. RowsGrow /\ trampled' = {} BY <2>1, ServeKeeps
  <2>3. page' \in [Tabs -> Pages] /\ \A u \in Tabs : page'[u] = page[u] BY <2>1 DEF DraftsInv, DraftTablesOK
  <2> QED BY <2>1, <2>2, <2>3, ServerStep
<1> QED BY <1>1, <1>2

\* A draft is completed or cancelled, or the transition is refused.
LEMMA ServeCloseStep ==
  ASSUME DraftsInv, NEW t \in Tabs, ServeClose(t)
  PROVE  DraftsInv' /\ RowsGrow
<1>1. PICK p \in Pages : p = page[t] BY KnownPage
<1>2. PICK r \in {"saved", "conflict", "offline"} :
        /\ Set(t, [p EXCEPT !.closing = [at |-> "answered", result |-> r]])
        /\ \/ /\ Unchanged(p.id, p.closing.revision)
              /\ drafts' = [drafts EXCEPT ![p.id].revision = @ + 1, ![p.id].status = "closed"]
           \/ UNCHANGED drafts
  BY <1>1 DEF ServeClose
<1>3. /\ PageOK(p) /\ p.closing.at = "sent" /\ p.closing # NotCalling /\ p.ready /\ p.id \in 1..Len(drafts)
      /\ UNCHANGED <<buffer, strays, opens, edits, last, saved, trampled, displaced>>
  <2>1. PageOK(p) /\ p.closing.at = "sent" /\ p.closing # NotCalling BY <1>1, KnownPage DEF ServeClose
  <2>2. p.id \in 0..Len(drafts) /\ p.id # 0 /\ Len(drafts) \in Nat BY <2>1, KnownPage DEF PageOK, ChainOK, ClosingOK
  <2> QED BY <2>1, <2>2 DEF ServeClose, PageOK, FreshOK
<1>4. /\ Len(drafts) \in Nat /\ DOMAIN drafts = 1..Len(drafts) /\ drafts \in Seq(DraftRow) /\ trampled = {}
      /\ saved \subseteq Work /\ \A d \in DOMAIN drafts : drafts[d].revision > 0 /\ drafts[d].payload \in saved
  BY KnownPage DEF DraftsInv, DraftTablesOK
<1>5. RowsGrow
  <2>1. CASE UNCHANGED drafts BY <1>3, <1>4, <2>1 DEF RowsGrow
  <2>2. CASE /\ Unchanged(p.id, p.closing.revision)
             /\ drafts' = [drafts EXCEPT ![p.id].revision = @ + 1, ![p.id].status = "closed"]
    <3>1. PICK old \in DraftRow : old = drafts[p.id] BY <1>3, <1>4
    <3> DEFINE later == [old EXCEPT !.revision = @ + 1]
               row == [later EXCEPT !.status = "closed"]
    <3>7. old.revision \in Nat BY DEF DraftRow
    <3>8. later \in DraftRow /\ later.payload = old.payload /\ later.revision = old.revision + 1 BY <3>7 DEF DraftRow
    <3>3. drafts' = [drafts EXCEPT ![p.id] = row] BY <1>3, <1>4, <2>2, <3>1
    <3> HIDE DEF later
    <3>2. row \in DraftRow /\ row.revision = old.revision + 1 /\ row.payload = old.payload BY <3>8 DEF DraftRow
    <3> HIDE DEF row
    <3>4. drafts' \in Seq(DraftRow) /\ Len(drafts') = Len(drafts) BY <1>3, <1>4, <3>2, <3>3, ExceptSeq
    <3>5. /\ DOMAIN drafts' = DOMAIN drafts /\ drafts'[p.id] = row
          /\ \A d \in DOMAIN drafts \ {p.id} : drafts'[d] = drafts[d]
      BY <1>3, <1>4, <3>3, <3>4
    <3>6. old.status = "active" BY <2>2, <3>1 DEF Unchanged
    <3>9. \A d \in DOMAIN drafts' : drafts'[d].revision > 0 /\ drafts'[d].payload \in saved'
      <4>1. row.revision > 0 /\ row.payload \in saved' BY <1>3, <1>4, <3>1, <3>2, <3>7
      <4> QED BY <1>3, <1>4, <3>5, <4>1
    <3>10. \A d \in DOMAIN drafts : drafts'[d] = drafts[d] \/ drafts'[d].revision = drafts[d].revision + 1
      BY <3>1, <3>2, <3>5
    <3>11. \A d \in DOMAIN drafts : drafts[d].status = "closed" => drafts'[d] = drafts[d] BY <3>1, <3>5, <3>6
    <3> QED BY <1>3, <1>4, <3>4, <3>9, <3>10, <3>11 DEF RowsGrow
  <2> QED BY <1>2, <2>1, <2>2
<1>6. DraftsGrow /\ PageOK(p)' BY <1>3, <1>5, RowsAreSeen, PageStays
<1> DEFINE closing == [at |-> "answered", result |-> r]
           new == [p EXCEPT !.closing = closing]
<1>7. closing \in ClosingStates /\ closing.at = "answered" /\ closing # NotCalling BY DEF ClosingStates, NotCalling
<1>8. Set(t, new) BY <1>2
<1> HIDE DEF closing
<1>9. /\ new \in Pages /\ new.form = p.form /\ new.ready = p.ready /\ new.timer = p.timer /\ new.chain = p.chain
      /\ new.call = p.call /\ new.closing = closing /\ new.id = p.id /\ new.revision = p.revision
      /\ new.url = p.url /\ new.status = p.status
  BY <1>7 DEF Pages
<1> HIDE DEF new
<1>10. PageOK(new)'
  BY <1>3, <1>6, <1>7, <1>9 DEF PageOK, ChainOK, FreshOK, ClosingOK, SeesOK, CallOK, TailOK
<1>11. page' \in [Tabs -> Pages] /\ \A u \in Tabs : page'[u] = page[u] \/ PageOK(page[u])'
  <2>1. page' \in [Tabs -> Pages] /\ page'[t] = new /\ \A u \in Tabs \ {t} : page'[u] = page[u]
    BY <1>8, <1>9 DEF DraftsInv, DraftTablesOK, Set
  <2> QED BY <1>10, <2>1
<1> QED BY <1>3, <1>4, <1>5, <1>11, ServerStep

\* A close that goes on without a draft, or that the server has done.
LEMMA EndOfClose ==
  ASSUME DraftsInv, DraftsAssumption, NEW t \in Tabs, SendClose(t) \/ ReceiveClose(t)
  PROVE  DraftsInv'
<1>1. NotCalling.at = "none" BY DEF NotCalling
<1>2. CASE SendClose(t)
  <2>1. page[t].closing.at = "waiting" /\ page[t].closing.behind = 0 BY <1>2 DEF SendClose, Resuming
  <2>2. UNCHANGED <<drafts, strays, edits, saved, trampled>> BY <1>2 DEF SendClose
  <2>3. CASE page[t].id # 0 BY <1>2, <2>3, OpenCloseSteps
  <2>4. CASE page[t].id = 0
    <3>1. Closed(t) BY <1>2, <2>4 DEF SendClose
    <3>2. page[t].closing # NotCalling BY <1>1, <2>1
    <3> QED BY <2>1, <2>2, <3>1, <3>2, ClosedStep
  <2> QED BY <2>3, <2>4
<1>3. CASE ReceiveClose(t)
  <2>1. page[t].closing.at \in {"sent", "answered"} BY <1>3 DEF ReceiveClose
  <2>2. UNCHANGED <<drafts, strays, edits, saved, trampled>> BY <1>3 DEF ReceiveClose
  <2>3. CASE Closed(t)
    <3>1. page[t].closing # NotCalling BY <1>1, <2>1
    <3>2. page[t].closing.at # "waiting" BY <2>1
    <3> QED BY <2>2, <2>3, <3>1, <3>2, ClosedStep
  <2>4. CASE ~Closed(t) BY <1>3, <2>4, OpenCloseSteps DEF ReceiveClose
  <2> QED BY <2>3, <2>4
<1> QED BY <1>2, <1>3

\* Rows of the server that are closed, and stay as they are.
ClosedKept == \A d \in DOMAIN drafts : drafts[d].status = "closed" => drafts'[d] = drafts[d]

\* Every step of the hooks and the server.
LEMMA DraftsNextKeeps ==
  ASSUME DraftsInv, DraftsAssumption, DraftsNext
  PROVE  DraftsInv' /\ ClosedKept
<1>1. ASSUME NEW t \in Tabs, Initialize(t) \/ Edit(t) PROVE DraftsInv' /\ ClosedKept
  BY <1>1, InitializeStep, EditStep DEF Initialize, Edit, ClosedKept
<1>2. ASSUME NEW t \in Tabs, TimerFires(t) \/ SendSave(t) \/ LoseCall(t) PROVE DraftsInv' /\ ClosedKept
  BY <1>2, TimerStep, SendSaveStep DEF TimerFires, SendSave, LoseCall, ClosedKept
<1>3. ASSUME NEW t \in Tabs, ReceiveSave(t) PROVE DraftsInv' /\ ClosedKept
  BY <1>3, ReceiveSaveStep DEF ReceiveSave, ClosedKept
<1>4. ASSUME NEW t \in Tabs, BeginClose(t) PROVE DraftsInv' /\ ClosedKept
  BY <1>4, OpenCloseSteps DEF BeginClose, ClosedKept
<1>5. ASSUME NEW t \in Tabs, SendClose(t) \/ ReceiveClose(t) PROVE DraftsInv' /\ ClosedKept
  <2>1. DraftsInv' BY <1>5, EndOfClose
  <2>2. drafts' = drafts BY <1>5 DEF SendClose, ReceiveClose
  <2> QED BY <2>1, <2>2 DEF ClosedKept
<1>6. ASSUME NEW t \in Tabs, ServeClose(t) PROVE DraftsInv' /\ ClosedKept
  BY <1>6, ServeCloseStep DEF RowsGrow, ClosedKept
<1>7. ASSUME (\E t \in Tabs : ServeSave(t)) \/ (\E c \in strays : ServeStray(c)) PROVE DraftsInv' /\ ClosedKept
  BY <1>7, ServeSteps DEF RowsGrow, ClosedKept
<1>8. ASSUME NEW t \in Tabs, NEW url, OpenPage(t, url) PROVE DraftsInv' /\ ClosedKept
  BY <1>8, OpenPageStep DEF OpenPage, ClosedKept
<1> QED BY <1>1, <1>2, <1>3, <1>4, <1>5, <1>6, <1>7, <1>8 DEF DraftsNext

\* Nothing is edited, and nothing is stored.
LEMMA DraftsStart ==
  ASSUME DraftsAssumption, DraftsInit
  PROVE  DraftsInv
<1> USE DEF DraftsInit
<1>1. edits = <<>> /\ Len(edits) = 0 /\ Known = {0} /\ Work = {} BY DEF Known, Work
<1>2. drafts = <<>> /\ Len(drafts) = 0 /\ DOMAIN drafts = {} OBVIOUS
<1>3. NewPage(0) \in Pages
  <2>1. NotCalling \in CallStates /\ NotCalling \in ClosingStates BY DEF CallStates, ClosingStates
  <2>2. <<>> \in Seq(Nat) OBVIOUS
  <2> QED BY <2>1, <2>2 DEF NewPage, Pages
<1>4. PageOK(NewPage(0))
  <2>1. /\ NewPage(0).form = 0 /\ NewPage(0).ready = FALSE /\ NewPage(0).timer = FALSE /\ NewPage(0).chain = <<>>
        /\ NewPage(0).call = NotCalling /\ NewPage(0).closing = NotCalling /\ NewPage(0).id = 0
        /\ NewPage(0).url = 0 /\ NewPage(0).status = "idle"
    BY DEF NewPage
  <2>2. DOMAIN NewPage(0).chain = {} BY <2>1
  <2>3. NotCalling.at = "none" BY DEF NotCalling
  <2> HIDE DEF DraftsInit
  <2> QED BY <1>1, <1>2, <2>1, <2>2, <2>3 DEF PageOK, ChainOK, FreshOK, ClosingOK, SeesOK, CallOK, TailOK, Sees
<1>5. page \in [Tabs -> Pages] /\ \A t \in Tabs : PageOK(page[t]) BY <1>3, <1>4
<1>6. DraftTablesOK
  <2>1. buffer \in [Profiles -> Known] /\ last \in [Tabs -> Known] BY <1>1
  <2>2. drafts \in Seq(DraftRow) BY <1>2
  <2> QED BY <1>1, <1>2, <1>5, <2>1, <2>2 DEF DraftTablesOK
<1>7. LineageOK BY <1>1 DEF LineageOK
<1>8. WorkSurvives BY DEF WorkSurvives
<1> QED BY <1>5, <1>6, <1>7, <1>8 DEF DraftsInv

\* A draft that is closed stays as it is, and who knows a revision of one has
\* seen what it says: the invariant behind the promises of the hook.
LEMMA DraftsKept == DraftsSpec => [](DraftsInv /\ DraftsAssumption)
<1>1. DraftsInv /\ DraftsAssumption /\ [DraftsNext]_draftVars => (DraftsInv /\ DraftsAssumption)'
  <2> SUFFICES ASSUME DraftsInv, DraftsAssumption, [DraftsNext]_draftVars PROVE (DraftsInv /\ DraftsAssumption)'
    OBVIOUS
  <2>1. CASE UNCHANGED draftVars
    <3>1. UNCHANGED <<page, buffer, drafts, strays, edits, last, saved, trampled, displaced>> BY <2>1 DEF draftVars
    <3>2. DraftsGrow BY <3>1, StillGrows
    <3>3. WorkSurvives' BY <3>1 DEF DraftsInv, WorkSurvives, MadeFrom
    <3>4. LineageOK' BY <3>1 DEF DraftsInv, LineageOK, Work, MadeFrom
    <3>5. Known' = Known /\ Work' = Work BY <3>1 DEF Known, Work
    <3> QED BY <3>1, <3>2, <3>3, <3>4, <3>5, DraftsStep DEF DraftsInv, DraftTablesOK
  <2> QED BY <2>1, DraftsNextKeeps
<1>2. DraftsInit => DraftsInv /\ DraftsAssumption BY DraftsAssumption, DraftsStart
<1> QED BY <1>1, <1>2, PTL DEF DraftsSpec

\* What the hooks of all tabs and the server keep between them.
THEOREM DraftsInvariant == DraftsSpec => []DraftsInv
BY DraftsKept, PTL

\* No save replaces work it was not made from, what is shown as saved is saved,
\* and an edit stays in the recovery buffer or on the server until it is
\* displaced (useWorkflowDraft, update_workflow_draft).
THEOREM DraftsStaySafe == DraftsSpec => []DraftsAreSafe
<1>1. DraftsInv => DraftsAreSafe
  <2> SUFFICES ASSUME DraftsInv PROVE DraftsAreSafe
    OBVIOUS
  <2>1. DraftsTypeOK
    <3>1. \A d \in DOMAIN drafts : /\ drafts[d].status \in {"active", "closed"}
                                   /\ drafts[d].payload \in saved /\ saved \subseteq 1..Len(edits)
      <4>1. \A d \in DOMAIN drafts : drafts[d] \in DraftRow BY DEF DraftsInv, DraftTablesOK
      <4>2. \A d \in DOMAIN drafts : drafts[d].status \in {"active", "closed"} BY <4>1 DEF DraftRow
      <4> QED BY <4>2 DEF DraftsInv, DraftTablesOK, Work
    <3>2. \A t \in Tabs : page[t].id \in DOMAIN drafts => page[t].revision \in 1..drafts[page[t].id].revision
      <4> SUFFICES ASSUME NEW t \in Tabs, page[t].id \in DOMAIN drafts
                   PROVE  page[t].revision \in 1..drafts[page[t].id].revision
        OBVIOUS
      <4>1. page[t].id # 0 /\ page[t].revision \in Nat /\ PageOK(page[t]) BY KnownPage, PageFields
      <4>2. page[t].revision > 0 /\ Sees(page[t].id, page[t].revision, page[t].form)
        BY <4>1 DEF PageOK, ChainOK, SeesOK
      <4>3. drafts[page[t].id] \in DraftRow BY DEF DraftsInv, DraftTablesOK
      <4>4. drafts[page[t].id].revision \in Nat BY <4>3 DEF DraftRow
      <4> QED BY <4>1, <4>2, <4>4 DEF Sees
    <3>3. \A t \in Tabs : page[t].id # 0 => page[t].id \in DOMAIN drafts
      <4> SUFFICES ASSUME NEW t \in Tabs, page[t].id # 0 PROVE page[t].id \in DOMAIN drafts
        OBVIOUS
      <4>1. PageOK(page[t]) /\ Len(drafts) \in Nat /\ DOMAIN drafts = 1..Len(drafts) BY KnownPage
      <4> QED BY <4>1 DEF PageOK, ChainOK
    <3>4. \A t \in Tabs : page[t].call # NotCalling => page[t].chain # <<>> BY KnownPage DEF PageOK, ChainOK
    <3>5. \A t \in Tabs : page[t].closing.at = "waiting" => page[t].closing.behind \in 0..Len(page[t].chain)
      <4> SUFFICES ASSUME NEW t \in Tabs, page[t].closing.at = "waiting"
                   PROVE  page[t].closing.behind \in 0..Len(page[t].chain)
        OBVIOUS
      <4>1. page[t].closing.behind \in Nat /\ page[t].chain \in Seq(Nat) BY KnownPage, PageFields, CallShapes
      <4>2. page[t].closing.behind <= Len(page[t].chain) BY KnownPage DEF PageOK, ClosingOK
      <4> QED BY <4>1, <4>2
    <3> QED BY <3>1, <3>2, <3>3, <3>4, <3>5 DEF DraftsTypeOK
  <2>2. NoBlindSave /\ WorkSurvives BY DEF DraftsInv, DraftTablesOK, NoBlindSave
  <2>3. SavedIsSaved BY KnownPage DEF PageOK, TailOK, SavedIsSaved
  <2> QED BY <2>1, <2>2, <2>3 DEF DraftsAreSafe
<1> QED BY <1>1, DraftsInvariant, PTL

\* A completed or cancelled draft never changes again, whatever requests that
\* knew it open arrive later (transition_workflow_draft).
THEOREM ClosedDraftsStayClosed == DraftsSpec => ClosedStaysClosed
<1>1. DraftsInv /\ DraftsAssumption /\ [DraftsNext]_draftVars
        => [\A d \in DOMAIN drafts : drafts[d].status = "closed" => drafts'[d] = drafts[d]]_draftVars
  BY DraftsNextKeeps DEF ClosedKept
<1> QED BY <1>1, DraftsKept, PTL DEF DraftsSpec, ClosedStaysClosed

-----------------------------------------------------------------------------
(* What they promise together.                                             *)

\* Of every photo and every report, what several people and workers do at the
\* same time is counted once (backups.py, help_center.py).
THEOREM InboxesStayOrderly == InboxSpec /\ HelpSpec => []InboxesAreOrderly
<1>1. HelpInv => HelpHolds BY DEF HelpInv
<1>2. InboxIsOrderly /\ HelpHolds => InboxesAreOrderly BY DEF InboxesAreOrderly
<1> QED BY <1>1, <1>2, InboxKept, InboxInvariant, HelpInvariant, PTL

\* A disabled account's sessions and a closed draft are not opened again by any
\* request that read them before (auth.py, transition_workflow_draft).
THEOREM EndedThingsStayEnded == AccountsSpec /\ DraftsSpec => NothingReopens
BY EndedSessionsStayEnded, ClosedDraftsStayClosed, PTL DEF NothingReopens

=============================================================================
