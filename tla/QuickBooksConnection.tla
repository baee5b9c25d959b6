----------------------- MODULE QuickBooksConnection -----------------------
(***************************************************************************)
(* The QuickBooks connection of one environment                            *)
(* (backend/app/api/v1/routes/quickbooks.py): OAuth start and callback,    *)
(* company verification with token rotation, disconnect, and the saved     *)
(* credentials, as concurrent requests on one database row.                *)
(*                                                                         *)
(* An ORM object is loaded once in a transaction and a commit writes the   *)
(* columns whose value differs from the loaded one, whatever the row holds *)
(* by then.  Only a verification locks the row when it reads it; every     *)
(* write waits for the lock.                                               *)
(***************************************************************************)
EXTENDS Naturals, FiniteSets

CONSTANTS
  Requests,      \* the concurrent requests of administrators
  States,        \* OAuth state values
  Realms,        \* QuickBooks companies
  None,
  MaxGrants,     \* authorisations the provider gives
  MaxKeys,       \* credentials saved, each with a token key of its own
  MaxRotations,  \* refresh tokens rotated
  MaxFaults      \* crashes, and answers of the provider that get lost

VARIABLES
  row,           \* the quickbooks_connections row
  key,           \* the token key of the saved configuration; 0: none saved
  keys,          \* keys ever saved
  states,        \* the quickbooks_oauth_states table
  grants,        \* the provider: its authorisations
  req,           \* each request
  lock,          \* the holder of the row's lock
  lost,          \* grants whose rotated token got lost
  faults,
  admins         \* "one" administrator, who waits for each answer, or "several"

quickbooksVars == <<row, key, keys, states, grants, req, lock, lost, faults, admins>>

(***************************************************************************)
(* A token is the n-th refresh token of a grant; the access token that is  *)
(* stored with it goes the same ways.  It is encrypted with a key.         *)
(***************************************************************************)
Grants == 1..MaxGrants
Token == [grant: Grants, n: Nat, key: Nat]

ASSUME QuickBooksAssumption == None \notin Requests \cup States \cup Realms /\ None \notin Token

RowStatuses == {"none", "connected", "reconnect_required", "disconnected"}

Rows == [status: RowStatuses, realm: Realms \cup {None}, token: Token \cup {None}]

NoConnection == [status |-> "none", realm |-> None, token |-> None]

Places == {"idle", "load", "exchange", "save",
           "lock", "refresh", "saveRefresh", "reload", "company", "saveCompany",
           "recheck", "clear",
           "revoke", "saveDisconnect", "saveKey"}

\* loaded: the ORM object; realm, key: what the request was called with and
\* the key it read; token: what the provider gave it; rotated: it refreshed.
Idle == [at |-> "idle", loaded |-> NoConnection, realm |-> None, key |-> 0,
         token |-> None, rotated |-> FALSE]

QuickBooksTypeOK ==
  /\ row \in Rows
  /\ key \in Nat /\ keys \in Nat
  /\ states \in [States -> {"new", "open", "used", "expired"}]
  /\ grants \in [Grants -> [realm: Realms \cup {None}, current: Nat, live: BOOLEAN]]
  /\ req \in [Requests -> [at: Places, loaded: Rows, realm: Realms \cup {None}, key: Nat,
                           token: Token \cup {None}, rotated: BOOLEAN]]
  /\ lock \in Requests \cup {None}
  /\ lost \subseteq Grants
  /\ faults \in Nat
  /\ admins \in {"one", "several"}

QuickBooksInit ==
  /\ row = NoConnection
  /\ key = 0 /\ keys = 0
  /\ states = [s \in States |-> "new"]
  /\ grants = [g \in Grants |-> [realm |-> None, current |-> 0, live |-> FALSE]]
  /\ req = [r \in Requests |-> Idle]
  /\ lock = None
  /\ lost = {} /\ faults = 0
  /\ admins \in {"one", "several"}

-----------------------------------------------------------------------------
(* Requests and the row.                                                   *)

\* One administrator has no second request under way.
MayBegin(r) ==
  /\ req[r].at = "idle"
  /\ admins = "one" => \A q \in Requests : req[q].at = "idle"

Go(r, to) == req' = [req EXCEPT ![r].at = to]

\* The session ends: commit or rollback, and the lock is given back.
EndRequest(r) ==
  /\ req' = [req EXCEPT ![r] = Idle]
  /\ lock' = IF lock = r THEN None ELSE lock

Writable(r) == lock \in {None, r}

\* The UPDATE of a flush: the attributes that differ from the loaded ones.
Flush(r, new) ==
  row' = [f \in DOMAIN row |-> IF new[f] = req[r].loaded[f] THEN row[f] ELSE new[f]]

\* _clear_tokens_for_reconnect
Cleared(r) == [req[r].loaded EXCEPT !.status = "reconnect_required", !.token = None]

Decrypts(token, k) == token = None \/ token.key = k

-----------------------------------------------------------------------------
(* The saved credentials.                                                  *)

\* configure and remove read the connection, and save in a later statement.
BeginConfigure(r) ==
  /\ MayBegin(r)
  /\ row.status # "connected"
  /\ keys < MaxKeys
  /\ Go(r, "saveKey")
  /\ UNCHANGED <<row, key, keys, states, grants, lock, lost, faults, admins>>

SaveConfiguration(r) ==
  /\ req[r].at = "saveKey" /\ keys < MaxKeys
  /\ keys' = keys + 1
  /\ key' = keys'
  /\ EndRequest(r)
  /\ UNCHANGED <<row, states, grants, lost, faults, admins>>

RemoveConfiguration(r) ==
  /\ req[r].at = "saveKey"
  /\ key' = 0
  /\ EndRequest(r)
  /\ UNCHANGED <<row, keys, states, grants, lost, faults, admins>>

-----------------------------------------------------------------------------
(* OAuth.                                                                  *)

StartOAuth(s) ==
  /\ key # 0
  /\ states[s] = "new"
  /\ states' = [states EXCEPT ![s] = "open"]
  /\ UNCHANGED <<row, key, keys, grants, req, lock, lost, faults, admins>>

\* Ten minutes pass.
ExpireState(s) ==
  /\ states[s] = "open"
  /\ states' = [states EXCEPT ![s] = "expired"]
  /\ UNCHANGED <<row, key, keys, grants, req, lock, lost, faults, admins>>

Consumable(s) == states[s] = "open"

\* _consume_oauth_state, a compare-and-set with its commit; then the user may
\* have denied, or the answer is incomplete.
ConsumeState(r, s, realm) ==
  /\ MayBegin(r)
  /\ key # 0 /\ Consumable(s)
  /\ states' = [states EXCEPT ![s] = "used"]
  /\ \/ req' = [req EXCEPT ![r].at = "load", ![r].realm = realm, ![r].key = key]
     \/ UNCHANGED req
  /\ UNCHANGED <<row, key, keys, grants, lock, lost, faults, admins>>

\* _connection: the realm check, and the old refresh token is decrypted.
LoadForCallback(r) ==
  /\ req[r].at = "load"
  /\ IF \/ row.status \notin {"none", "disconnected"} /\ row.realm # req[r].realm
        \/ ~Decrypts(row.token, req[r].key)
     THEN EndRequest(r)
     ELSE req' = [req EXCEPT ![r].at = "exchange", ![r].loaded = row] /\ UNCHANGED lock
  /\ UNCHANGED <<row, key, keys, states, grants, lost, faults, admins>>

\* The provider exchanges the code and names the company, or does not.
ExchangeCode(r, g) ==
  /\ req[r].at = "exchange"
  /\ grants[g].realm = None
  /\ grants' = [grants EXCEPT ![g] = [realm |-> req[r].realm, current |-> 0, live |-> TRUE]]
  /\ req' = [req EXCEPT ![r].at = "save",
                        ![r].token = [grant |-> g, n |-> 0, key |-> req[r].key]]
  /\ UNCHANGED <<row, key, keys, states, lock, lost, faults, admins>>

ExchangeFails(r) ==
  /\ req[r].at = "exchange"
  /\ EndRequest(r)
  /\ UNCHANGED <<row, key, keys, states, grants, lost, faults, admins>>

\* The commit: an UPDATE, or an INSERT that fails if a row is there by now.
SaveConnection(r) ==
  LET new == [status |-> "connected", realm |-> req[r].realm, token |-> req[r].token] IN
  /\ req[r].at = "save" /\ Writable(r)
  /\ CASE req[r].loaded.status # "none" -> Flush(r, new)
       [] req[r].loaded.status = "none" /\ row.status = "none" -> row' = new
       [] OTHER -> UNCHANGED row
  /\ EndRequest(r)
  /\ UNCHANGED <<key, keys, states, grants, lost, faults, admins>>

-----------------------------------------------------------------------------
(* verify.                                                                 *)

BeginVerify(r) ==
  /\ MayBegin(r)
  /\ key # 0
  /\ req' = [req EXCEPT ![r].at = "lock", ![r].key = key]
  /\ UNCHANGED <<row, key, keys, states, grants, lock, lost, faults, admins>>

\* The access token is still good, or it is refreshed; or the connection is
\* not connected, or the token cannot be decrypted.
VerifyFrom(r, holder) ==
  \/ /\ row.status = "connected"
     /\ \/ /\ row.token # None /\ Decrypts(row.token, req[r].key)
           /\ req' = [req EXCEPT ![r].at = "company", ![r].loaded = row]
        \/ req' = [req EXCEPT ![r].at = "refresh", ![r].loaded = row]
     /\ lock' = holder
  \/ /\ row.status = "connected" => ~Decrypts(row.token, req[r].key)
     /\ EndRequest(r)

\* Mutant of LockConnection: the row is read without FOR UPDATE.
ReadConnection(r) ==
  /\ req[r].at = "lock"
  /\ VerifyFrom(r, lock)
  /\ UNCHANGED <<row, key, keys, states, grants, lost, faults, admins>>

\* _locked_connection
LockConnection(r) ==
  /\ req[r].at = "lock" /\ lock = None
  /\ VerifyFrom(r, r)
  /\ UNCHANGED <<row, key, keys, states, grants, lost, faults, admins>>

\* The provider takes the refresh token and gives the next one.
Presented(r) == req[r].loaded.token

Refreshable(r) == Presented(r) # None /\ Decrypts(Presented(r), req[r].key)

Valid(token) == grants[token.grant].live /\ grants[token.grant].current = token.n

RotateToken(r) ==
  /\ req[r].at = "refresh"
  /\ Refreshable(r) /\ Valid(Presented(r))
  /\ Presented(r).n < MaxRotations
  /\ grants' = [grants EXCEPT ![Presented(r).grant].current = @ + 1]
  /\ req' = [req EXCEPT ![r].at = "saveRefresh",
                        ![r].token = [Presented(r) EXCEPT !.n = @ + 1]]
  /\ UNCHANGED <<row, key, keys, states, lock, lost, faults, admins>>

\* The answer is lost: the provider has rotated, the old token is kept.
AnswerLost(r) ==
  /\ req[r].at = "refresh" /\ faults < MaxFaults
  /\ Refreshable(r) /\ Valid(Presented(r))
  /\ Presented(r).n < MaxRotations
  /\ grants' = [grants EXCEPT ![Presented(r).grant].current = @ + 1]
  /\ lost' = lost \cup {Presented(r).grant}
  /\ faults' = faults + 1
  /\ EndRequest(r)
  /\ UNCHANGED <<row, key, keys, states, admins>>

\* invalid_grant, no token, or one that cannot be decrypted.
RefreshRefused(r) ==
  /\ req[r].at = "refresh"
  /\ ~(Refreshable(r) /\ Valid(Presented(r)))
  /\ Flush(r, Cleared(r))
  /\ EndRequest(r)
  /\ UNCHANGED <<key, keys, states, grants, lost, faults, admins>>

\* The client's credentials are refused (401), which may clear the tokens; the
\* commit gives the lock back, and the handler of verify goes on without it.
RefreshUnauthorized(r) ==
  /\ req[r].at = "refresh" /\ Refreshable(r)
  /\ Flush(r, Cleared(r)) \/ UNCHANGED row
  /\ lock' = IF lock = r THEN None ELSE lock
  /\ Go(r, "recheck")
  /\ UNCHANGED <<key, keys, states, grants, lost, faults, admins>>

\* The provider cannot be reached: the tokens are kept.
ProviderFails(r) ==
  /\ req[r].at \in {"refresh", "company"}
  /\ EndRequest(r)
  /\ UNCHANGED <<row, key, keys, states, grants, lost, faults, admins>>

\* The commit gives the lock back in the middle of the request.
SaveRefresh(r) ==
  /\ req[r].at = "saveRefresh" /\ Writable(r)
  /\ Flush(r, [req[r].loaded EXCEPT !.token = req[r].token])
  /\ lock' = IF lock = r THEN None ELSE lock
  /\ Go(r, "reload")
  /\ UNCHANGED <<key, keys, states, grants, lost, faults, admins>>

\* connection.realm_id, or _connection: the attributes expired with the commit.
Reload(r) ==
  /\ \/ /\ req[r].at = "reload"
        /\ req' = [req EXCEPT ![r].at = "company", ![r].loaded = row, ![r].rotated = TRUE]
     \/ /\ req[r].at = "recheck"
        /\ req' = [req EXCEPT ![r].at = "clear", ![r].loaded = row]
  /\ UNCHANGED <<row, key, keys, states, grants, lock, lost, faults, admins>>

CompanyRead(r) ==
  /\ req[r].at = "company"
  /\ Go(r, "saveCompany")
  /\ UNCHANGED <<row, key, keys, states, grants, lock, lost, faults, admins>>

\* 401: refresh once, then give the tokens up.
CompanyUnauthorized(r) ==
  /\ req[r].at = "company"
  /\ Go(r, IF req[r].rotated THEN "clear" ELSE "refresh")
  /\ UNCHANGED <<row, key, keys, states, grants, lock, lost, faults, admins>>

SaveCompany(r) ==
  /\ req[r].at = "saveCompany" /\ Writable(r)
  /\ Flush(r, [req[r].loaded EXCEPT !.status = "connected"])
  /\ EndRequest(r)
  /\ UNCHANGED <<key, keys, states, grants, lost, faults, admins>>

ClearTokens(r) ==
  /\ req[r].at = "clear" /\ Writable(r)
  /\ Flush(r, Cleared(r))
  /\ EndRequest(r)
  /\ UNCHANGED <<key, keys, states, grants, lost, faults, admins>>

-----------------------------------------------------------------------------
(* disconnect.                                                             *)

LoadForDisconnect(r) ==
  /\ MayBegin(r)
  /\ row.status # "none"
  /\ req' = [req EXCEPT ![r].at = "revoke", ![r].loaded = row, ![r].key = key]
  /\ UNCHANGED <<row, key, keys, states, grants, lock, lost, faults, admins>>

\* The provider revokes the grant; or there is no token, it cannot be
\* decrypted, or the provider cannot be reached.
Revoke(r) ==
  /\ req[r].at = "revoke"
  /\ Go(r, "saveDisconnect")
  /\ \/ /\ Refreshable(r)
        /\ grants' = [grants EXCEPT ![Presented(r).grant].live = FALSE]
     \/ UNCHANGED grants
  /\ UNCHANGED <<row, key, keys, states, lock, lost, faults, admins>>

Disconnected(loaded) == [loaded EXCEPT !.status = "disconnected", !.token = None]

SaveDisconnect(r) ==
  /\ req[r].at = "saveDisconnect" /\ Writable(r)
  /\ Flush(r, Disconnected(req[r].loaded))
  /\ EndRequest(r)
  /\ UNCHANGED <<key, keys, states, grants, lost, faults, admins>>

-----------------------------------------------------------------------------
\* The process dies; a token the provider rotated and nobody stored is lost.
CrashRequest(r) ==
  /\ faults < MaxFaults
  /\ req[r].at # "idle"
  /\ faults' = faults + 1
  /\ lost' = IF req[r].at = "saveRefresh" THEN lost \cup {req[r].token.grant} ELSE lost
  /\ EndRequest(r)
  /\ UNCHANGED <<row, key, keys, states, grants, admins>>

Proceed(r) ==
  \/ SaveConfiguration(r) \/ RemoveConfiguration(r)
  \/ LoadForCallback(r) \/ ExchangeFails(r) \/ SaveConnection(r)
  \/ \E g \in Grants : ExchangeCode(r, g)
  \/ LockConnection(r)
  \/ RotateToken(r) \/ AnswerLost(r)
  \/ RefreshRefused(r) \/ RefreshUnauthorized(r) \/ ProviderFails(r)
  \/ SaveRefresh(r) \/ Reload(r)
  \/ CompanyRead(r) \/ CompanyUnauthorized(r) \/ SaveCompany(r) \/ ClearTokens(r)
  \/ Revoke(r) \/ SaveDisconnect(r)

BeginRequest(r) ==
  \/ BeginConfigure(r) \/ BeginVerify(r) \/ LoadForDisconnect(r)
  \/ \E s \in States, realm \in Realms : ConsumeState(r, s, realm)

QuickBooksNext ==
  \/ \E r \in Requests : BeginRequest(r) \/ Proceed(r) \/ CrashRequest(r)
  \/ \E s \in States : StartOAuth(s) \/ ExpireState(s)

QuickBooksSpec == QuickBooksInit /\ [][QuickBooksNext]_quickbooksVars

-----------------------------------------------------------------------------
(* Properties.                                                             *)

\* However many callbacks race, each authorisation the user gave is exchanged
\* at most once (_consume_oauth_state).
StateUsedOnce ==
  Cardinality({g \in Grants : grants[g].realm # None})
    <= Cardinality({s \in States : states[s] = "used"})

\* A refresh presents the token the provider issued last, so that concurrent
\* verifications cannot overwrite a rotated token with an older one
\* (docs/quickbooks-live-read-only.md:56): only a crash or a
\* lost answer loses a token.
RefreshPresentsNewest ==
  \A r \in Requests :
    req[r].at = "refresh" /\ Refreshable(r) =>
      \/ Presented(r).n = grants[Presented(r).grant].current
      \/ Presented(r).grant \in lost

\* The token on record is the newest one of its grant, unless the request
\* that rotated it is about to store the next.
StoredIsNewest ==
  row.token # None =>
    \/ row.token.n = grants[row.token.grant].current
    \/ row.token.grant \in lost
    \/ \E r \in Requests : req[r].at = "saveRefresh" /\ req[r].token.grant = row.token.grant

\* A disconnected connection keeps no tokens, whatever else is under way
\* (docs/quickbooks-sandbox-oauth.md:67).
DisconnectKeepsNoToken == row.status = "disconnected" => row.token = None

\* The same while one administrator does one thing at a time.
OneAdminDisconnects == admins = "one" => DisconnectKeepsNoToken

\* One administrator's connected company has a token of that very company,
\* encrypted with the key on record (docs/quickbooks-online-integration.md:23,
\* docs/quickbooks-sandbox-oauth.md:37).
OneAdminConnects ==
  admins = "one" /\ row.status = "connected" =>
    /\ row.token # None
    /\ row.token.key = key
    /\ grants[row.token.grant].realm = row.realm

\* However verifications, callbacks and disconnects race, what is presented to
\* Intuit and what is on record is the newest token of its grant, and each
\* consent is exchanged once.
TokensAreNewest == StateUsedOnce /\ RefreshPresentsNewest /\ StoredIsNewest

\* One administrator who waits for each answer gets what it asked for: a
\* disconnected row without tokens, a connected company with its own.
OneAdminIsServed == OneAdminDisconnects /\ OneAdminConnects

\* Tokens rotate in order for any administrators, and one is served by what it
\* asks for (services/quickbooks.py and its routes).
QuickBooksHolds == QuickBooksTypeOK /\ TokensAreNewest /\ OneAdminIsServed

=============================================================================
