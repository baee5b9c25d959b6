-------------------------- MODULE ConnectionProofs --------------------------
(***************************************************************************)
(* Proofs about the connections to QuickBooks and to Google Calendar and   *)
(* about the media library, for any number of requests at once, of OAuth   *)
(* states, companies, grants, consents, documents and calls that fail, and *)
(* for any of the bounds.                                                  *)
(***************************************************************************)
EXTENDS QuickBooksConnection, GoogleCalendar, MediaLibrary, FiniteSetTheorems, SequenceTheorems, TLAPS

-----------------------------------------------------------------------------
(* QuickBooks: the inductive invariant.                                    *)

\* About to present the token of the row it locked.
Presents(r) ==
  \/ req[r].at \in {"refresh", "saveRefresh"}
  \/ req[r].at = "company" /\ ~req[r].rotated

\* Who presents a token holds the lock, and the row is as it was read.
HoldersSeeTheRow == \A r \in Requests : Presents(r) => lock = r /\ req[r].loaded = row

Given(g) == grants[g].realm # None

Held(token) == token # None => Given(token.grant)

\* Every token about is one of a grant the provider gave.
TokensWereGiven ==
  /\ Held(row.token)
  /\ \A r \in Requests : Held(req[r].loaded.token) /\ Held(req[r].token)

OfAnother(g, token) == token = None \/ token.grant # g

\* The first token of a grant, which nobody else has.
Fresh(r) ==
  LET t == req[r].token IN
  /\ t # None /\ t.n = 0 /\ t.key = req[r].key
  /\ grants[t.grant].realm = req[r].realm /\ grants[t.grant].current = 0
  /\ OfAnother(t.grant, row.token)
  /\ \A q \in Requests : OfAnother(t.grant, req[q].loaded.token)
  /\ \A q \in Requests \ {r} : OfAnother(t.grant, req[q].token)

FreshTokens == \A r \in Requests : req[r].at = "save" => Fresh(r)

CallbacksNameRealms ==
  \A r \in Requests : req[r].at \in {"load", "exchange", "save"} => req[r].realm # None

\* The successor of the token that was presented.
Rotated(r) ==
  LET old == req[r].loaded.token
      new == req[r].token IN
  /\ old # None /\ new # None
  /\ new.grant = old.grant /\ new.key = old.key /\ new.n = old.n + 1
  /\ new.n = grants[new.grant].current

RotatedTokens == \A r \in Requests : req[r].at = "saveRefresh" => Rotated(r)

GivenGrants == {g \in Grants : Given(g)}
UsedStates == {s \in States : states[s] = "used"}
Consented == {r \in Requests : req[r].at \in {"load", "exchange"}}

\* A state is used up for every grant, and for every callback on its way to one.
StatesPayForGrants ==
  /\ IsFiniteSet(GivenGrants) /\ IsFiniteSet(UsedStates) /\ IsFiniteSet(Consented)
  /\ Cardinality(GivenGrants) + Cardinality(Consented) <= Cardinality(UsedStates)

TokensInv ==
  /\ QuickBooksTypeOK
  /\ HoldersSeeTheRow
  /\ TokensWereGiven /\ FreshTokens /\ CallbacksNameRealms /\ RotatedTokens
  /\ StoredIsNewest

-----------------------------------------------------------------------------
(* What one request does.                                                  *)

GrantType == [realm: Realms \cup {None}, current: Nat, live: BOOLEAN]

RequestType == [at: Places, loaded: Rows, realm: Realms \cup {None}, key: Nat,
                token: Token \cup {None}, rotated: BOOLEAN]

\* An UPDATE writes each attribute that differs from the loaded one.
LEMMA FlushedRow ==
  ASSUME QuickBooksTypeOK, NEW r \in Requests, NEW new \in Rows, Flush(r, new)
  PROVE  /\ row' \in Rows
         /\ row'.status = IF new.status = req[r].loaded.status THEN row.status ELSE new.status
         /\ row'.realm = IF new.realm = req[r].loaded.realm THEN row.realm ELSE new.realm
         /\ row'.token = IF new.token = req[r].loaded.token THEN row.token ELSE new.token
<1>1. row \in Rows /\ req[r].loaded \in Rows BY DEF QuickBooksTypeOK
<1> DEFINE choice(f) == IF new[f] = req[r].loaded[f] THEN row[f] ELSE new[f]
<1>2. row' = [f \in {"status", "realm", "token"} |-> choice(f)]
  <2>1. DOMAIN row = {"status", "realm", "token"} BY <1>1 DEF Rows
  <2> QED BY <2>1 DEF Flush
<1>3. row' = [status |-> choice("status"), realm |-> choice("realm"), token |-> choice("token")]
  BY <1>2
<1>4. /\ choice("status") \in RowStatuses
      /\ choice("realm") \in Realms \cup {None}
      /\ choice("token") \in Token \cup {None}
  BY <1>1 DEF Rows
<1> QED BY <1>3, <1>4 DEF Rows

\* Tokens only move: from the row to the request that reads it, from the request
\* to the row, from a token to its successor.  The row and the lock stay as they
\* are while another request holds the lock.
TokensMove(r) ==
  /\ req' \in [Requests -> RequestType]
  /\ \A q \in Requests \ {r} : req'[q] = req[q]
  /\ row' = row \/ lock \in {None, r}
  /\ lock' = lock \/ lock \in {None, r}
  /\ row'.token \in {None, row.token, req[r].token}
  /\ req'[r].loaded.token \in {None, row.token, req[r].loaded.token}
  /\ \/ req'[r].token \in {None, req[r].token}
     \/ /\ lock = r /\ req[r].loaded.token # None /\ req'[r].token # None
        /\ req'[r].token.grant = req[r].loaded.token.grant
  /\ \A g \in Grants :
       /\ grants'[g].realm = grants[g].realm
       /\ \/ grants'[g].current = grants[g].current
          \/ lock = r /\ req[r].loaded.token # None /\ req[r].loaded.token.grant = g

\* What holds of the tokens of the others, and of their origin, stays.
LEMMA MovedTokens ==
  ASSUME TokensInv, NEW r \in Requests, TokensMove(r), req'[r].at # "save",
         Presents(r)' => lock' = r /\ req'[r].loaded = row',
         req'[r].at = "saveRefresh" => Rotated(r)',
         req'[r].at \in {"load", "exchange"} => req'[r].realm # None
  PROVE  /\ HoldersSeeTheRow' /\ TokensWereGiven' /\ FreshTokens'
         /\ CallbacksNameRealms' /\ RotatedTokens'
<1> USE DEF TokensMove
<1>1. /\ QuickBooksTypeOK /\ HoldersSeeTheRow /\ TokensWereGiven
      /\ FreshTokens /\ CallbacksNameRealms /\ RotatedTokens
  BY DEF TokensInv
<1>2. HoldersSeeTheRow'
  <2> SUFFICES ASSUME NEW q \in Requests, q # r, Presents(q)' PROVE lock' = q /\ req'[q].loaded = row'
    BY DEF HoldersSeeTheRow
  <2>1. Presents(q) BY DEF Presents
  <2>2. lock = q /\ req[q].loaded = row BY <1>1, <2>1 DEF HoldersSeeTheRow
  <2>3. q # None BY QuickBooksAssumption
  <2> QED BY <2>2, <2>3
<1>3. TokensWereGiven'
  <2> DEFINE known(t) == t # None => grants'[t.grant].realm # None
  <2>1. \A t \in Token \cup {None} : Held(t) => known(t) BY DEF Held, Given, Token
  <2>2. /\ \A q \in Requests : req[q].loaded.token \in Token \cup {None} /\ req[q].token \in Token \cup {None}
        /\ row.token \in Token \cup {None}
    BY <1>1 DEF QuickBooksTypeOK, Rows
  <2>3. \A q \in Requests : req'[q].loaded.token \in Token \cup {None} /\ req'[q].token \in Token \cup {None}
    BY DEF RequestType, Rows
  <2>4. Held(row.token) /\ \A q \in Requests : Held(req[q].loaded.token) /\ Held(req[q].token)
    BY <1>1 DEF TokensWereGiven
  <2>5. Held(None) BY DEF Held
  <2>6. known(row'.token) BY <2>1, <2>2, <2>4, <2>5
  <2>7. known(req'[r].loaded.token) BY <2>1, <2>3, <2>4, <2>5
  <2>8. Held(req'[r].token) BY <2>4, <2>5 DEF Held
  <2>9. known(req'[r].token) BY <2>1, <2>3, <2>8
  <2>10. ASSUME NEW q \in Requests PROVE known(req'[q].loaded.token) /\ known(req'[q].token)
    <3>1. CASE q = r BY <3>1, <2>7, <2>9
    <3>2. CASE q # r BY <3>2, <2>1, <2>2, <2>4
    <3> QED BY <3>1, <3>2
  <2> QED BY <2>6, <2>10 DEF TokensWereGiven, Held, Given
<1>4. FreshTokens'
  <2> SUFFICES ASSUME NEW q \in Requests, req'[q].at = "save" PROVE Fresh(q)'
    BY DEF FreshTokens
  <2>1. q # r /\ req'[q] = req[q] OBVIOUS
  <2>2. Fresh(q) BY <1>1, <2>1 DEF FreshTokens
  <2> DEFINE g == req[q].token.grant
  <2>3. g \in Grants /\ req[q].token # None BY <1>1, <2>2 DEF QuickBooksTypeOK, Fresh, Token
  <2>4. OfAnother(g, row.token) /\ OfAnother(g, req[r].token) /\ OfAnother(g, req[r].loaded.token)
    BY <2>1, <2>2 DEF Fresh
  <2>5. grants'[g].realm = grants[g].realm /\ grants'[g].current = grants[g].current
    BY <2>3, <2>4 DEF OfAnother
  <2>6. OfAnother(g, row'.token) /\ OfAnother(g, req'[r].token) /\ OfAnother(g, req'[r].loaded.token)
    BY <2>4 DEF OfAnother
  <2>7. \A p \in Requests : OfAnother(g, req'[p].loaded.token)
    BY <2>2, <2>6 DEF Fresh
  <2>8. \A p \in Requests \ {q} : OfAnother(g, req'[p].token)
    BY <2>2, <2>6 DEF Fresh
  <2> QED BY <2>1, <2>2, <2>3, <2>5, <2>6, <2>7, <2>8, SMTT(30) DEF Fresh, OfAnother
<1>5. CallbacksNameRealms' BY <1>1 DEF CallbacksNameRealms
<1>6. RotatedTokens'
  <2> SUFFICES ASSUME NEW q \in Requests, q # r, req'[q].at = "saveRefresh" PROVE Rotated(q)'
    BY DEF RotatedTokens
  <2>1. req'[q] = req[q] OBVIOUS
  <2>2. Rotated(q) /\ lock = q BY <1>1, <2>1 DEF RotatedTokens, HoldersSeeTheRow, Presents
  <2>3. req[q].token.grant \in Grants BY <1>1, <2>2 DEF QuickBooksTypeOK, Rotated, Token
  <2>4. grants'[req[q].token.grant].current = grants[req[q].token.grant].current
    BY <2>2, <2>3
  <2> QED BY <2>1, <2>2, <2>4 DEF Rotated
<1> QED BY <1>2, <1>3, <1>4, <1>5, <1>6

\* What a request comes to by one step.
Lands(r) ==
  /\ req'[r].at # "save"
  /\ Presents(r)' => lock' = r /\ req'[r].loaded = row'
  /\ req'[r].at = "saveRefresh" => Rotated(r)'
  /\ req'[r].at \in {"load", "exchange"} => req'[r].realm # None

Moves(r) == QuickBooksTypeOK' /\ TokensMove(r) /\ Lands(r)

\* A request that has locked the row has read it.
LEMMA LockedRequest ==
  ASSUME NEW s \in RequestType, NEW to \in {"company", "refresh"}, NEW loaded \in Rows
  PROVE  [[s EXCEPT !.at = to] EXCEPT !.loaded = loaded] \in RequestType
BY DEF RequestType, Places

\* The provider counts the tokens of one grant.
LEMMA GrantCounts ==
  ASSUME NEW given \in [Grants -> [realm: Realms \cup {None}, current: Nat, live: BOOLEAN]], NEW g \in Grants,
         NEW after, after = [given EXCEPT ![g].current = @ + 1]
  PROVE  /\ after \in [Grants -> [realm: Realms \cup {None}, current: Nat, live: BOOLEAN]]
         /\ \A h \in Grants :
              /\ after[h].realm = given[h].realm
              /\ after[h].current = IF h = g THEN given[h].current + 1 ELSE given[h].current
<1> DEFINE Row == [realm: Realms \cup {None}, current: Nat, live: BOOLEAN]
<1>1. given[g] \in Row OBVIOUS
<1>2. PICK one : one = [given[g] EXCEPT !.current = @ + 1] OBVIOUS
<1>3. one \in Row /\ one.realm = given[g].realm /\ one.current = given[g].current + 1 BY <1>1, <1>2
<1> HIDE DEF Row
<1>4. after = [given EXCEPT ![g] = one] BY <1>2
<1>5. given \in [Grants -> Row] BY DEF Row
<1>6. after \in [Grants -> Row] BY <1>3, <1>4, <1>5
<1>7. after[g] = one /\ \A h \in Grants \ {g} : after[h] = given[h] BY <1>4, <1>5
<1> QED BY <1>3, <1>6, <1>7 DEF Row

\* A request goes on, with a record that lands well.
LEMMA GoMoves ==
  ASSUME TokensInv, NEW r \in Requests, NEW new \in RequestType,
         req' = [req EXCEPT ![r] = new],
         UNCHANGED <<key, keys, lost, faults, admins>>,
         states' \in [States -> {"new", "open", "used", "expired"}],
         row' \in Rows, row' = row \/ Writable(r),
         row'.token \in {None, row.token, req[r].token},
         lock' \in {lock, r, None}, lock' = lock \/ Writable(r),
         \/ UNCHANGED grants
         \/ \E g \in Grants : grants' = [grants EXCEPT ![g] = [grants[g] EXCEPT !.live = FALSE]],
         new.loaded.token \in {None, row.token, req[r].loaded.token},
         new.token \in {None, req[r].token},
         new.at \notin {"save", "saveRefresh"},
         new.at = "refresh" \/ (new.at = "company" /\ ~new.rotated) => lock' = r /\ new.loaded = row',
         new.at \in {"load", "exchange"} => new.realm # None
  PROVE  Moves(r)
<1>1. QuickBooksTypeOK BY DEF TokensInv
<1>2. req' \in [Requests -> RequestType] /\ req'[r] = new /\ \A q \in Requests \ {r} : req'[q] = req[q]
  BY <1>1 DEF QuickBooksTypeOK, RequestType
<1>3. /\ grants' \in [Grants -> [realm: Realms \cup {None}, current: Nat, live: BOOLEAN]]
      /\ \A g \in Grants : grants'[g].realm = grants[g].realm /\ grants'[g].current = grants[g].current
  <2>1. CASE UNCHANGED grants BY <1>1, <2>1 DEF QuickBooksTypeOK
  <2>2. ASSUME NEW g \in Grants, grants' = [grants EXCEPT ![g] = [grants[g] EXCEPT !.live = FALSE]]
        PROVE  /\ grants' \in [Grants -> [realm: Realms \cup {None}, current: Nat, live: BOOLEAN]]
               /\ \A h \in Grants : grants'[h].realm = grants[h].realm /\ grants'[h].current = grants[h].current
    <3> DEFINE ended == [grants[g] EXCEPT !.live = FALSE]
    <3>1. grants \in [Grants -> GrantType] BY <1>1 DEF QuickBooksTypeOK, GrantType
    <3>2. ended \in GrantType /\ ended.realm = grants[g].realm /\ ended.current = grants[g].current
      BY <3>1 DEF GrantType
    <3>3. grants' = [grants EXCEPT ![g] = ended] BY <2>2
    <3> HIDE DEF ended
    <3>4. grants' \in [Grants -> GrantType] BY <3>1, <3>2, <3>3
    <3>5. \A h \in Grants : grants'[h] = IF h = g THEN ended ELSE grants[h] BY <3>1, <3>3
    <3> QED BY <3>2, <3>4, <3>5 DEF GrantType
  <2> QED BY <2>1, <2>2
<1>4. QuickBooksTypeOK' BY <1>1, <1>2, <1>3 DEF QuickBooksTypeOK, RequestType
<1>5. TokensMove(r) BY <1>2, <1>3 DEF TokensMove, Writable
<1>6. new.rotated \in BOOLEAN BY DEF RequestType
<1>7. Lands(r) BY <1>2, <1>6 DEF Lands, Presents
<1> QED BY <1>4, <1>5, <1>7 DEF Moves

\* The requests that begin.
LEMMA BeginMoves ==
  ASSUME TokensInv, NEW r \in Requests, BeginRequest(r)
  PROVE  Moves(r)
<1> USE DEF QuickBooksTypeOK, RequestType, Places
<1>1. QuickBooksTypeOK BY DEF TokensInv
<1>2. CASE BeginConfigure(r)
  <2> DEFINE new == [req[r] EXCEPT !.at = "saveKey"]
  <2>1. new \in RequestType BY <1>1
  <2> QED BY <1>1, <1>2, <2>1, GoMoves DEF BeginConfigure, Go
<1>3. CASE BeginVerify(r)
  <2> DEFINE new == [[req[r] EXCEPT !.at = "lock"] EXCEPT !.key = key]
  <2>1. new \in RequestType BY <1>1
  <2> QED BY <1>1, <1>3, <2>1, GoMoves DEF BeginVerify
<1>4. CASE LoadForDisconnect(r)
  <2> DEFINE new == [[[req[r] EXCEPT !.at = "revoke"] EXCEPT !.loaded = row] EXCEPT !.key = key]
  <2>1. new \in RequestType BY <1>1
  <2> QED BY <1>1, <1>4, <2>1, GoMoves DEF LoadForDisconnect
<1>5. ASSUME NEW s \in States, NEW realm \in Realms, ConsumeState(r, s, realm) PROVE Moves(r)
  <2> DEFINE new == [[[req[r] EXCEPT !.at = "load"] EXCEPT !.realm = realm] EXCEPT !.key = key]
  <2>1. new \in RequestType /\ realm # None BY <1>1, QuickBooksAssumption, ZenonT(40)
  <2>2. req[r].at = "idle" /\ states' \in [States -> {"new", "open", "used", "expired"}]
    BY <1>1, <1>5 DEF ConsumeState, MayBegin
  <2>3. CASE req' = [req EXCEPT ![r] = new] BY <1>1, <1>5, <2>1, <2>2, <2>3, GoMoves DEF ConsumeState
  <2>4. CASE UNCHANGED req
    <3>1. req' = [req EXCEPT ![r] = req[r]] BY <1>1, <2>4
    <3>2. req[r] \in RequestType BY <1>1
    <3> QED BY <1>1, <1>5, <2>2, <3>1, <3>2, GoMoves DEF ConsumeState
  <2> QED BY <1>5, <2>3, <2>4 DEF ConsumeState
<1> QED BY <1>2, <1>3, <1>4, <1>5 DEF BeginRequest

\* The session ends, whatever becomes of the other variables.
LEMMA EndMoves ==
  ASSUME TokensInv, NEW r \in Requests, EndRequest(r),
         row' \in Rows, row' = row \/ Writable(r),
         row'.token \in {None, row.token, req[r].token},
         key' \in Nat, keys' \in Nat, lost' \subseteq Grants, faults' \in Nat,
         UNCHANGED <<states, admins>>,
         grants' \in [Grants -> [realm: Realms \cup {None}, current: Nat, live: BOOLEAN]],
         \A g \in Grants :
           /\ grants'[g].realm = grants[g].realm
           /\ \/ grants'[g].current = grants[g].current
              \/ lock = r /\ req[r].loaded.token # None /\ req[r].loaded.token.grant = g
  PROVE  Moves(r)
<1>1. QuickBooksTypeOK BY DEF TokensInv
<1>2. Idle \in RequestType BY DEF Idle, RequestType, Places, Rows, NoConnection, RowStatuses
<1>3. req' \in [Requests -> RequestType] /\ req'[r] = Idle /\ \A q \in Requests \ {r} : req'[q] = req[q]
  BY <1>1, <1>2 DEF EndRequest, QuickBooksTypeOK, RequestType
<1>4. lock' \in Requests \cup {None} /\ (lock' = lock \/ lock \in {None, r})
  BY <1>1 DEF EndRequest, QuickBooksTypeOK
<1>5. QuickBooksTypeOK' BY <1>1, <1>3, <1>4 DEF QuickBooksTypeOK, RequestType
<1>6. TokensMove(r) BY <1>3, <1>4 DEF TokensMove, Idle, NoConnection, Writable
<1>7. Lands(r) BY <1>3 DEF Lands, Presents, Idle
<1> QED BY <1>5, <1>6, <1>7 DEF Moves

\* A request under way moves tokens by the rules, whatever it does next; the
\* exchange of a code, which makes a token, is below.
LEMMA ProceedMoves ==
  ASSUME TokensInv, NEW r \in Requests, Proceed(r), ~(\E g \in Grants : ExchangeCode(r, g))
  PROVE  Moves(r)
<1>1. QuickBooksTypeOK /\ HoldersSeeTheRow BY DEF TokensInv
<1>2. CASE SaveConfiguration(r) BY <1>1, <1>2, EndMoves DEF SaveConfiguration, QuickBooksTypeOK
<1>3. CASE RemoveConfiguration(r) BY <1>1, <1>3, EndMoves DEF RemoveConfiguration, QuickBooksTypeOK
<1>4. CASE LoadForCallback(r)
  <2>1. CASE EndRequest(r) BY <1>1, <1>4, <2>1, EndMoves DEF LoadForCallback, QuickBooksTypeOK
  <2>2. CASE ~EndRequest(r)
    <3> DEFINE new == [[req[r] EXCEPT !.at = "exchange"] EXCEPT !.loaded = row]
    <3>1. req' = [req EXCEPT ![r] = new] /\ UNCHANGED lock
      BY <1>4, <2>2 DEF LoadForCallback
    <3>2. req[r].at = "load" /\ UNCHANGED <<row, key, keys, states, grants, lost, faults, admins>>
      BY <1>4 DEF LoadForCallback
    <3>3. req[r].realm # None BY <3>2 DEF TokensInv, CallbacksNameRealms
    <3>4. new \in RequestType BY <1>1 DEF QuickBooksTypeOK, RequestType, Places
    <3> QED BY <1>1, <3>1, <3>2, <3>3, <3>4, GoMoves DEF QuickBooksTypeOK
  <2> QED BY <2>1, <2>2
<1>5. CASE ExchangeFails(r) BY <1>1, <1>5, EndMoves DEF ExchangeFails, QuickBooksTypeOK
<1>6. CASE SaveConnection(r)
  <2> DEFINE new == [status |-> "connected", realm |-> req[r].realm, token |-> req[r].token]
  <2>1. new \in Rows BY <1>1 DEF QuickBooksTypeOK, Rows, RowStatuses
  <2>2. \/ Flush(r, new) \/ row' = new \/ row' = row BY <1>6 DEF SaveConnection
  <2>3. row' \in Rows /\ row'.token \in {row.token, req[r].token}
    BY <1>1, <2>1, <2>2, FlushedRow DEF QuickBooksTypeOK
  <2> QED BY <1>1, <1>6, <2>3, EndMoves DEF SaveConnection, QuickBooksTypeOK
<1>7. CASE LockConnection(r)
  <2>1. /\ req[r].at = "lock" /\ lock = None
        /\ UNCHANGED <<row, key, keys, states, grants, lost, faults, admins>>
    BY <1>7 DEF LockConnection
  <2>2. CASE EndRequest(r) BY <1>1, <2>1, <2>2, EndMoves DEF QuickBooksTypeOK
  <2>3. CASE ~EndRequest(r)
    <3>1. /\ lock' = r
          /\ \E to \in {"company", "refresh"} :
               req' = [req EXCEPT ![r] = [[req[r] EXCEPT !.at = to] EXCEPT !.loaded = row]]
      BY <1>7, <2>3 DEF LockConnection, VerifyFrom
    <3>2. PICK to \in {"company", "refresh"} :
            req' = [req EXCEPT ![r] = [[req[r] EXCEPT !.at = to] EXCEPT !.loaded = row]]
      BY <3>1
    <3> DEFINE new == [[req[r] EXCEPT !.at = to] EXCEPT !.loaded = row]
    <3>7. req[r] \in RequestType /\ row \in Rows BY <1>1 DEF QuickBooksTypeOK, RequestType
    <3>3. new \in RequestType BY <3>7, LockedRequest
    <3>4. new.at = to /\ new.loaded = row /\ new.token = req[r].token
      BY <1>1 DEF QuickBooksTypeOK, RequestType
    <3>5. req' = [req EXCEPT ![r] = new] BY <3>2
    <3>6. row' = row /\ row' \in Rows /\ states' \in [States -> {"new", "open", "used", "expired"}]
      BY <1>1, <2>1 DEF QuickBooksTypeOK
    <3> HIDE DEF new
    <3> QED BY <2>1, <3>1, <3>3, <3>4, <3>5, <3>6, GoMoves DEF Writable
  <2> QED BY <2>2, <2>3
<1>8. CASE RotateToken(r)
  <2> DEFINE old == req[r].loaded.token
             new == [old EXCEPT !.n = @ + 1]
  <2>1. /\ req[r].at = "refresh" /\ old # None /\ grants[old.grant].current = old.n
        /\ grants' = [grants EXCEPT ![old.grant].current = @ + 1]
        /\ req' = [req EXCEPT ![r] = [[req[r] EXCEPT !.at = "saveRefresh"] EXCEPT !.token = new]]
        /\ UNCHANGED <<row, key, keys, states, lock, lost, faults, admins>>
    BY <1>8 DEF RotateToken, Presented, Refreshable, Valid
  <2>2. lock = r /\ req[r].loaded = row BY <1>1, <2>1 DEF HoldersSeeTheRow, Presents
  <2>3. old \in Token BY <1>1, <2>1 DEF QuickBooksTypeOK, Rows
  <2>4. new \in Token /\ new.grant = old.grant /\ new.key = old.key /\ new.n = old.n + 1
    BY <2>3 DEF Token
  <2>5. new # None BY <2>4, QuickBooksAssumption
  <2> HIDE DEF new
  <2> DEFINE next == [[req[r] EXCEPT !.at = "saveRefresh"] EXCEPT !.token = new]
  <2>11. /\ next \in RequestType
         /\ next.at = "saveRefresh" /\ next.token = new /\ next.loaded = req[r].loaded
    BY <1>1, <2>4, ZenonT(40) DEF QuickBooksTypeOK, RequestType, Places
  <2>6. /\ req' \in [Requests -> RequestType]
        /\ req'[r].at = "saveRefresh" /\ req'[r].token = new /\ req'[r].loaded = req[r].loaded
        /\ \A q \in Requests \ {r} : req'[q] = req[q]
    BY <1>1, <2>1, <2>11 DEF QuickBooksTypeOK, RequestType
  <2>7. /\ grants' \in [Grants -> [realm: Realms \cup {None}, current: Nat, live: BOOLEAN]]
        /\ \A g \in Grants :
             /\ grants'[g].realm = grants[g].realm
             /\ grants'[g].current = IF g = old.grant THEN grants[g].current + 1 ELSE grants[g].current
    <3>1. old.grant \in Grants BY <2>3 DEF Token
    <3>2. grants \in [Grants -> [realm: Realms \cup {None}, current: Nat, live: BOOLEAN]] BY <1>1 DEF QuickBooksTypeOK
    <3>3. PICK g \in Grants : g = old.grant BY <3>1
    <3>4. PICK given : given = grants OBVIOUS
    <3>5. PICK after : after = grants' OBVIOUS
    <3> HIDE DEF old
    <3>6. given \in [Grants -> [realm: Realms \cup {None}, current: Nat, live: BOOLEAN]] BY <3>2, <3>4
    <3>7. after = [given EXCEPT ![g].current = @ + 1] BY <2>1, <3>3, <3>4, <3>5
    <3>8. /\ after \in [Grants -> [realm: Realms \cup {None}, current: Nat, live: BOOLEAN]]
          /\ \A h \in Grants :
               /\ after[h].realm = given[h].realm
               /\ after[h].current = IF h = g THEN given[h].current + 1 ELSE given[h].current
      BY <3>6, <3>7, GrantCounts
    <3> QED BY <3>3, <3>4, <3>5, <3>8
  <2>8. QuickBooksTypeOK' BY <1>1, <2>1, <2>6, <2>7 DEF QuickBooksTypeOK, RequestType
  <2>9. TokensMove(r) BY <2>1, <2>2, <2>4, <2>5, <2>6, <2>7 DEF TokensMove
  <2>12. old.grant \in Grants /\ grants'[old.grant].current = old.n + 1 BY <2>1, <2>3, <2>7 DEF Token
  <2>10. Rotated(r)' BY <2>1, <2>4, <2>5, <2>6, <2>12 DEF Rotated
  <2> QED BY <2>1, <2>2, <2>6, <2>8, <2>9, <2>10 DEF Moves, Lands, Presents
<1>9. CASE AnswerLost(r)
  <2> DEFINE old == req[r].loaded.token
  <2>1. /\ req[r].at = "refresh" /\ old # None
        /\ grants' = [grants EXCEPT ![old.grant].current = @ + 1]
        /\ lost' = lost \cup {old.grant} /\ faults' = faults + 1
        /\ EndRequest(r)
        /\ UNCHANGED <<row, key, keys, states, admins>>
    BY <1>9 DEF AnswerLost, Presented, Refreshable
  <2>2. lock = r BY <1>1, <2>1 DEF HoldersSeeTheRow, Presents
  <2>3. old \in Token BY <1>1, <2>1 DEF QuickBooksTypeOK, Rows
  <2>4. /\ grants' \in [Grants -> [realm: Realms \cup {None}, current: Nat, live: BOOLEAN]]
        /\ \A g \in Grants :
             /\ grants'[g].realm = grants[g].realm
             /\ grants'[g].current = IF g = old.grant THEN grants[g].current + 1 ELSE grants[g].current
    <3>1. old.grant \in Grants BY <2>3 DEF Token
    <3>2. grants \in [Grants -> [realm: Realms \cup {None}, current: Nat, live: BOOLEAN]] BY <1>1 DEF QuickBooksTypeOK
    <3>3. PICK g \in Grants : g = old.grant BY <3>1
    <3>4. PICK given : given = grants OBVIOUS
    <3>5. PICK after : after = grants' OBVIOUS
    <3> HIDE DEF old
    <3>6. given \in [Grants -> [realm: Realms \cup {None}, current: Nat, live: BOOLEAN]] BY <3>2, <3>4
    <3>7. after = [given EXCEPT ![g].current = @ + 1] BY <2>1, <3>3, <3>4, <3>5
    <3>8. /\ after \in [Grants -> [realm: Realms \cup {None}, current: Nat, live: BOOLEAN]]
          /\ \A h \in Grants :
               /\ after[h].realm = given[h].realm
               /\ after[h].current = IF h = g THEN given[h].current + 1 ELSE given[h].current
      BY <3>6, <3>7, GrantCounts
    <3> QED BY <3>3, <3>4, <3>5, <3>8
  <2>5. lost' \subseteq Grants BY <1>1, <2>1, <2>3 DEF QuickBooksTypeOK, Token
  <2>6. /\ row' \in Rows /\ row' = row /\ key' \in Nat /\ keys' \in Nat /\ faults' \in Nat
        /\ UNCHANGED <<states, admins>>
    BY <1>1, <2>1 DEF QuickBooksTypeOK
  <2>7. \A g \in Grants :
          \/ grants'[g].current = grants[g].current
          \/ lock = r /\ old # None /\ old.grant = g
    BY <2>1, <2>2, <2>4
  <2> QED BY <2>1, <2>4, <2>5, <2>6, <2>7, EndMoves
<1>10. CASE RefreshRefused(r) \/ ClearTokens(r)
  <2>1. Cleared(r) \in Rows /\ Cleared(r).token = None
    BY <1>1 DEF QuickBooksTypeOK, Rows, Cleared, RowStatuses
  <2>2. Flush(r, Cleared(r)) /\ EndRequest(r) /\ UNCHANGED <<key, keys, states, grants, lost, faults, admins>>
    BY <1>10 DEF RefreshRefused, ClearTokens
  <2>3. row' \in Rows /\ row'.token \in {None, row.token} BY <1>1, <2>1, <2>2, FlushedRow
  <2>4. Writable(r) BY <1>1, <1>10 DEF RefreshRefused, ClearTokens, HoldersSeeTheRow, Presents, Writable
  <2> QED BY <1>1, <2>2, <2>3, <2>4, EndMoves DEF QuickBooksTypeOK
<1>11. CASE RefreshUnauthorized(r)
  <2>1. Cleared(r) \in Rows /\ Cleared(r).token = None
    BY <1>1 DEF QuickBooksTypeOK, Rows, Cleared, RowStatuses
  <2>2. /\ req[r].at = "refresh" /\ req' = [req EXCEPT ![r].at = "recheck"]
        /\ lock' = IF lock = r THEN None ELSE lock
        /\ Flush(r, Cleared(r)) \/ row' = row
        /\ UNCHANGED <<key, keys, states, grants, lost, faults, admins>>
    BY <1>11 DEF RefreshUnauthorized, Go
  <2>3. row' \in Rows /\ row'.token \in {None, row.token}
    BY <1>1, <2>1, <2>2, FlushedRow DEF QuickBooksTypeOK
  <2>4. lock = r BY <1>1, <2>2 DEF HoldersSeeTheRow, Presents
  <2> QED BY <1>1, <2>2, <2>3, <2>4
       DEF QuickBooksTypeOK, TokensMove, Lands, Moves, RequestType, Presents, Places
<1>12. CASE ProviderFails(r) BY <1>1, <1>12, EndMoves DEF ProviderFails, QuickBooksTypeOK
<1>13. CASE SaveRefresh(r)
  <2> DEFINE new == [req[r].loaded EXCEPT !.token = req[r].token]
  <2>1. new \in Rows /\ new.token = req[r].token BY <1>1 DEF QuickBooksTypeOK, Rows
  <2>2. /\ req[r].at = "saveRefresh" /\ req' = [req EXCEPT ![r].at = "reload"]
        /\ lock' = IF lock = r THEN None ELSE lock
        /\ Flush(r, new)
        /\ UNCHANGED <<key, keys, states, grants, lost, faults, admins>>
    BY <1>13 DEF SaveRefresh, Go
  <2>3. row' \in Rows /\ row'.token \in {req[r].token, row.token}
    BY <1>1, <2>1, <2>2, FlushedRow DEF QuickBooksTypeOK
  <2>4. lock = r BY <1>1, <2>2 DEF HoldersSeeTheRow, Presents
  <2> QED BY <1>1, <2>2, <2>3, <2>4
       DEF QuickBooksTypeOK, TokensMove, Lands, Moves, RequestType, Presents, Places
<1>14. CASE Reload(r)
  BY <1>1, <1>14 DEF Reload, QuickBooksTypeOK, TokensMove, Lands, Moves, RequestType, Presents, Places
<1>15. CASE CompanyRead(r)
  BY <1>1, <1>15 DEF CompanyRead, Go, QuickBooksTypeOK, TokensMove, Lands, Moves, RequestType, Presents, Places
<1>16. CASE CompanyUnauthorized(r)
  BY <1>1, <1>16, SMTT(30) DEF CompanyUnauthorized, Go, HoldersSeeTheRow,
     QuickBooksTypeOK, TokensMove, Lands, Moves, RequestType, Presents, Places
<1>17. CASE SaveCompany(r)
  <2> DEFINE new == [req[r].loaded EXCEPT !.status = "connected"]
  <2>1. new \in Rows /\ new.token = req[r].loaded.token BY <1>1 DEF QuickBooksTypeOK, Rows, RowStatuses
  <2>2. row' \in Rows /\ row'.token = row.token
    BY <1>1, <1>17, <2>1, FlushedRow DEF SaveCompany
  <2> QED BY <1>1, <1>17, <2>2, EndMoves DEF SaveCompany, QuickBooksTypeOK
<1>18. CASE Revoke(r)
  <2> DEFINE new == [req[r] EXCEPT !.at = "saveDisconnect"]
  <2>1. /\ req' = [req EXCEPT ![r] = new]
        /\ UNCHANGED <<row, key, keys, states, lock, lost, faults, admins>>
    BY <1>18 DEF Revoke, Go
  <2>2. new \in RequestType BY <1>1 DEF QuickBooksTypeOK, RequestType, Places
  <2>3. \/ UNCHANGED grants
        \/ \E g \in Grants : grants' = [grants EXCEPT ![g] = [grants[g] EXCEPT !.live = FALSE]]
    <3>1. Refreshable(r) => Presented(r).grant \in Grants
      BY <1>1 DEF QuickBooksTypeOK, Rows, Token, Refreshable, Presented
    <3> QED BY <1>18, <3>1 DEF Revoke
  <2>4. new.at = "saveDisconnect" /\ new.loaded = req[r].loaded /\ new.token = req[r].token
    BY <1>1 DEF QuickBooksTypeOK, RequestType
  <2>5. row' = row /\ row' \in Rows /\ states' \in [States -> {"new", "open", "used", "expired"}]
    BY <1>1, <2>1 DEF QuickBooksTypeOK
  <2> HIDE DEF new
  <2> QED BY <2>1, <2>2, <2>3, <2>4, <2>5, GoMoves
<1>19. CASE SaveDisconnect(r)
  <2> DEFINE new == Disconnected(req[r].loaded)
  <2>1. new \in Rows /\ new.token = None BY <1>1 DEF QuickBooksTypeOK, Rows, Disconnected, RowStatuses
  <2>2. row' \in Rows /\ row'.token \in {None, row.token}
    BY <1>1, <1>19, <2>1, FlushedRow DEF SaveDisconnect
  <2> QED BY <1>1, <1>19, <2>2, EndMoves DEF SaveDisconnect, QuickBooksTypeOK
<1> QED BY <1>2, <1>3, <1>4, <1>5, <1>6, <1>7, <1>8, <1>9, <1>10, <1>11, <1>12, <1>13, <1>14,
          <1>15, <1>16, <1>17, <1>18, <1>19 DEF Proceed

\* The server process dies under a request: its lock goes, and its new token is lost.
LEMMA CrashMoves ==
  ASSUME TokensInv, NEW r \in Requests, CrashRequest(r)
  PROVE  Moves(r)
<1>1. QuickBooksTypeOK /\ RotatedTokens BY DEF TokensInv
<1>2. req[r].at = "saveRefresh" => req[r].token.grant \in Grants
  BY <1>1 DEF QuickBooksTypeOK, RotatedTokens, Rotated, Token
<1>3. lost' \subseteq Grants BY <1>1, <1>2 DEF CrashRequest, QuickBooksTypeOK
<1> QED BY <1>1, <1>3, EndMoves DEF CrashRequest, QuickBooksTypeOK

-----------------------------------------------------------------------------
(* The token on record.                                                    *)

\* It stays the newest if only the row changes, and forgets the token at most.
LEMMA NewestStays ==
  ASSUME TokensInv, NEW r \in Requests, Moves(r),
         row'.token \in {None, row.token}, UNCHANGED grants \/ Revoke(r), lost \subseteq lost',
         req[r].at = "saveRefresh" => req[r].token.grant \in lost'
  PROVE  StoredIsNewest'
<1>1. QuickBooksTypeOK /\ StoredIsNewest BY DEF TokensInv
<1> SUFFICES ASSUME row'.token # None
             PROVE  \/ row'.token.n = grants'[row'.token.grant].current
                    \/ row'.token.grant \in lost'
                    \/ \E q \in Requests : req'[q].at = "saveRefresh" /\ req'[q].token.grant = row'.token.grant
  BY DEF StoredIsNewest
<1>2. row'.token = row.token /\ row.token.grant \in Grants
  BY <1>1 DEF QuickBooksTypeOK, Rows, Token
<1>3. \A g \in Grants : grants'[g].current = grants[g].current
  <2>1. CASE UNCHANGED grants BY <2>1
  <2>2. CASE Revoke(r) BY <1>1, <2>2 DEF Revoke, QuickBooksTypeOK
  <2> QED BY <2>1, <2>2
<1>4. CASE row.token.n = grants[row.token.grant].current BY <1>2, <1>3, <1>4
<1>5. CASE row.token.grant \in lost BY <1>2, <1>5
<1>6. ASSUME NEW q \in Requests, req[q].at = "saveRefresh", req[q].token.grant = row.token.grant
      PROVE  \/ row'.token.grant \in lost'
             \/ \E p \in Requests : req'[p].at = "saveRefresh" /\ req'[p].token.grant = row'.token.grant
  <2>1. CASE q = r BY <1>2, <1>6, <2>1
  <2>2. CASE q # r BY <1>2, <1>6, <2>2 DEF Moves, TokensMove
  <2> QED BY <2>1, <2>2
<1> QED BY <1>1, <1>2, <1>4, <1>5, <1>6 DEF StoredIsNewest

\* No step but the exchange leaves an older token on record: who writes the row
\* has it locked, or has just been given the first token of a grant.
LEMMA NewestKept ==
  ASSUME TokensInv, NEW r \in Requests, Moves(r),
         BeginRequest(r) \/ Proceed(r) \/ CrashRequest(r), ~(\E g \in Grants : ExchangeCode(r, g))
  PROVE  StoredIsNewest'
<1>1. QuickBooksTypeOK /\ HoldersSeeTheRow /\ StoredIsNewest /\ FreshTokens /\ RotatedTokens BY DEF TokensInv
<1>2. CASE BeginRequest(r)
  BY <1>2, NewestStays DEF BeginRequest, BeginConfigure, BeginVerify, LoadForDisconnect, ConsumeState, MayBegin
<1>3. CASE CrashRequest(r) BY <1>3, NewestStays DEF CrashRequest
<1>4. CASE \/ SaveConfiguration(r) \/ RemoveConfiguration(r) \/ LoadForCallback(r) \/ ExchangeFails(r)
           \/ LockConnection(r) \/ ProviderFails(r) \/ Reload(r) \/ CompanyRead(r) \/ CompanyUnauthorized(r)
           \/ Revoke(r)
  <2>1. row' = row /\ (UNCHANGED grants \/ Revoke(r)) /\ lost' = lost /\ req[r].at # "saveRefresh"
    BY <1>4 DEF SaveConfiguration, RemoveConfiguration, LoadForCallback, ExchangeFails, LockConnection,
                ProviderFails, Reload, CompanyRead, CompanyUnauthorized, Revoke
  <2> QED BY <2>1, NewestStays
<1>5. CASE RefreshRefused(r) \/ ClearTokens(r) \/ RefreshUnauthorized(r) \/ SaveDisconnect(r) \/ SaveCompany(r)
  <2>1. UNCHANGED grants /\ lost' = lost /\ req[r].at # "saveRefresh"
    BY <1>5 DEF RefreshRefused, ClearTokens, RefreshUnauthorized, SaveDisconnect, SaveCompany
  <2>2. \/ row' = row \/ Flush(r, Cleared(r)) \/ Flush(r, Disconnected(req[r].loaded))
        \/ Flush(r, [req[r].loaded EXCEPT !.status = "connected"])
    BY <1>5 DEF RefreshRefused, ClearTokens, RefreshUnauthorized, SaveDisconnect, SaveCompany
  <2>3. /\ Cleared(r) \in Rows /\ Cleared(r).token = None
        /\ Disconnected(req[r].loaded) \in Rows /\ Disconnected(req[r].loaded).token = None
        /\ [req[r].loaded EXCEPT !.status = "connected"] \in Rows
        /\ [req[r].loaded EXCEPT !.status = "connected"].token = req[r].loaded.token
    BY <1>1 DEF QuickBooksTypeOK, Rows, Cleared, Disconnected, RowStatuses
  <2>4. row'.token \in {None, row.token} BY <1>1, <2>2, <2>3, FlushedRow
  <2> QED BY <2>1, <2>4, NewestStays
<1>6. CASE SaveConnection(r)
  <2> DEFINE new == [status |-> "connected", realm |-> req[r].realm, token |-> req[r].token]
  <2>1. /\ Flush(r, new) \/ row' = new \/ row' = row
        /\ UNCHANGED <<grants, lost>> /\ req[r].at = "save"
    BY <1>6 DEF SaveConnection
  <2>2. CASE row' = row BY <2>1, <2>2, NewestStays
  <2>3. CASE row' # row
    <3>1. Fresh(r) BY <1>1, <2>1 DEF FreshTokens
    <3>2. req[r].token # req[r].loaded.token BY <3>1 DEF Fresh, OfAnother
    <3>3. new \in Rows BY <1>1 DEF QuickBooksTypeOK, Rows, RowStatuses
    <3>4. row'.token = req[r].token BY <1>1, <2>1, <2>3, <3>2, <3>3, FlushedRow
    <3> QED BY <2>1, <3>1, <3>4 DEF Fresh, StoredIsNewest
  <2> QED BY <2>2, <2>3
<1>7. CASE SaveRefresh(r)
  <2> DEFINE new == [req[r].loaded EXCEPT !.token = req[r].token]
  <2>1. Flush(r, new) /\ UNCHANGED <<grants, lost>> /\ req[r].at = "saveRefresh" BY <1>7 DEF SaveRefresh
  <2>2. Rotated(r) BY <1>1, <2>1 DEF RotatedTokens
  <2>3. req[r].loaded.token \in Token BY <1>1, <2>2 DEF QuickBooksTypeOK, Rows, Rotated
  <2>4. req[r].token # req[r].loaded.token BY <2>2, <2>3 DEF Rotated, Token
  <2>5. new \in Rows /\ new.token = req[r].token BY <1>1 DEF QuickBooksTypeOK, Rows
  <2>6. row'.token = req[r].token BY <1>1, <2>1, <2>4, <2>5, FlushedRow
  <2> QED BY <2>1, <2>2, <2>6 DEF Rotated, StoredIsNewest
<1>8. CASE RotateToken(r)
  <2>1. req[r].at = "refresh" /\ row' = row /\ req[r].loaded.token # None /\ req'[r].at = "saveRefresh"
    BY <1>1, <1>8 DEF RotateToken, Refreshable, Presented, QuickBooksTypeOK
  <2>2. req[r].loaded = row BY <1>1, <2>1 DEF HoldersSeeTheRow, Presents
  <2>3. Rotated(r)' BY <2>1 DEF Moves, Lands
  <2>4. req'[r].loaded = req[r].loaded BY <1>1, <1>8 DEF RotateToken, QuickBooksTypeOK
  <2> QED BY <2>1, <2>2, <2>3, <2>4 DEF Rotated, StoredIsNewest
<1>9. CASE AnswerLost(r)
  <2>1. req[r].at = "refresh" /\ row' = row /\ lost' = lost \cup {req[r].loaded.token.grant}
    BY <1>9 DEF AnswerLost, Presented
  <2>2. req[r].loaded = row BY <1>1, <2>1 DEF HoldersSeeTheRow, Presents
  <2> QED BY <2>1, <2>2 DEF StoredIsNewest
<1> QED BY <1>2, <1>3, <1>4, <1>5, <1>6, <1>7, <1>8, <1>9 DEF Proceed

-----------------------------------------------------------------------------
(* The provider's first token.                                             *)

\* Exchanging a code makes the first token of a grant that nobody had.
LEMMA ExchangeStep ==
  ASSUME TokensInv, NEW r \in Requests, NEW g \in Grants, ExchangeCode(r, g)
  PROVE  TokensInv'
<1>1. /\ QuickBooksTypeOK /\ HoldersSeeTheRow /\ TokensWereGiven /\ FreshTokens
      /\ CallbacksNameRealms /\ RotatedTokens /\ StoredIsNewest
  BY DEF TokensInv
<1> DEFINE t == [grant |-> g, n |-> 0, key |-> req[r].key]
           new == [[req[r] EXCEPT !.at = "save"] EXCEPT !.token = t]
           grant == [realm |-> req[r].realm, current |-> 0, live |-> TRUE]
<1>2. /\ req[r].at = "exchange" /\ grants[g].realm = None
      /\ grants' = [grants EXCEPT ![g] = grant] /\ req' = [req EXCEPT ![r] = new]
      /\ UNCHANGED <<row, key, keys, states, lock, lost, faults, admins>>
  BY DEF ExchangeCode
<1>3. t \in Token /\ t # None BY <1>1, QuickBooksAssumption DEF QuickBooksTypeOK, Token
<1>4. /\ new \in RequestType /\ new.at = "save" /\ new.token = t /\ new.key = req[r].key
      /\ new.realm = req[r].realm /\ new.loaded = req[r].loaded
  BY <1>1, <1>3 DEF QuickBooksTypeOK, RequestType, Places
<1>5. req[r].realm # None BY <1>1, <1>2 DEF CallbacksNameRealms
<1>6. grant \in GrantType BY <1>1 DEF QuickBooksTypeOK, GrantType
<1> HIDE DEF new
<1>7. /\ req' \in [Requests -> RequestType] /\ req'[r] = new
      /\ \A q \in Requests \ {r} : req'[q] = req[q]
  BY <1>1, <1>2, <1>4 DEF QuickBooksTypeOK, RequestType
<1>8. grants' \in [Grants -> GrantType] /\ \A h \in Grants : grants'[h] = IF h = g THEN grant ELSE grants[h]
  BY <1>1, <1>2, <1>6 DEF QuickBooksTypeOK, GrantType
<1>9. \A h \in Grants : Given(h) => h # g BY <1>2 DEF Given
<1>10. /\ OfAnother(g, row.token)
       /\ \A q \in Requests : OfAnother(g, req[q].loaded.token) /\ OfAnother(g, req[q].token)
  BY <1>1, <1>9 DEF TokensWereGiven, Held, OfAnother
<1>11. QuickBooksTypeOK' BY <1>1, <1>2, <1>7, <1>8 DEF QuickBooksTypeOK, RequestType, GrantType
<1>12. HoldersSeeTheRow' BY <1>1, <1>2, <1>4, <1>7 DEF HoldersSeeTheRow, Presents
<1>13. \A x \in Token \cup {None} : OfAnother(g, x) /\ Held(x) => (x # None => grants'[x.grant].realm # None)
  BY <1>8 DEF OfAnother, Held, Given, Token
<1>14. TokensWereGiven'
  <2>1. row.token # None => grants'[row.token.grant].realm # None
    BY <1>1, <1>10, <1>13 DEF QuickBooksTypeOK, Rows, TokensWereGiven
  <2>2. ASSUME NEW q \in Requests
        PROVE  req'[q].loaded.token # None => grants'[req'[q].loaded.token.grant].realm # None
    BY <1>1, <1>4, <1>7, <1>10, <1>13 DEF QuickBooksTypeOK, Rows, TokensWereGiven
  <2>3. ASSUME NEW q \in Requests
        PROVE  req'[q].token # None => grants'[req'[q].token.grant].realm # None
    <3>1. CASE q = r BY <1>4, <1>5, <1>7, <1>8, <3>1
    <3>2. CASE q # r BY <1>1, <1>7, <1>10, <1>13, <3>2 DEF QuickBooksTypeOK, TokensWereGiven
    <3> QED BY <3>1, <3>2
  <2> QED BY <1>2, <2>1, <2>2, <2>3 DEF TokensWereGiven, Held, Given
<1>15. FreshTokens'
  <2>1. Fresh(r)' BY <1>2, <1>3, <1>4, <1>7, <1>8, <1>10 DEF Fresh, OfAnother
  <2>2. ASSUME NEW q \in Requests, q # r, req'[q].at = "save" PROVE Fresh(q)'
    <3>1. Fresh(q) /\ req'[q] = req[q] BY <1>1, <1>7, <2>2 DEF FreshTokens
    <3>2. req[q].token.grant \in Grants /\ req[q].token.grant # g
      BY <1>1, <1>10, <3>1 DEF QuickBooksTypeOK, Token, Fresh, OfAnother
    <3> QED BY <1>2, <1>3, <1>4, <1>7, <1>8, <2>2, <3>1, <3>2 DEF Fresh, OfAnother
  <2> QED BY <2>1, <2>2 DEF FreshTokens
<1>16. CallbacksNameRealms' BY <1>1, <1>4, <1>5, <1>7 DEF CallbacksNameRealms
<1>17. RotatedTokens'
  <2> SUFFICES ASSUME NEW q \in Requests, req'[q].at = "saveRefresh" PROVE Rotated(q)'
    BY DEF RotatedTokens
  <2>1. q # r /\ req'[q] = req[q] BY <1>4, <1>7
  <2>2. Rotated(q) BY <1>1, <2>1 DEF RotatedTokens
  <2>3. req[q].token.grant \in Grants \ {g}
    BY <1>1, <1>10, <2>2 DEF QuickBooksTypeOK, Token, Rotated, OfAnother
  <2> QED BY <1>8, <2>1, <2>2, <2>3 DEF Rotated
<1>18. StoredIsNewest'
  <2>1. row.token # None => row.token.grant \in Grants \ {g}
    BY <1>1, <1>10 DEF QuickBooksTypeOK, Rows, Token, OfAnother
  <2>2. \A q \in Requests : req[q].at = "saveRefresh" => req'[q] = req[q] BY <1>2, <1>7
  <2> QED BY <1>1, <1>2, <1>8, <2>1, <2>2 DEF StoredIsNewest
<1> QED BY <1>11, <1>12, <1>14, <1>15, <1>16, <1>17, <1>18 DEF TokensInv

-----------------------------------------------------------------------------
(* Every step.                                                             *)

\* Every step keeps the rules about tokens.
LEMMA TokensStep == TokensInv /\ [QuickBooksNext]_quickbooksVars => TokensInv'
<1> SUFFICES ASSUME TokensInv, [QuickBooksNext]_quickbooksVars PROVE TokensInv'
  OBVIOUS
<1>1. ASSUME NEW r \in Requests, BeginRequest(r) \/ Proceed(r) \/ CrashRequest(r) PROVE TokensInv'
  <2>1. CASE \E g \in Grants : ExchangeCode(r, g) BY <2>1, ExchangeStep
  <2>2. CASE ~(\E g \in Grants : ExchangeCode(r, g))
    <3>1. Moves(r) BY <1>1, <2>2, BeginMoves, ProceedMoves, CrashMoves
    <3>2. StoredIsNewest' BY <1>1, <2>2, <3>1, NewestKept
    <3> QED BY <3>1, <3>2, MovedTokens DEF Moves, Lands, TokensInv
  <2> QED BY <2>1, <2>2
<1>2. ASSUME UNCHANGED <<row, key, keys, grants, req, lock, lost, faults, admins>>,
             states' \in [States -> {"new", "open", "used", "expired"}]
      PROVE  TokensInv'
  BY <1>2 DEF TokensInv, QuickBooksTypeOK, HoldersSeeTheRow, Presents, TokensWereGiven, Held, Given,
     FreshTokens, Fresh, OfAnother, CallbacksNameRealms, RotatedTokens, Rotated, StoredIsNewest
<1>3. ASSUME NEW s \in States, StartOAuth(s) \/ ExpireState(s) PROVE TokensInv'
  BY <1>2, <1>3 DEF StartOAuth, ExpireState, TokensInv, QuickBooksTypeOK
<1>4. CASE UNCHANGED quickbooksVars BY <1>2, <1>4 DEF quickbooksVars, TokensInv, QuickBooksTypeOK
<1> QED BY <1>1, <1>3, <1>4 DEF QuickBooksNext

\* Only a callback that used up a state gets to a grant.
LEMMA OnlyConsentLeadsOn ==
  ASSUME TokensInv, NEW r \in Requests, BeginRequest(r) \/ Proceed(r) \/ CrashRequest(r),
         req'[r].at \in {"load", "exchange"}, req[r].at \notin {"load", "exchange"}
  PROVE  \E s \in States, realm \in Realms : ConsumeState(r, s, realm)
<1>1. QuickBooksTypeOK BY DEF TokensInv
<1>2. EndRequest(r) => req'[r].at = "idle" BY <1>1 DEF QuickBooksTypeOK, EndRequest, Idle
<1>3. CASE BeginRequest(r)
  BY <1>1, <1>3 DEF QuickBooksTypeOK, BeginRequest, BeginConfigure, BeginVerify, LoadForDisconnect, Go
<1>4. ~CrashRequest(r) BY <1>2 DEF CrashRequest
<1>5. ~(SaveConfiguration(r) \/ RemoveConfiguration(r) \/ LoadForCallback(r) \/ ExchangeFails(r) \/ SaveConnection(r))
  BY <1>2 DEF SaveConfiguration, RemoveConfiguration, LoadForCallback, ExchangeFails, SaveConnection
<1>6. ~(\E g \in Grants : ExchangeCode(r, g)) BY <1>1 DEF ExchangeCode
<1>7. ~LockConnection(r) BY <1>1, <1>2 DEF LockConnection, VerifyFrom, QuickBooksTypeOK
<1>8. ~(AnswerLost(r) \/ RefreshRefused(r) \/ ProviderFails(r) \/ SaveCompany(r) \/ ClearTokens(r) \/ SaveDisconnect(r))
  BY <1>2 DEF AnswerLost, RefreshRefused, ProviderFails, SaveCompany, ClearTokens, SaveDisconnect
<1>9. ~(RotateToken(r) \/ RefreshUnauthorized(r) \/ SaveRefresh(r) \/ Reload(r) \/ CompanyRead(r)
        \/ CompanyUnauthorized(r) \/ Revoke(r))
  BY <1>1 DEF RotateToken, RefreshUnauthorized, SaveRefresh, Reload, CompanyRead, CompanyUnauthorized,
              Revoke, Go, QuickBooksTypeOK
<1> QED BY <1>3, <1>4, <1>5, <1>6, <1>7, <1>8, <1>9 DEF Proceed

\* Every step keeps a used state for each grant given, and for each one to come.
LEMMA StatesPayStep ==
  TokensInv /\ StatesPayForGrants /\ [QuickBooksNext]_quickbooksVars => StatesPayForGrants'
<1> SUFFICES ASSUME TokensInv, StatesPayForGrants, [QuickBooksNext]_quickbooksVars PROVE StatesPayForGrants'
  OBVIOUS
<1>1. QuickBooksTypeOK BY DEF TokensInv
<1>2. /\ IsFiniteSet(GivenGrants) /\ IsFiniteSet(UsedStates) /\ IsFiniteSet(Consented)
      /\ Cardinality(GivenGrants) + Cardinality(Consented) <= Cardinality(UsedStates)
      /\ Cardinality(GivenGrants) \in Nat /\ Cardinality(Consented) \in Nat /\ Cardinality(UsedStates) \in Nat
  BY FS_CardinalityType DEF StatesPayForGrants
<1>3. ASSUME GivenGrants' = GivenGrants, UsedStates' = UsedStates, Consented' \subseteq Consented
      PROVE  StatesPayForGrants'
  <2>1. IsFiniteSet(Consented') /\ Cardinality(Consented') <= Cardinality(Consented) /\ Cardinality(Consented') \in Nat
    BY <1>2, <1>3, FS_Subset, FS_CardinalityType
  <2> QED BY <1>2, <1>3, <2>1 DEF StatesPayForGrants
<1>4. ASSUME NEW r \in Requests, NEW s \in States, NEW realm \in Realms, ConsumeState(r, s, realm)
      PROVE  StatesPayForGrants'
  <2>1. s \notin UsedStates BY <1>4 DEF ConsumeState, Consumable, UsedStates
  <2>2. UsedStates' = UsedStates \cup {s} BY <1>1, <1>4 DEF ConsumeState, UsedStates, QuickBooksTypeOK
  <2>3. IsFiniteSet(UsedStates') /\ Cardinality(UsedStates') = Cardinality(UsedStates) + 1
    BY <1>2, <2>1, <2>2, FS_AddElement
  <2>4. GivenGrants' = GivenGrants BY <1>4 DEF ConsumeState, GivenGrants, Given
  <2>5. Consented' \subseteq Consented \cup {r}
    BY <1>1, <1>4 DEF ConsumeState, Consented, QuickBooksTypeOK
  <2>6. /\ IsFiniteSet(Consented \cup {r})
        /\ Cardinality(Consented \cup {r}) <= Cardinality(Consented) + 1
    <3>1. CASE r \in Consented
      <4>1. Consented \cup {r} = Consented BY <3>1
      <4>2. IsFiniteSet(Consented \cup {r}) /\ Cardinality(Consented \cup {r}) = Cardinality(Consented)
        BY <1>2, <4>1, Zenon
      <4> QED BY <1>2, <4>2
    <3>2. CASE r \notin Consented
      <4>1. IsFiniteSet(Consented \cup {r}) /\ Cardinality(Consented \cup {r}) = Cardinality(Consented) + 1
        BY <1>2, <3>2, FS_AddElement
      <4> QED BY <1>2, <4>1
    <3> QED BY <3>1, <3>2
  <2>7. /\ IsFiniteSet(Consented') /\ Cardinality(Consented') \in Nat
        /\ Cardinality(Consented') <= Cardinality(Consented \cup {r})
    BY <2>5, <2>6, FS_Subset, FS_CardinalityType
  <2>8. Cardinality(Consented \cup {r}) \in Nat BY <2>6, FS_CardinalityType
  <2> QED BY <1>2, <2>3, <2>4, <2>6, <2>7, <2>8 DEF StatesPayForGrants
<1>5. ASSUME NEW r \in Requests, NEW g \in Grants, ExchangeCode(r, g) PROVE StatesPayForGrants'
  <2>1. g \notin GivenGrants /\ r \in Consented BY <1>5 DEF ExchangeCode, GivenGrants, Given, Consented
  <2>2. GivenGrants' \subseteq GivenGrants \cup {g}
    BY <1>1, <1>5 DEF ExchangeCode, GivenGrants, Given, QuickBooksTypeOK
  <2>3. /\ IsFiniteSet(GivenGrants \cup {g}) /\ Cardinality(GivenGrants \cup {g}) = Cardinality(GivenGrants) + 1
    BY <1>2, <2>1, FS_AddElement
  <2>4. /\ IsFiniteSet(GivenGrants') /\ Cardinality(GivenGrants') <= Cardinality(GivenGrants) + 1
        /\ Cardinality(GivenGrants') \in Nat
    BY <2>2, <2>3, FS_Subset, FS_CardinalityType
  <2>5. Consented' = Consented \ {r} BY <1>1, <1>5 DEF ExchangeCode, Consented, QuickBooksTypeOK
  <2>6. IsFiniteSet(Consented') /\ Cardinality(Consented') = Cardinality(Consented) - 1
    BY <1>2, <2>1, <2>5, FS_RemoveElement
  <2>7. UsedStates' = UsedStates BY <1>5 DEF ExchangeCode, UsedStates
  <2> QED BY <1>2, <2>4, <2>6, <2>7 DEF StatesPayForGrants
<1>6. ASSUME NEW r \in Requests, BeginRequest(r) \/ Proceed(r) \/ CrashRequest(r) PROVE StatesPayForGrants'
  <2>1. CASE \E g \in Grants : ExchangeCode(r, g) BY <1>5, <2>1
  <2>2. CASE \E s \in States, realm \in Realms : ConsumeState(r, s, realm) BY <1>4, <2>2
  <2>3. CASE /\ ~(\E g \in Grants : ExchangeCode(r, g))
             /\ ~(\E s \in States, realm \in Realms : ConsumeState(r, s, realm))
    <3>1. Moves(r) BY <1>6, <2>3, BeginMoves, ProceedMoves, CrashMoves
    <3>2. GivenGrants' = GivenGrants BY <3>1 DEF Moves, TokensMove, GivenGrants, Given
    <3>3. Consented' \subseteq Consented
      BY <1>6, <2>3, <3>1, OnlyConsentLeadsOn DEF Moves, TokensMove, Consented
    <3>4. states' = states
      BY <1>6, <2>3 DEF BeginRequest, BeginConfigure, BeginVerify, LoadForDisconnect, CrashRequest, Proceed,
         SaveConfiguration, RemoveConfiguration, LoadForCallback, ExchangeFails, SaveConnection, LockConnection,
         RotateToken, AnswerLost, RefreshRefused, RefreshUnauthorized, ProviderFails, SaveRefresh, Reload,
         CompanyRead, CompanyUnauthorized, SaveCompany, ClearTokens, Revoke, SaveDisconnect
    <3> QED BY <1>3, <3>2, <3>3, <3>4 DEF UsedStates
  <2> QED BY <2>1, <2>2, <2>3
<1>7. ASSUME NEW s \in States, StartOAuth(s) \/ ExpireState(s) PROVE StatesPayForGrants'
  <2>1. UsedStates' = UsedStates
    BY <1>1, <1>7 DEF StartOAuth, ExpireState, UsedStates, QuickBooksTypeOK
  <2>2. UNCHANGED <<grants, req>> BY <1>7 DEF StartOAuth, ExpireState
  <2> QED BY <1>3, <2>1, <2>2 DEF GivenGrants, Given, Consented
<1>8. CASE UNCHANGED quickbooksVars
  BY <1>3, <1>8 DEF quickbooksVars, GivenGrants, Given, Consented, UsedStates
<1> QED BY <1>6, <1>7, <1>8 DEF QuickBooksNext

\* With no connection and no request there is no token.
LEMMA TokensStart == QuickBooksInit => TokensInv /\ StatesPayForGrants
<1> SUFFICES ASSUME QuickBooksInit PROVE TokensInv /\ StatesPayForGrants
  OBVIOUS
<1> USE DEF QuickBooksInit
<1>1. NoConnection \in Rows BY DEF NoConnection, Rows, RowStatuses
<1>2. Idle \in RequestType BY <1>1 DEF Idle, RequestType, Places
<1>3. QuickBooksTypeOK BY <1>1, <1>2 DEF QuickBooksTypeOK, RequestType
<1>4. \A r \in Requests : req[r].at = "idle" /\ req[r].token = None /\ req[r].loaded.token = None
  BY DEF Idle, NoConnection
<1>5. TokensInv
  BY <1>3, <1>4 DEF TokensInv, HoldersSeeTheRow, Presents, TokensWereGiven, Held, FreshTokens,
     CallbacksNameRealms, RotatedTokens, StoredIsNewest, NoConnection
<1>6. GivenGrants = {} /\ Consented = {} /\ UsedStates = {}
  BY <1>4 DEF GivenGrants, Given, Consented, UsedStates
<1>7. StatesPayForGrants BY <1>6, FS_EmptySet DEF StatesPayForGrants
<1> QED BY <1>5, <1>7

-----------------------------------------------------------------------------
(* One administrator, who waits for each answer.                           *)

OneAtATime == \A p, q \in Requests : p # q => req[p].at = "idle" \/ req[q].at = "idle"

\* What it asked for is what is on record.
RowServes ==
  /\ DisconnectKeepsNoToken
  /\ row.status = "connected" =>
       row.token # None /\ row.token.key = key /\ grants[row.token.grant].realm = row.realm

\* Its request works on the row and the key as they are.
RequestIsCurrent(r) ==
  /\ req[r].at \notin {"idle", "saveKey", "load", "lock", "reload", "recheck"} => req[r].loaded = row
  /\ req[r].at \notin {"idle", "saveKey"} => req[r].key = key
  /\ req[r].at \in {"refresh", "saveRefresh", "reload", "company", "saveCompany"} => row.status = "connected"
  /\ req[r].at = "saveKey" => row.status # "connected"

OneAdminInv ==
  admins = "one" => OneAtATime /\ RowServes /\ \A r \in Requests : RequestIsCurrent(r)

\* The others of one administrator are idle, and stay so.
LEMMA OneAdminSettles ==
  ASSUME OneAdminInv, admins = "one", NEW r \in Requests, req[r].at # "idle" \/ MayBegin(r),
         \A q \in Requests \ {r} : req'[q] = req[q],
         RowServes', RequestIsCurrent(r)'
  PROVE  OneAdminInv'
<1>1. \A q \in Requests \ {r} : req'[q].at = "idle" BY DEF OneAdminInv, OneAtATime, MayBegin
<1>2. OneAtATime' BY <1>1 DEF OneAtATime
<1>3. \A q \in Requests \ {r} : RequestIsCurrent(q)' BY <1>1 DEF RequestIsCurrent
<1> QED BY <1>2, <1>3 DEF OneAdminInv

\* The row serves on if it stays, and the key stays while it is connected.
LEMMA RowServesOn ==
  ASSUME TokensInv, RowServes, row' = row, key' = key \/ row.status # "connected",
         \A g \in Grants : Given(g) => grants'[g].realm = grants[g].realm
  PROVE  RowServes'
<1>1. row.token # None => row.token.grant \in Grants /\ Given(row.token.grant)
  BY DEF TokensInv, QuickBooksTypeOK, Rows, Token, TokensWereGiven, Held
<1> QED BY <1>1 DEF RowServes, DisconnectKeepsNoToken

\* With one administrator every step of a request finds the row and the key as it
\* read them.
LEMMA OneAdminRequest ==
  ASSUME TokensInv, OneAdminInv, admins = "one", NEW r \in Requests,
         BeginRequest(r) \/ Proceed(r) \/ CrashRequest(r)
  PROVE  OneAdminInv'
<1>1. QuickBooksTypeOK /\ TokensWereGiven BY DEF TokensInv
<1>2. /\ OneAtATime /\ DisconnectKeepsNoToken /\ RowServes /\ RequestIsCurrent(r) /\ req[r] \in RequestType
      /\ row \in Rows
  BY <1>1 DEF OneAdminInv, RowServes, QuickBooksTypeOK, RequestType
<1>3. CASE \E g \in Grants : ExchangeCode(r, g)
  <2>1. PICK g \in Grants : ExchangeCode(r, g) BY <1>3
  <2>2. /\ req[r].at = "exchange" /\ req'[r].at = "save" /\ req'[r].loaded = req[r].loaded
        /\ req'[r].key = req[r].key /\ \A q \in Requests \ {r} : req'[q] = req[q]
        /\ row' = row /\ key' = key
    BY <1>1, <2>1 DEF ExchangeCode, QuickBooksTypeOK
  <2>3. \A h \in Grants : Given(h) => grants'[h].realm = grants[h].realm
    BY <1>1, <2>1 DEF ExchangeCode, QuickBooksTypeOK, Given
  <2>4. RequestIsCurrent(r)' BY <1>2, <2>2 DEF RequestIsCurrent
  <2> QED BY <1>2, <2>2, <2>3, <2>4, RowServesOn, OneAdminSettles
<1>4. CASE ~(\E g \in Grants : ExchangeCode(r, g))
  <2>1. Moves(r) BY <1>4, BeginMoves, ProceedMoves, CrashMoves
  <2>2. /\ \A q \in Requests \ {r} : req'[q] = req[q]
        /\ \A g \in Grants : grants'[g].realm = grants[g].realm
        /\ row' \in Rows /\ req'[r] \in RequestType
    BY <2>1 DEF Moves, TokensMove, QuickBooksTypeOK
  <2>3. req[r].at # "idle" \/ MayBegin(r)
    BY DEF BeginRequest, BeginConfigure, BeginVerify, LoadForDisconnect, ConsumeState, CrashRequest, Proceed,
       SaveConfiguration, RemoveConfiguration, LoadForCallback, ExchangeFails, SaveConnection, ExchangeCode,
       LockConnection, RotateToken, AnswerLost, RefreshRefused, RefreshUnauthorized, ProviderFails, SaveRefresh,
       Reload, CompanyRead, CompanyUnauthorized, SaveCompany, ClearTokens, Revoke, SaveDisconnect
  <2>4. SUFFICES RowServes' /\ RequestIsCurrent(r)' BY <2>2, <2>3, OneAdminSettles
  <2>5. EndRequest(r) => RequestIsCurrent(r)'
    BY <1>1 DEF EndRequest, RequestIsCurrent, Idle, QuickBooksTypeOK
  <2>6. row' = row /\ (key' = key \/ row.status # "connected") => RowServes'
    BY <1>2, <2>2, RowServesOn
  <2>7. CASE BeginRequest(r)
    <3>1. row' = row /\ key' = key
      BY <2>7 DEF BeginRequest, BeginConfigure, BeginVerify, LoadForDisconnect, ConsumeState
    <3>2. RequestIsCurrent(r)'
      <4>1. req[r].at = "idle"
        BY <2>7 DEF BeginRequest, BeginConfigure, BeginVerify, LoadForDisconnect, ConsumeState, MayBegin
      <4>2. CASE BeginConfigure(r)
        BY <1>1, <4>2, <3>1 DEF BeginConfigure, Go, RequestIsCurrent, QuickBooksTypeOK
      <4>3. CASE BeginVerify(r)
        BY <1>1, <4>3, <3>1 DEF BeginVerify, RequestIsCurrent, QuickBooksTypeOK
      <4>4. CASE LoadForDisconnect(r)
        BY <1>1, <4>4, <3>1 DEF LoadForDisconnect, RequestIsCurrent, QuickBooksTypeOK
      <4>5. ASSUME NEW s \in States, NEW realm \in Realms, ConsumeState(r, s, realm) PROVE RequestIsCurrent(r)'
        BY <1>1, <4>1, <4>5, <3>1 DEF ConsumeState, RequestIsCurrent, QuickBooksTypeOK
      <4> QED BY <2>7, <4>2, <4>3, <4>4, <4>5 DEF BeginRequest
    <3> QED BY <2>6, <3>1, <3>2
  <2>8. CASE \/ CrashRequest(r) \/ ExchangeFails(r) \/ ProviderFails(r) \/ AnswerLost(r)
             \/ SaveConfiguration(r) \/ RemoveConfiguration(r)
    <3>1. EndRequest(r) /\ row' = row
      BY <2>8 DEF CrashRequest, ExchangeFails, ProviderFails, AnswerLost, SaveConfiguration, RemoveConfiguration
    <3>2. key' = key \/ row.status # "connected"
      BY <1>2, <2>8 DEF CrashRequest, ExchangeFails, ProviderFails, AnswerLost, SaveConfiguration,
         RemoveConfiguration, RequestIsCurrent
    <3> QED BY <2>5, <2>6, <3>1, <3>2
  <2>9. CASE LoadForCallback(r) \/ LockConnection(r)
    <3>1. row' = row /\ key' = key /\ req[r].at \in {"load", "lock"} BY <2>9 DEF LoadForCallback, LockConnection
    <3>2. CASE EndRequest(r) BY <2>5, <2>6, <3>1, <3>2
    <3>3. CASE ~EndRequest(r)
      <4>1. \/ req' = [req EXCEPT ![r] = [[req[r] EXCEPT !.at = "exchange"] EXCEPT !.loaded = row]]
            \/ /\ row.status = "connected"
               /\ \E to \in {"company", "refresh"} :
                    req' = [req EXCEPT ![r] = [[req[r] EXCEPT !.at = to] EXCEPT !.loaded = row]]
        BY <2>9, <3>3 DEF LoadForCallback, LockConnection, VerifyFrom
      <4>2. /\ req'[r].loaded = row /\ req'[r].key = req[r].key
            /\ req'[r].at \in {"company", "refresh", "exchange"}
            /\ req'[r].at = "exchange" \/ row.status = "connected"
        <5> DEFINE at(to) == [[req[r] EXCEPT !.at = to] EXCEPT !.loaded = row]
        <5>1. \A to : at(to).at = to /\ at(to).loaded = row /\ at(to).key = req[r].key
          BY <1>2 DEF RequestType
        <5>2. \E to \in {"company", "refresh", "exchange"} :
                 req' = [req EXCEPT ![r] = at(to)] /\ (to = "exchange" \/ row.status = "connected")
          BY <4>1
        <5>3. \E to \in {"company", "refresh", "exchange"} :
                 req'[r] = at(to) /\ (to = "exchange" \/ row.status = "connected")
          BY <1>1, <5>2 DEF QuickBooksTypeOK
        <5> HIDE DEF at
        <5> QED BY <5>1, <5>3
      <4>3. RequestIsCurrent(r)' BY <1>2, <3>1, <4>2 DEF RequestIsCurrent
      <4> QED BY <2>6, <3>1, <4>3
    <3> QED BY <3>2, <3>3
  <2>10. CASE RotateToken(r) \/ CompanyRead(r) \/ CompanyUnauthorized(r) \/ Revoke(r)
    <3>1. row' = row /\ key' = key /\ req[r].at \in {"refresh", "company", "revoke"}
      BY <2>10 DEF RotateToken, CompanyRead, CompanyUnauthorized, Revoke
    <3>2. /\ req'[r].loaded = req[r].loaded /\ req'[r].key = req[r].key
          /\ req'[r].at \in {"saveRefresh", "saveCompany", "refresh", "clear", "saveDisconnect"}
          /\ req[r].at = "revoke" => req'[r].at = "saveDisconnect"
      BY <1>1, <2>10 DEF RotateToken, CompanyRead, CompanyUnauthorized, Revoke, Go, QuickBooksTypeOK
    <3>3. RequestIsCurrent(r)' BY <1>2, <3>1, <3>2 DEF RequestIsCurrent
    <3> QED BY <2>6, <3>1, <3>3
  <2>11. CASE Reload(r)
    <3>1. row' = row /\ key' = key /\ req[r].at \in {"reload", "recheck"}
      BY <2>11 DEF Reload
    <3>2. /\ req'[r].loaded = row /\ req'[r].key = req[r].key
          /\ req'[r].at \in {"company", "clear"} /\ (req'[r].at = "company" => req[r].at = "reload")
      BY <1>1, <2>11 DEF Reload, QuickBooksTypeOK
    <3>3. RequestIsCurrent(r)' BY <1>2, <3>1, <3>2 DEF RequestIsCurrent
    <3> QED BY <2>6, <3>1, <3>3
  <2>12. ASSUME req[r].loaded = row, NEW new \in Rows, Flush(r, new)
         PROVE  row'.status = new.status /\ row'.realm = new.realm /\ row'.token = new.token
    BY <1>1, <2>12, FlushedRow
  <2>13. CASE RefreshRefused(r) \/ ClearTokens(r) \/ SaveDisconnect(r)
    <3>1. EndRequest(r) /\ req[r].loaded = row
      BY <1>2, <2>13 DEF RefreshRefused, ClearTokens, SaveDisconnect, RequestIsCurrent
    <3>2. \E new \in {Cleared(r), Disconnected(req[r].loaded)} : Flush(r, new)
      BY <2>13 DEF RefreshRefused, ClearTokens, SaveDisconnect
    <3>3. \A new \in {Cleared(r), Disconnected(req[r].loaded)} :
            new \in Rows /\ new.token = None /\ new.status # "connected"
      BY <1>1, ZenonT(40) DEF QuickBooksTypeOK, Rows, Cleared, Disconnected, RowStatuses
    <3>4. row'.token = None /\ row'.status # "connected" BY <2>12, <3>1, <3>2, <3>3
    <3> QED BY <2>5, <3>1, <3>4 DEF RowServes, DisconnectKeepsNoToken
  <2>14. CASE RefreshUnauthorized(r)
    <3>1. /\ req[r].at = "refresh" /\ req'[r].at = "recheck" /\ req'[r].key = req[r].key /\ key' = key
          /\ Flush(r, Cleared(r)) \/ row' = row
      BY <1>1, <2>14 DEF RefreshUnauthorized, Go, QuickBooksTypeOK
    <3>2. RequestIsCurrent(r)' BY <1>2, <3>1 DEF RequestIsCurrent
    <3>3. CASE Flush(r, Cleared(r))
      <4>1. Cleared(r) \in Rows /\ Cleared(r).token = None /\ Cleared(r).status = "reconnect_required"
        BY <1>1 DEF QuickBooksTypeOK, Rows, Cleared, RowStatuses
      <4>2. req[r].loaded = row BY <1>2, <3>1 DEF RequestIsCurrent
      <4>3. row'.status = "reconnect_required" BY <2>12, <3>3, <4>1, <4>2
      <4> QED BY <3>2, <4>3 DEF RowServes, DisconnectKeepsNoToken
    <3>4. CASE row' = row BY <2>6, <3>1, <3>2, <3>4
    <3> QED BY <3>1, <3>3, <3>4
  <2>15. CASE SaveConnection(r)
    <3> DEFINE new == [status |-> "connected", realm |-> req[r].realm, token |-> req[r].token]
    <3>1. /\ req[r].at = "save" /\ EndRequest(r) /\ UNCHANGED <<key, grants>>
          /\ Flush(r, new) \/ row' = new \/ row' = row
      BY <2>15 DEF SaveConnection
    <3>2. new \in Rows BY <1>1 DEF QuickBooksTypeOK, Rows, RowStatuses
    <3>3. Fresh(r) /\ req[r].loaded = row /\ req[r].key = key
      BY <1>2, <3>1 DEF TokensInv, FreshTokens, RequestIsCurrent
    <3>4. CASE row' = row BY <2>5, <2>6, <3>1, <3>4
    <3>5. CASE row' # row
      <4>1. row'.status = "connected" /\ row'.realm = req[r].realm /\ row'.token = req[r].token
        BY <2>12, <3>1, <3>2, <3>3, <3>5
      <4> QED BY <2>5, <3>1, <3>3, <4>1 DEF RowServes, DisconnectKeepsNoToken, Fresh
    <3> QED BY <3>4, <3>5
  <2>16. CASE SaveRefresh(r)
    <3> DEFINE new == [req[r].loaded EXCEPT !.token = req[r].token]
    <3>1. /\ req[r].at = "saveRefresh" /\ req'[r].at = "reload" /\ req'[r].key = req[r].key
          /\ UNCHANGED <<key, grants>> /\ Flush(r, new)
      BY <1>1, <2>16 DEF SaveRefresh, Go, QuickBooksTypeOK
    <3>2. req[r].loaded = row /\ row.status = "connected" /\ Rotated(r)
      BY <1>2, <3>1 DEF TokensInv, RotatedTokens, RequestIsCurrent
    <3>3. new \in Rows /\ new.token = req[r].token /\ new.status = row.status /\ new.realm = row.realm
      BY <1>1, <3>2 DEF QuickBooksTypeOK, Rows
    <3>4. row'.status = "connected" /\ row'.realm = row.realm /\ row'.token = req[r].token
      BY <2>12, <3>1, <3>2, <3>3
    <3>5. RowServes' BY <1>2, <3>1, <3>2, <3>4 DEF RowServes, DisconnectKeepsNoToken, Rotated
    <3>6. RequestIsCurrent(r)' BY <1>2, <3>1, <3>4 DEF RequestIsCurrent
    <3> QED BY <3>5, <3>6
  <2>17. CASE SaveCompany(r)
    <3> DEFINE new == [req[r].loaded EXCEPT !.status = "connected"]
    <3>1. req[r].at = "saveCompany" /\ EndRequest(r) /\ UNCHANGED <<key, grants>> /\ Flush(r, new)
      BY <2>17 DEF SaveCompany
    <3>2. req[r].loaded = row /\ row.status = "connected" BY <1>2, <3>1 DEF RequestIsCurrent
    <3>3. new \in Rows /\ new.token = row.token /\ new.status = "connected" /\ new.realm = row.realm
      BY <1>1, <3>2 DEF QuickBooksTypeOK, Rows, RowStatuses
    <3>4. row'.status = "connected" /\ row'.realm = row.realm /\ row'.token = row.token
      BY <2>12, <3>1, <3>2, <3>3
    <3> QED BY <1>2, <2>5, <3>1, <3>2, <3>4 DEF RowServes, DisconnectKeepsNoToken
  <2> QED BY <1>4, <2>7, <2>8, <2>9, <2>10, <2>11, <2>13, <2>14, <2>15, <2>16, <2>17 DEF Proceed
<1> QED BY <1>3, <1>4

\* Every step keeps that, or makes it known that there are several administrators.
LEMMA OneAdminStep == TokensInv /\ OneAdminInv /\ [QuickBooksNext]_quickbooksVars => OneAdminInv'
<1> SUFFICES ASSUME TokensInv, OneAdminInv, [QuickBooksNext]_quickbooksVars PROVE OneAdminInv'
  OBVIOUS
<1>1. ASSUME NEW r \in Requests, BeginRequest(r) \/ Proceed(r) \/ CrashRequest(r) PROVE OneAdminInv'
  <2>1. admins' = admins
    BY <1>1 DEF BeginRequest, BeginConfigure, BeginVerify, LoadForDisconnect, ConsumeState, CrashRequest, Proceed,
       SaveConfiguration, RemoveConfiguration, LoadForCallback, ExchangeFails, SaveConnection, ExchangeCode,
       LockConnection, RotateToken, AnswerLost, RefreshRefused, RefreshUnauthorized, ProviderFails, SaveRefresh,
       Reload, CompanyRead, CompanyUnauthorized, SaveCompany, ClearTokens, Revoke, SaveDisconnect
  <2>2. CASE admins = "one" BY <1>1, <2>2, OneAdminRequest
  <2>3. CASE admins # "one" BY <2>1, <2>3 DEF OneAdminInv
  <2> QED BY <2>2, <2>3
<1>2. ASSUME UNCHANGED <<row, key, grants, req, admins>> PROVE OneAdminInv'
  BY <1>2 DEF OneAdminInv, OneAtATime, RowServes, DisconnectKeepsNoToken, RequestIsCurrent
<1>3. ASSUME NEW s \in States, StartOAuth(s) \/ ExpireState(s) PROVE OneAdminInv'
  BY <1>2, <1>3 DEF StartOAuth, ExpireState
<1>4. CASE UNCHANGED quickbooksVars BY <1>2, <1>4 DEF quickbooksVars
<1> QED BY <1>1, <1>3, <1>4 DEF QuickBooksNext

-----------------------------------------------------------------------------
(* Theorems.                                                               *)

QuickBooksInv == TokensInv /\ StatesPayForGrants /\ OneAdminInv

\* The inductive invariant: who presents a token holds the lock of the row, each
\* token has one origin, and a state pays for each grant.
THEOREM QuickBooksInvariant == QuickBooksSpec => []QuickBooksInv
<1>1. QuickBooksInit => QuickBooksInv
  <2>1. QuickBooksInit => OneAdminInv
    BY DEF QuickBooksInit, OneAdminInv, OneAtATime, RowServes, DisconnectKeepsNoToken, RequestIsCurrent,
       Idle, NoConnection
  <2> QED BY <2>1, TokensStart DEF QuickBooksInv
<1>2. QuickBooksInv /\ [QuickBooksNext]_quickbooksVars => QuickBooksInv'
  BY TokensStep, StatesPayStep, OneAdminStep DEF QuickBooksInv
<1> QED BY <1>1, <1>2, PTL DEF QuickBooksSpec

\* A refresh presents the newest token of its grant, because it read the row
\* under the lock that it still holds (_locked_connection, verify).
LEMMA PresentedIsNewest == TokensInv => RefreshPresentsNewest
<1> SUFFICES ASSUME TokensInv, NEW r \in Requests, req[r].at = "refresh", Refreshable(r)
             PROVE  Presented(r).n = grants[Presented(r).grant].current \/ Presented(r).grant \in lost
  BY DEF RefreshPresentsNewest
<1>1. lock = r /\ req[r].loaded = row BY DEF TokensInv, HoldersSeeTheRow, Presents
<1>2. \A q \in Requests : req[q].at # "saveRefresh" BY <1>1 DEF TokensInv, HoldersSeeTheRow, Presents
<1> QED BY <1>1, <1>2 DEF TokensInv, StoredIsNewest, Presented, Refreshable

\* For any administrators, callbacks and failures: what is presented and what is
\* on record is the newest token of its grant, each consent is exchanged once,
\* and one administrator is served by what it asked for.
THEOREM ConnectionHolds == QuickBooksSpec => []QuickBooksHolds
<1>1. QuickBooksInv => QuickBooksHolds
  <2> SUFFICES ASSUME QuickBooksInv PROVE QuickBooksHolds OBVIOUS
  <2>1. TokensInv /\ StatesPayForGrants /\ OneAdminInv BY DEF QuickBooksInv
  <2>2. RefreshPresentsNewest BY <2>1, PresentedIsNewest
  <2>3. Cardinality(GivenGrants) \in Nat /\ Cardinality(Consented) \in Nat /\ Cardinality(UsedStates) \in Nat
    BY <2>1, FS_CardinalityType DEF StatesPayForGrants
  <2>4. Cardinality(GivenGrants) <= Cardinality(UsedStates) BY <2>1, <2>3 DEF StatesPayForGrants
  <2>5. StateUsedOnce BY <2>4 DEF StateUsedOnce, GivenGrants, UsedStates, Given
  <2>6. TokensAreNewest BY <2>1, <2>2, <2>5 DEF TokensAreNewest, TokensInv
  <2>7. OneAdminIsServed
    BY <2>1 DEF OneAdminIsServed, OneAdminDisconnects, OneAdminConnects, OneAdminInv, RowServes
  <2> QED BY <2>1, <2>6, <2>7 DEF QuickBooksHolds, TokensInv
<1> QED BY <1>1, QuickBooksInvariant, PTL

-----------------------------------------------------------------------------
(* Google Calendar: the inductive invariant.                               *)

\* What a request holds at each place of its handler.
LinkRow == [status: {"absent", "connected", "disconnected"}, access: Consents \cup {NoGrant},
            fresh: BOOLEAN, refresh: Consents \cup {NoGrant}]
Reading == {"exchange", "connect", "refresh", "renew", "expire", "revoke", "clear"}
VisitStates ==
  [at: {"idle", "call"}] \cup [at: {"consume"}, state: OAuthStates]
    \cup [at: {"exchange"}, state: OAuthStates, seen: LinkRow]
    \cup [at: {"connect"}, seen: LinkRow, new: LinkRow]
    \cup [at: {"refresh", "renew", "expire", "revoke", "clear"}, seen: LinkRow]

\* The columns that a request decides on are as it has read them.
Current(seen) ==
  seen.status = link.status /\ seen.access = link.access /\ seen.refresh = link.refresh

\* A callback connects with a token; a renewal began with a connected row; what
\* is about to be cleared is a token that Google does not honour any more.
StateOK(s) ==
  /\ s \in VisitStates
  /\ s.at \in Reading => s.seen.refresh <= consents
  /\ s.at = "connect" => /\ s.new.status = "connected" /\ s.new.access # NoGrant
                         /\ s.new.refresh # NoGrant /\ s.new.refresh <= consents
  /\ s.at \in {"refresh", "renew"} => s.seen.status = "connected" /\ s.seen.refresh # NoGrant
  /\ s.at \in {"expire", "clear"} => s.seen # NoLink /\ s.seen.refresh \notin live
  /\ s.at = "revoke" => s.seen # NoLink
  /\ ~interleaved /\ s.at \in Reading => Current(s.seen)

VisitsOK == visit \in [Visits -> VisitStates] /\ \A v \in Visits : StateOK(visit[v])

\* A grant is known from the consent on.
GrantsKnown ==
  /\ consents \in 0..MaxConsents /\ interleaved \in BOOLEAN
  /\ live \subseteq 1..consents
  /\ link.refresh <= consents
  /\ \A s \in OAuthStates : oauth[s].code <= consents

Connected ==
  ~interleaved => /\ link.status = "connected" <=> link.refresh # NoGrant
                  /\ forgotten = {}

CalendarInv == CalendarTypeOK /\ GrantsKnown /\ VisitsOK /\ Connected

USE CalendarAssumption DEF NoGrant, Consents

-----------------------------------------------------------------------------
\* What a request holds, by its place.
LEMMA Shapes ==
  ASSUME NEW s \in VisitStates
  PROVE  /\ s.at \in Reading => s.seen \in LinkRow
         /\ s.at = "connect" => s.new \in LinkRow
         /\ s.at \in {"consume", "exchange"} => s.state \in OAuthStates
         /\ s.at \in Reading \cup {"idle", "call", "consume"}
BY DEF VisitStates, Reading

\* The requests that hold a copy of the row are those at such a place.
LEMMA ReadersAre ==
  ASSUME VisitsOK PROVE Readers = {v \in Visits : visit[v].at \in Reading}
BY DEF Readers, Reading

\* A flush writes a row of the table, and the columns are the new ones where they
\* differ from what was read.
LEMMA FlushedLink ==
  ASSUME NEW seen \in LinkRow, NEW new \in LinkRow, link \in LinkRow
  PROVE  /\ FlushLink(seen, new) \in LinkRow
         /\ FlushLink(seen, new).status = IF new.status # seen.status THEN new.status ELSE link.status
         /\ FlushLink(seen, new).refresh =
              IF new.refresh # seen.refresh \/ new.access # NoGrant THEN new.refresh ELSE link.refresh
<1>1. DOMAIN link = {"status", "access", "fresh", "refresh"}
  BY DEF LinkRow
<1> DEFINE flushed == FlushLink(seen, new)
<1>2. flushed = [c \in {"status", "access", "fresh", "refresh"} |->
                   IF new[c] # seen[c] \/ (c # "status" /\ new.access # NoGrant) THEN new[c] ELSE link[c]]
  BY <1>1 DEF FlushLink
<1>3. /\ flushed.status = IF new.status # seen.status THEN new.status ELSE link.status
      /\ flushed.access = IF new.access # seen.access \/ new.access # NoGrant THEN new.access ELSE link.access
      /\ flushed.fresh = IF new.fresh # seen.fresh \/ new.access # NoGrant THEN new.fresh ELSE link.fresh
      /\ flushed.refresh =
           IF new.refresh # seen.refresh \/ new.access # NoGrant THEN new.refresh ELSE link.refresh
  BY <1>2
<1>4. flushed = [status |-> flushed.status, access |-> flushed.access,
                 fresh |-> flushed.fresh, refresh |-> flushed.refresh]
  BY <1>2
<1> HIDE DEF flushed
<1>5. /\ flushed.status \in {"absent", "connected", "disconnected"}
      /\ flushed.access \in Consents \cup {NoGrant} /\ flushed.fresh \in BOOLEAN
      /\ flushed.refresh \in Consents \cup {NoGrant}
  BY <1>3 DEF LinkRow
<1>6. flushed \in LinkRow
  BY <1>4, <1>5 DEF LinkRow
<1> QED BY <1>3, <1>6 DEF flushed

\* A step of one request that leaves the row and the grants alone.
LEMMA StepsAlone ==
  ASSUME CalendarInv, NEW v \in Visits, NEW state \in VisitStates,
         GoOn(v, state), UNCHANGED <<link, live, consents, interleaved, forgotten>>, StateOK(state)
  PROVE  VisitsOK' /\ Connected'
<1>1. visit' = [visit EXCEPT ![v] = state] /\ visit \in [Visits -> VisitStates]
  BY DEF GoOn, CalendarInv, VisitsOK
<1>2. visit' \in [Visits -> VisitStates]
  BY <1>1
<1>3. \A u \in Visits : StateOK(visit'[u])
  BY <1>1 DEF CalendarInv, VisitsOK
<1>4. \A u \in Visits : StateOK(visit[u])'
  BY <1>3 DEF StateOK, Current
<1> QED BY <1>2, <1>4 DEF VisitsOK, Connected, CalendarInv

\* A step that writes the row: unless it was counted as an overlap, no other
\* request holds a copy.
LEMMA StepsOverwriting ==
  ASSUME CalendarInv, NEW v \in Visits, NEW state \in VisitStates, state.at \in {"idle", "call"},
         GoOn(v, state), Overlaps(v), UNCHANGED <<live, consents>>
  PROVE  /\ VisitsOK' /\ interleaved' \in BOOLEAN
         /\ ~interleaved' => ~interleaved
<1>1. visit' = [visit EXCEPT ![v] = state] /\ visit \in [Visits -> VisitStates]
  BY DEF GoOn, CalendarInv, VisitsOK
<1>2. visit' \in [Visits -> VisitStates]
  BY <1>1
<1>3. ~interleaved' => ~interleaved /\ \A u \in Visits \ {v} : visit[u].at \notin Reading
  BY ReadersAre DEF Overlaps, CalendarInv
<1>4. ASSUME NEW u \in Visits PROVE StateOK(visit[u])'
  <2>1. CASE u = v
    <3>1. visit'[u] = state
      BY <1>1, <2>1
    <3> QED BY <3>1 DEF StateOK, Reading
  <2>2. CASE u # v
    <3>1. visit'[u] = visit[u] /\ StateOK(visit[u])
      BY <1>1, <2>2 DEF CalendarInv, VisitsOK
    <3>2. ~interleaved' => visit[u].at \notin Reading
      BY <1>3, <2>2
    <3> QED BY <3>1, <3>2 DEF StateOK
  <2> QED BY <2>1, <2>2
<1>5. interleaved' \in BOOLEAN
  BY DEF Overlaps, CalendarInv, GrantsKnown
<1> QED BY <1>2, <1>3, <1>4, <1>5 DEF VisitsOK

\* Clearing a row writes it disconnected and without a token, when it is as it was
\* read; the token that leaves it is one that Google does not honour.
LEMMA ClearingHolds ==
  ASSUME CalendarInv, NEW v \in Visits, visit[v].at \in {"expire", "clear"},
         Write(v, [NoLink EXCEPT !.status = "disconnected"]), Forgets,
         UNCHANGED <<oauth, live, consents, losses>>
  PROVE  CalendarInv'
<1> DEFINE seen == visit[v].seen
           new == [NoLink EXCEPT !.status = "disconnected"]
<1>1. /\ new \in LinkRow /\ new.status = "disconnected" /\ new.access = NoGrant /\ new.refresh = NoGrant
  BY DEF NoLink, LinkRow
<1>2. visit[v] \in VisitStates /\ StateOK(visit[v])
  BY DEF CalendarInv, VisitsOK
<1>3. seen \in LinkRow /\ seen # NoLink /\ seen.refresh \notin live /\ (~interleaved => Current(seen))
  BY <1>2, Shapes DEF StateOK, Reading
<1>4. link \in LinkRow
  BY DEF CalendarInv, CalendarTypeOK, LinkRow
<1> HIDE DEF seen, new
<1>5. link' = FlushLink(seen, new) /\ Overlaps(v) /\ GoOn(v, NoVisit)
  BY <1>3 DEF Write, seen, new
<1>6. /\ link' \in LinkRow
      /\ link'.status = IF new.status # seen.status THEN new.status ELSE link.status
      /\ link'.refresh = IF new.refresh # seen.refresh THEN new.refresh ELSE link.refresh
  BY <1>1, <1>3, <1>4, <1>5, FlushedLink
<1>7. VisitsOK' /\ interleaved' \in BOOLEAN /\ (~interleaved' => ~interleaved)
  <2>1. NoVisit \in VisitStates /\ NoVisit.at = "idle"
    BY DEF NoVisit, VisitStates
  <2> QED BY <1>5, <2>1, StepsOverwriting
<1>8. CalendarTypeOK'
  BY <1>6 DEF CalendarInv, CalendarTypeOK, LinkRow, Forgets
<1>9. GrantsKnown'
  BY <1>1, <1>6, <1>7 DEF CalendarInv, GrantsKnown
<1>10. Connected'
  <2> SUFFICES ASSUME ~interleaved'
               PROVE  (link'.status = "connected" <=> link'.refresh # NoGrant) /\ forgotten' = {}
    BY DEF Connected
  <2>1. ~interleaved /\ Current(seen)
    BY <1>3, <1>7
  <2>2. link'.status = "disconnected" /\ link'.refresh = NoGrant
    BY <1>1, <1>6, <2>1 DEF Current
  <2>3. forgotten' = {}
    BY <1>3, <2>1 DEF Forgets, Current, CalendarInv, Connected
  <2> QED BY <2>2, <2>3
<1> QED BY <1>7, <1>8, <1>9, <1>10 DEF CalendarInv

\* A renewal keeps the refresh token and the status, when the row is as it was read.
LEMMA RenewalHolds ==
  ASSUME CalendarInv, NEW v \in Visits, SaveAccess(v)
  PROVE  CalendarInv' /\ link'.status = link.status
<1> DEFINE seen == visit[v].seen
           new == [status |-> "connected", access |-> seen.refresh, fresh |-> TRUE, refresh |-> seen.refresh]
<1>1. visit[v] \in VisitStates /\ StateOK(visit[v]) /\ visit[v].at = "renew"
  BY DEF CalendarInv, VisitsOK, SaveAccess
<1>2. /\ seen \in LinkRow /\ seen.status = "connected" /\ seen.refresh # NoGrant
      /\ seen.refresh <= consents /\ (~interleaved => Current(seen))
  BY <1>1, Shapes DEF StateOK, Reading
<1>3. /\ new \in LinkRow /\ new.status = "connected" /\ new.access # NoGrant /\ new.refresh = seen.refresh
  BY <1>2 DEF LinkRow
<1>4. link \in LinkRow
  BY DEF CalendarInv, CalendarTypeOK, LinkRow
<1>5. link' = FlushLink(seen, new) /\ Overlaps(v) /\ GoOn(v, [at |-> "call"])
  BY DEF SaveAccess
<1> HIDE DEF seen, new
<1>6. link' \in LinkRow /\ link'.status = link.status /\ link'.refresh = seen.refresh
  <2>1. /\ FlushLink(seen, new) \in LinkRow
        /\ FlushLink(seen, new).status = IF new.status # seen.status THEN new.status ELSE link.status
        /\ FlushLink(seen, new).refresh =
             IF new.refresh # seen.refresh \/ new.access # NoGrant THEN new.refresh ELSE link.refresh
    BY <1>2, <1>3, <1>4, FlushedLink
  <2> QED BY <1>2, <1>3, <1>5, <2>1
<1>7. VisitsOK' /\ interleaved' \in BOOLEAN /\ (~interleaved' => ~interleaved)
  <2>1. [at |-> "call"] \in VisitStates /\ [at |-> "call"].at = "call"
    BY DEF VisitStates
  <2> QED BY <1>5, <2>1, StepsOverwriting DEF SaveAccess
<1>8. CalendarTypeOK'
  BY <1>6 DEF CalendarInv, CalendarTypeOK, LinkRow, Forgets, SaveAccess
<1>9. GrantsKnown'
  BY <1>2, <1>6, <1>7 DEF CalendarInv, GrantsKnown, SaveAccess
<1>10. Connected'
  <2> SUFFICES ASSUME ~interleaved'
               PROVE  (link'.status = "connected" <=> link'.refresh # NoGrant) /\ forgotten' = {}
    BY DEF Connected
  <2>1. ~interleaved /\ Current(seen)
    BY <1>2, <1>7
  <2>2. link'.status = "connected" /\ link'.refresh # NoGrant /\ link'.refresh = link.refresh
    BY <1>2, <1>6, <2>1 DEF Current
  <2>3. forgotten' = {}
    BY <2>1, <2>2 DEF Forgets, CalendarInv, Connected, SaveAccess
  <2> QED BY <2>2, <2>3
<1> QED BY <1>6, <1>7, <1>8, <1>9, <1>10 DEF CalendarInv

\* A callback connects with the token that it exchanged its code for.
LEMMA ConnectHolds ==
  ASSUME CalendarInv, NEW v \in Visits, Connect(v)
  PROVE  CalendarInv'
<1> DEFINE seen == visit[v].seen
           new == visit[v].new
<1>1. visit[v] \in VisitStates /\ StateOK(visit[v]) /\ visit[v].at = "connect"
  BY DEF CalendarInv, VisitsOK, Connect
<1>2. /\ seen \in LinkRow /\ new \in LinkRow
      /\ new.status = "connected" /\ new.access # NoGrant
      /\ new.refresh # NoGrant /\ new.refresh <= consents /\ (~interleaved => Current(seen))
  BY <1>1, Shapes DEF StateOK, Reading
<1>3. link \in LinkRow
  BY DEF CalendarInv, CalendarTypeOK, LinkRow
<1>4. /\ link' = IF seen = NoLink THEN new ELSE FlushLink(seen, new)
      /\ Overlaps(v) /\ GoOn(v, NoVisit) /\ UNCHANGED <<oauth, live, consents, losses, forgotten>>
  BY DEF Connect, Write
<1> HIDE DEF seen, new
<1>5. /\ link' \in LinkRow /\ link'.refresh = new.refresh
      /\ link'.status = IF seen = NoLink \/ new.status # seen.status THEN new.status ELSE link.status
  BY <1>2, <1>3, <1>4, FlushedLink
<1>6. VisitsOK' /\ interleaved' \in BOOLEAN /\ (~interleaved' => ~interleaved)
  <2>1. NoVisit \in VisitStates /\ NoVisit.at = "idle"
    BY DEF NoVisit, VisitStates
  <2> QED BY <1>4, <2>1, StepsOverwriting
<1>7. CalendarTypeOK'
  BY <1>4, <1>5 DEF CalendarInv, CalendarTypeOK, LinkRow
<1>8. GrantsKnown'
  BY <1>2, <1>4, <1>5, <1>6 DEF CalendarInv, GrantsKnown
<1>9. Connected'
  <2> SUFFICES ASSUME ~interleaved'
               PROVE  (link'.status = "connected" <=> link'.refresh # NoGrant) /\ forgotten' = {}
    BY DEF Connected
  <2>1. ~interleaved /\ Current(seen)
    BY <1>2, <1>6
  <2>2. link'.status = "connected" /\ link'.refresh # NoGrant
    BY <1>2, <1>5, <2>1 DEF Current
  <2> QED BY <1>4, <2>1, <2>2 DEF CalendarInv, Connected
<1> QED BY <1>6, <1>7, <1>8, <1>9 DEF CalendarInv

-----------------------------------------------------------------------------
\* Steps of a request that leave the row alone: the two that change the grants or
\* the states at Google are the exchange of a code and a revocation.
LEMMA QuietSteps ==
  ASSUME CalendarInv, NEW v \in Visits,
         \/ \E s \in OAuthStates : BeginCallback(v, s)
         \/ UseState(v) \/ Exchange(v) \/ ExchangeRefused(v) \/ ConnectClashes(v)
         \/ BeginUse(v) \/ RefreshAccess(v) \/ CallCalendar(v) \/ BeginDisconnect(v)
  PROVE  CalendarInv' /\ link' = link
<1>1. visit[v] \in VisitStates /\ StateOK(visit[v]) /\ visit \in [Visits -> VisitStates]
  BY DEF CalendarInv, VisitsOK
<1>2. link \in LinkRow /\ link.refresh <= consents
  BY DEF CalendarInv, CalendarTypeOK, GrantsKnown, LinkRow
<1>3. NoVisit \in VisitStates /\ StateOK(NoVisit)
  BY DEF NoVisit, VisitStates, StateOK, Reading
<1>4. link' = link /\ UNCHANGED <<live, consents, interleaved, forgotten>>
  BY DEF BeginCallback, UseState, Exchange, ExchangeRefused, ConnectClashes, BeginUse, RefreshAccess,
         CallCalendar, BeginDisconnect
<1>5. /\ oauth' \in [OAuthStates -> [status: {"absent", "started", "used"}, code: Consents \cup {NoGrant}]]
      /\ \A s \in OAuthStates : oauth'[s].code <= consents
  <2>1. CASE UseState(v)
    <3>1. visit[v].state \in OAuthStates
      BY <1>1, <2>1, Shapes DEF UseState
    <3> QED BY <2>1, <3>1 DEF UseState, CalendarInv, CalendarTypeOK, GrantsKnown
  <2>2. CASE Exchange(v)
    <3>1. visit[v].state \in OAuthStates
      BY <1>1, <2>2, Shapes DEF Exchange
    <3>2. 0 <= consents
      BY DEF CalendarInv, GrantsKnown
    <3> QED BY <2>2, <3>1, <3>2 DEF Exchange, CalendarInv, CalendarTypeOK, GrantsKnown
  <2>3. CASE ~UseState(v) /\ ~Exchange(v)
    <3>1. oauth' = oauth
      BY <2>3 DEF BeginCallback, ExchangeRefused, ConnectClashes, BeginUse, RefreshAccess, CallCalendar,
                  BeginDisconnect
    <3> QED BY <3>1 DEF CalendarInv, CalendarTypeOK, GrantsKnown
  <2> QED BY <2>1, <2>2, <2>3
<1>6. \E state \in VisitStates : GoOn(v, state) /\ StateOK(state)
  <2>1. CASE \E s \in OAuthStates : BeginCallback(v, s)
    <3>1. PICK s \in OAuthStates : GoOn(v, [at |-> "consume", state |-> s])
      BY <2>1 DEF BeginCallback
    <3>2. [at |-> "consume", state |-> s] \in VisitStates
      BY DEF VisitStates
    <3> QED BY <3>1, <3>2 DEF StateOK, Reading
  <2>2. CASE UseState(v)
    <3> DEFINE state == [at |-> "exchange", state |-> visit[v].state, seen |-> link]
    <3>1. GoOn(v, NoVisit) \/ GoOn(v, state)
      BY <2>2 DEF UseState
    <3>2. visit[v].state \in OAuthStates
      BY <1>1, <2>2, Shapes DEF UseState
    <3>3. state \in VisitStates
      BY <1>2, <3>2 DEF VisitStates
    <3>4. StateOK(state)
      BY <1>2, <3>3 DEF StateOK, Current
    <3> QED BY <1>3, <3>1, <3>3, <3>4
  <2>3. CASE Exchange(v)
    <3> DEFINE g == oauth[visit[v].state].code
               seen == visit[v].seen
    <3>1. visit[v].at = "exchange" /\ g \in live
      BY <2>3 DEF Exchange
    <3>2. visit[v].state \in OAuthStates /\ seen \in LinkRow /\ seen.refresh <= consents
          /\ (~interleaved => Current(seen))
      BY <1>1, <3>1, Shapes DEF StateOK, Reading
    <3>3. g \in Consents /\ g <= consents /\ g # NoGrant
      BY <3>1, <3>2 DEF CalendarInv, CalendarTypeOK, GrantsKnown
    <3>4. PICK r \in {g, seen.refresh} :
            IF r = NoGrant THEN GoOn(v, NoVisit)
            ELSE GoOn(v, [at |-> "connect", seen |-> seen,
                          new |-> [status |-> "connected", access |-> g, fresh |-> TRUE, refresh |-> r]])
      BY <2>3 DEF Exchange
    <3>5. CASE r = NoGrant
      BY <1>3, <3>4, <3>5
    <3>6. CASE r # NoGrant
      <4> DEFINE new == [status |-> "connected", access |-> g, fresh |-> TRUE, refresh |-> r]
                 state == [at |-> "connect", seen |-> seen, new |-> new]
      <4>1. r \in Consents \cup {NoGrant} /\ r <= consents
        BY <3>2, <3>3, <3>4 DEF LinkRow
      <4>2. new \in LinkRow
        BY <3>3, <4>1 DEF LinkRow
      <4>3. state \in VisitStates
        BY <3>2, <4>2 DEF VisitStates
      <4>4. StateOK(state)
        BY <3>2, <3>3, <3>6, <4>1, <4>3 DEF StateOK, Reading
      <4> QED BY <3>4, <3>6, <4>3, <4>4
    <3> QED BY <3>5, <3>6
  <2>4. CASE ExchangeRefused(v) \/ ConnectClashes(v) \/ CallCalendar(v)
    BY <1>3, <2>4 DEF ExchangeRefused, ConnectClashes, CallCalendar
  <2>5. CASE BeginUse(v)
    <3> DEFINE place == IF link.refresh = NoGrant THEN "expire" ELSE "refresh"
               state == [at |-> place, seen |-> link]
    <3>1. link.status = "connected" /\ (GoOn(v, [at |-> "call"]) \/ GoOn(v, state))
      BY <2>5 DEF BeginUse
    <3>2. state \in VisitStates /\ [at |-> "call"] \in VisitStates
      BY <1>2 DEF VisitStates
    <3>3. link # NoLink
      BY <3>1 DEF NoLink
    <3>4. link.refresh = NoGrant => link.refresh \notin live
      BY DEF CalendarInv, CalendarTypeOK
    <3>5. StateOK(state)
      BY <1>2, <3>1, <3>2, <3>3, <3>4 DEF StateOK, Reading, Current
    <3>6. StateOK([at |-> "call"])
      BY <3>2 DEF StateOK, Reading
    <3> QED BY <3>1, <3>2, <3>5, <3>6
  <2>6. CASE RefreshAccess(v)
    <3> DEFINE seen == visit[v].seen
               state(place) == [visit[v] EXCEPT !.at = place]
    <3>1. visit[v].at = "refresh"
      BY <2>6 DEF RefreshAccess
    <3>2. /\ seen \in LinkRow /\ seen.refresh <= consents /\ (~interleaved => Current(seen))
          /\ seen.status = "connected" /\ seen.refresh # NoGrant
      BY <1>1, <3>1, Shapes DEF StateOK, Reading
    <3>3. visit[v] = [at |-> "refresh", seen |-> seen]
      BY <1>1, <3>1 DEF VisitStates
    <3>4. state("renew") = [at |-> "renew", seen |-> seen] /\ state("expire") = [at |-> "expire", seen |-> seen]
      BY <3>3
    <3>5. state("renew") \in VisitStates /\ state("expire") \in VisitStates
      BY <3>2, <3>4 DEF VisitStates
    <3>6. seen # NoLink
      BY <3>2 DEF NoLink
    <3>7. StateOK(state("renew"))
      BY <3>2, <3>4, <3>5 DEF StateOK, Reading
    <3>8. seen.refresh \notin live => StateOK(state("expire"))
      BY <3>2, <3>4, <3>5, <3>6 DEF StateOK, Reading
    <3>9. \/ GoOn(v, state("renew"))
          \/ seen.refresh \notin live /\ GoOn(v, state("expire"))
          \/ GoOn(v, NoVisit)
      BY <2>6 DEF RefreshAccess
    <3> QED BY <1>3, <3>5, <3>7, <3>8, <3>9
  <2>7. CASE BeginDisconnect(v)
    <3> DEFINE place == IF link.refresh = NoGrant THEN "clear" ELSE "revoke"
               state == [at |-> place, seen |-> link]
    <3>1. link # NoLink /\ GoOn(v, state)
      BY <2>7 DEF BeginDisconnect
    <3>2. state \in VisitStates
      BY <1>2 DEF VisitStates
    <3>3. link.refresh = NoGrant => link.refresh \notin live
      BY DEF CalendarInv, CalendarTypeOK
    <3>4. StateOK(state)
      BY <1>2, <3>1, <3>2, <3>3 DEF StateOK, Reading, Current
    <3> QED BY <3>1, <3>2, <3>4
  <2> QED BY <2>1, <2>2, <2>3, <2>4, <2>5, <2>6, <2>7
<1>7. VisitsOK' /\ Connected'
  BY <1>4, <1>6, StepsAlone
<1>8. CalendarTypeOK' /\ GrantsKnown'
  BY <1>4, <1>5 DEF CalendarInv, CalendarTypeOK, GrantsKnown
<1> QED BY <1>4, <1>7, <1>8 DEF CalendarInv

\* A revocation: either Google does not honour the grant any more, or the request
\* is over; fewer grants are live, and nothing else is different.
LEMMA RevocationHolds ==
  ASSUME CalendarInv, NEW v \in Visits, RevokeGrant(v)
  PROVE  CalendarInv' /\ link' = link
<1>1. visit[v] \in VisitStates /\ StateOK(visit[v]) /\ visit[v].at = "revoke" /\ visit \in [Visits -> VisitStates]
  BY DEF CalendarInv, VisitsOK, RevokeGrant
<1>2. PICK seen \in LinkRow : seen = visit[v].seen
  BY <1>1, Shapes DEF Reading
<1>3. visit[v] = [at |-> "revoke", seen |-> seen]
  BY <1>1, <1>2 DEF VisitStates
<1>4. seen.refresh <= consents /\ seen # NoLink /\ (~interleaved => Current(seen))
  BY <1>1, <1>2 DEF StateOK, Reading
<1>5. [visit[v] EXCEPT !.at = "clear"] = [at |-> "clear", seen |-> seen]
  BY <1>3
<1>6. /\ link' = link /\ UNCHANGED <<oauth, consents, interleaved, forgotten>> /\ live' \subseteq live
      /\ GoOn(v, NoVisit) \/ (GoOn(v, [at |-> "clear", seen |-> seen]) /\ seen.refresh \notin live')
  BY <1>2, <1>5 DEF RevokeGrant, RevokeFails
<1>7. PICK state \in VisitStates :
        /\ GoOn(v, state)
        /\ \/ state = NoVisit
           \/ state = [at |-> "clear", seen |-> seen] /\ seen.refresh \notin live'
  <2>1. [at |-> "clear", seen |-> seen] \in VisitStates /\ NoVisit \in VisitStates
    BY <1>2 DEF VisitStates, NoVisit
  <2> QED BY <1>6, <2>1
<1>8. visit' = [visit EXCEPT ![v] = state]
  BY <1>7 DEF GoOn
<1>9. StateOK(state)'
  BY <1>4, <1>6, <1>7 DEF StateOK, Reading, Current, NoVisit
<1>10. ASSUME NEW u \in Visits PROVE StateOK(visit[u])'
  <2>1. CASE u = v
    <3>1. visit'[u] = state
      BY <1>1, <1>8, <2>1
    <3> QED BY <1>9, <3>1 DEF StateOK
  <2>2. CASE u # v
    <3>1. visit'[u] = visit[u] /\ StateOK(visit[u])
      BY <1>1, <1>8, <2>2 DEF CalendarInv, VisitsOK
    <3> QED BY <1>6, <3>1 DEF StateOK, Current
  <2> QED BY <2>1, <2>2
<1>11. VisitsOK'
  BY <1>1, <1>8, <1>10 DEF VisitsOK
<1>12. CalendarTypeOK' /\ GrantsKnown' /\ Connected'
  BY <1>6 DEF CalendarInv, CalendarTypeOK, GrantsKnown, Connected
<1> QED BY <1>6, <1>11, <1>12 DEF CalendarInv

\* What happens without a request: a state is started or runs out, the manager
\* consents, a token runs out, the application is removed at Google.
LEMMA AmbientSteps ==
  ASSUME CalendarInv,
         \/ \E s \in OAuthStates : StartCalendarOAuth(s) \/ Consent(s) \/ StateExpires(s)
         \/ AccessExpires \/ GrantRemoved
  PROVE  CalendarInv' /\ link'.status = link.status
<1>1. /\ link'.status = link.status /\ link'.access = link.access /\ link'.refresh = link.refresh
      /\ link' \in LinkRow /\ UNCHANGED <<visit, interleaved, forgotten>>
  BY DEF StartCalendarOAuth, Consent, StateExpires, AccessExpires, GrantRemoved, LinkRow, CalendarInv,
         CalendarTypeOK
<1>2. /\ consents' \in 0..MaxConsents /\ consents <= consents'
      /\ live' \subseteq 1..consents' /\ \A g \in 0..consents : g \in live' => g \in live
      /\ oauth' \in [OAuthStates -> [status: {"absent", "started", "used"}, code: Consents \cup {NoGrant}]]
      /\ \A s \in OAuthStates : oauth'[s].code <= consents'
  <2>1. CASE \E s \in OAuthStates : Consent(s)
    <3>1. PICK s \in OAuthStates : Consent(s)
      BY <2>1
    <3>2. CASE consents < MaxConsents /\ consents' = consents + 1 /\ live' = live \cup {consents'}
               /\ oauth' = [oauth EXCEPT ![s].code = consents']
      <4>1. consents' \in 1..MaxConsents
        BY <3>2 DEF CalendarInv, GrantsKnown
      <4>2. /\ oauth' \in [OAuthStates -> [status: {"absent", "started", "used"}, code: Consents \cup {NoGrant}]]
            /\ \A t \in OAuthStates : oauth'[t].code \in {oauth[t].code, consents'}
        BY <3>2, <4>1 DEF CalendarInv, CalendarTypeOK
      <4>3. \A t \in OAuthStates : oauth'[t].code <= consents'
        BY <3>2, <4>2 DEF CalendarInv, CalendarTypeOK, GrantsKnown
      <4> QED BY <3>2, <4>1, <4>2, <4>3 DEF CalendarInv, GrantsKnown
    <3>3. CASE \E g \in live : oauth' = [oauth EXCEPT ![s].code = g] /\ UNCHANGED <<live, consents>>
      BY <3>3 DEF CalendarInv, CalendarTypeOK, GrantsKnown
    <3> QED BY <3>1, <3>2, <3>3 DEF Consent
  <2>2. CASE ~\E s \in OAuthStates : Consent(s)
    BY <2>2 DEF StartCalendarOAuth, StateExpires, AccessExpires, GrantRemoved, CalendarInv, CalendarTypeOK,
                GrantsKnown
  <2> QED BY <2>1, <2>2
<1>3. ASSUME NEW u \in Visits PROVE StateOK(visit[u])'
  <2>1. visit[u] \in VisitStates /\ StateOK(visit[u]) /\ visit'[u] = visit[u]
    BY <1>1 DEF CalendarInv, VisitsOK
  <2>2. /\ visit[u].at \in Reading => visit[u].seen \in LinkRow
        /\ visit[u].at = "connect" => visit[u].new \in LinkRow
    BY <2>1, Shapes
  <2>3. consents \in Nat /\ consents' \in Nat
    BY <1>2 DEF CalendarInv, GrantsKnown
  <2>4. visit[u].at \in Reading => visit[u].seen.refresh \in 0..consents
    BY <2>1, <2>2, <2>3 DEF StateOK, LinkRow
  <2>5. visit[u].at \in Reading => visit[u].seen.refresh <= consents'
    BY <1>2, <2>3, <2>4
  <2>6. visit[u].at = "connect" => visit[u].new.refresh <= consents'
    BY <1>2, <2>1, <2>2, <2>3 DEF StateOK, LinkRow
  <2>7. visit[u].at \in {"expire", "clear"} => visit[u].seen.refresh \notin live'
    BY <1>2, <2>1, <2>4 DEF StateOK, Reading
  <2> QED BY <1>1, <2>1, <2>5, <2>6, <2>7 DEF StateOK, Current
<1>4. VisitsOK'
  BY <1>1, <1>3 DEF VisitsOK, CalendarInv
<1>5. CalendarTypeOK'
  BY <1>1, <1>2 DEF CalendarInv, CalendarTypeOK, LinkRow, GrantsKnown
<1>6. GrantsKnown' /\ Connected'
  BY <1>1, <1>2 DEF CalendarInv, CalendarTypeOK, GrantsKnown, Connected
<1> QED BY <1>1, <1>4, <1>5, <1>6 DEF CalendarInv

-----------------------------------------------------------------------------
\* Each step keeps the invariant, and only a callback connects a row that was
\* disconnected.
LEMMA CalendarStep ==
  ASSUME CalendarInv, [CalendarNext]_calendarVars
  PROVE  /\ CalendarInv'
         /\ link.status = "disconnected" /\ link'.status = "connected" =>
              \E v \in Visits : visit[v].at = "connect" /\ visit'[v] = NoVisit
<1>1. CASE \E v \in Visits : Connect(v)
  <2>1. PICK v \in Visits : Connect(v)
    BY <1>1
  <2>2. visit[v].at = "connect" /\ visit'[v] = NoVisit
    BY <2>1 DEF Connect, Write, GoOn, CalendarInv, VisitsOK
  <2> QED BY <2>1, <2>2, ConnectHolds
<1>2. CASE \E v \in Visits : SaveAccess(v)
  BY <1>2, RenewalHolds
<1>3. CASE \E v \in Visits : Expire(v) \/ ClearCredentials(v)
  <2>1. PICK v \in Visits : Expire(v) \/ ClearCredentials(v)
    BY <1>3
  <2>2. CalendarInv'
    BY <2>1, ClearingHolds DEF Expire, ClearCredentials
  <2>3. link.status = "disconnected" => link'.status = "disconnected"
    <3> DEFINE new == [NoLink EXCEPT !.status = "disconnected"]
    <3>1. visit[v].seen \in LinkRow /\ new \in LinkRow /\ new.status = "disconnected" /\ link \in LinkRow
      BY <2>1, Shapes DEF Expire, ClearCredentials, CalendarInv, VisitsOK, Reading, NoLink, LinkRow, CalendarTypeOK
    <3> HIDE DEF new
    <3>2. FlushLink(visit[v].seen, new).status = IF new.status # visit[v].seen.status THEN new.status ELSE link.status
      BY <3>1, FlushedLink
    <3>3. link' \in {new, FlushLink(visit[v].seen, new)}
      BY <2>1 DEF Expire, ClearCredentials, Write, new
    <3> QED BY <3>1, <3>2, <3>3
  <2> QED BY <2>2, <2>3
<1>4. CASE \E v \in Visits : RevokeGrant(v)
  BY <1>4, RevocationHolds
<1>5. CASE \E v \in Visits :
             \/ \E s \in OAuthStates : BeginCallback(v, s)
             \/ UseState(v) \/ Exchange(v) \/ ExchangeRefused(v) \/ ConnectClashes(v)
             \/ BeginUse(v) \/ RefreshAccess(v) \/ CallCalendar(v) \/ BeginDisconnect(v)
  BY <1>5, QuietSteps
<1>6. CASE \/ \E s \in OAuthStates : StartCalendarOAuth(s) \/ Consent(s) \/ StateExpires(s)
           \/ AccessExpires \/ GrantRemoved
  BY <1>6, AmbientSteps
<1>7. CASE UNCHANGED calendarVars
  <2>1. \A u \in Visits : StateOK(visit[u])'
    BY <1>7 DEF calendarVars, CalendarInv, VisitsOK, StateOK, Current
  <2> QED BY <1>7, <2>1 DEF calendarVars, CalendarInv, CalendarTypeOK, GrantsKnown, VisitsOK, Connected
<1> QED BY <1>1, <1>2, <1>3, <1>4, <1>5, <1>6, <1>7 DEF CalendarNext, VisitStep

\* The calendar starts without a row.
LEMMA CalendarStart == CalendarInit => CalendarInv
<1> SUFFICES ASSUME CalendarInit PROVE CalendarInv
  OBVIOUS
<1>1. NoVisit \in VisitStates /\ StateOK(NoVisit)
  BY DEF NoVisit, VisitStates, StateOK, Reading
<1>2. VisitsOK
  BY <1>1 DEF CalendarInit, VisitsOK
<1>3. MaxConsents \in Nat
  BY CalendarAssumption
<1>4. CalendarTypeOK
  BY DEF CalendarInit, CalendarTypeOK, NoLink
<1>5. GrantsKnown
  <2>1. consents = 0 /\ consents \in 0..MaxConsents /\ interleaved \in BOOLEAN /\ live = {}
    <3>1. 0 \in 0..MaxConsents
      BY <1>3
    <3>2. consents = 0 /\ interleaved = FALSE /\ live = {}
      BY DEF CalendarInit
    <3> QED BY <3>1, <3>2
  <2>2. link.refresh = 0 /\ \A s \in OAuthStates : oauth[s].code = 0
    BY DEF CalendarInit, NoLink
  <2> QED BY <2>1, <2>2 DEF GrantsKnown
<1>6. Connected
  BY DEF CalendarInit, Connected, NoLink
<1> QED BY <1>2, <1>4, <1>5, <1>6 DEF CalendarInv

\* What the handlers of google_calendar.py keep, over all their interleavings.
THEOREM CalendarInvariant == CalendarSpec => []CalendarInv
<1>1. CalendarInv /\ [CalendarNext]_calendarVars => CalendarInv'
  BY CalendarStep
<1> QED BY <1>1, CalendarStart, PTL DEF CalendarSpec

\* While no request writes a row that another one has read, the connection is
\* called connected exactly while it has a refresh token, and no token leaves it
\* that Google still honours (google_calendar.py, disconnect and callback).
THEOREM CalendarIsKept == CalendarSpec => []CalendarHolds
<1>1. CalendarInv => CalendarHolds
  BY DEF CalendarInv, CalendarHolds, Connected
<1> QED BY <1>1, CalendarInvariant, PTL

\* However requests overlap, a late renewal never connects a row that was
\* disconnected meanwhile (_access_token of google_calendar.py).
THEOREM LateRenewalsDoNotConnect == CalendarSpec => OnlyCallbackConnects
<1>1. CalendarInv /\ [CalendarNext]_calendarVars =>
        [link.status = "disconnected" /\ link'.status = "connected" =>
           \E v \in Visits : visit[v].at = "connect" /\ visit'[v] = NoVisit]_calendarVars
  BY CalendarStep
<1> QED BY <1>1, CalendarInvariant, PTL DEF CalendarSpec, OnlyCallbackConnects

-----------------------------------------------------------------------------
(* The media library: the inductive invariant.                             *)

Parts == {"file", "digest", "drawing"}
AssetRow == [original: Nat, current: Nat, site: Sites, kind: Categories, controlled: BOOLEAN]
VersionRow == [document: Nat, parent: Nat, amends: BOOLEAN, as: SUBSET Parts]
Settings == UNION {[C -> Sites \cup Categories \cup {TRUE}] : C \in SUBSET {"site", "kind", "controlled"}}

\* What a request holds at each place of its handler.
Revisions ==
  [at: {"storeVersion", "number", "version"}, outdated: BOOLEAN, document: Nat, number: Nat, parent: Nat,
   amends: BOOLEAN, set: Settings]
Registers == [at: {"register"}, outdated: BOOLEAN, document: Nat]
Linking == [at: {"link"}, outdated: BOOLEAN, site: Sites]
Patches == [at: {"patch"}, outdated: BOOLEAN, document: Nat, column: Parts]
EditStates == [at: {"idle", "store"}, outdated: BOOLEAN] \cup Revisions \cup Registers \cup Linking \cup Patches

LibraryTablesOK ==
  /\ documents \in Seq(SUBSET Parts) /\ versions \in Seq(VersionRow)
  /\ asset \in AssetRow /\ photoLinks \subseteq Sites /\ outOfDate \in BOOLEAN
  /\ editing \in [Editors -> EditStates]
  /\ \A v \in DOMAIN versions : versions[v].document \in DOMAIN documents
  /\ asset = NoAsset => versions = <<>> /\ photoLinks = {}
  /\ asset # NoAsset => versions # <<>> /\ asset.original \in DOMAIN documents

\* A new version of the photo is made from one that is there, and what it sets is
\* right for the photo as it was read.
RevisionOK(h) ==
  h \in Revisions =>
    /\ asset # NoAsset
    /\ h.parent \in 1..Len(versions) /\ h.number <= Len(versions) + 1
    /\ h.at # "storeVersion" => h.document \in DOMAIN documents
    /\ h.amends => asset.controlled
    /\ "site" \in DOMAIN h.set => h.set.site \in Sites
    /\ "kind" \in DOMAIN h.set => h.set.kind \in Categories
    /\ "controlled" \in DOMAIN h.set => h.set.controlled = TRUE
    /\ ~h.outdated =>
         /\ h.parent = Len(versions)
         /\ "site" \in DOMAIN h.set => photoLinks \subseteq {h.set.site}
         /\ "kind" \in DOMAIN h.set /\ h.set.kind \in Controlled =>
              asset.controlled \/ "controlled" \in DOMAIN h.set

\* Until it is out of date a link is to the photo's project, and a change of a file
\* or of its integrity metadata is not one of evidence.
EditOK(h) ==
  /\ RevisionOK(h)
  /\ h.at \in {"register", "patch"} => h.document \in DOMAIN documents
  /\ h.at = "link" => asset # NoAsset /\ (~h.outdated => h.site = asset.site)
  /\ h.at = "patch" /\ h.column \in {"file", "digest"} /\ ~h.outdated => ~Evidence(h.document)

EditsOK == \A e \in Editors : EditOK(editing[e])

LibraryInv == LibraryTablesOK /\ LibraryHolds /\ EditsOK

-----------------------------------------------------------------------------
\* No state of a request is taken for another.
LEMMA EditShapes ==
  /\ NotEditing \in EditStates /\ NotEditing.at = "idle" /\ NotEditing.outdated = FALSE
  /\ \A h \in Revisions : h.at \in {"storeVersion", "number", "version"}
  /\ \A h \in EditStates :
       /\ h.outdated \in BOOLEAN
       /\ h.at \in {"storeVersion", "number", "version"} => h \in Revisions
       /\ h.at = "register" => h \in Registers
       /\ h.at = "link" => h \in Linking
       /\ h.at = "patch" => h \in Patches
       /\ h.at = "store" => h \in [at: {"idle", "store"}, outdated: BOOLEAN]
       /\ [h EXCEPT !.outdated = TRUE] \in EditStates
<1>1. \A h \in Revisions : h.at \in {"storeVersion", "number", "version"} /\ h.outdated \in BOOLEAN
        /\ [h EXCEPT !.outdated = TRUE] \in Revisions
  BY DEF Revisions
<1>2. \A h \in Registers : h.at = "register" /\ h.outdated \in BOOLEAN /\ [h EXCEPT !.outdated = TRUE] \in Registers
  BY DEF Registers
<1>3. \A h \in Linking : h.at = "link" /\ h.outdated \in BOOLEAN /\ [h EXCEPT !.outdated = TRUE] \in Linking BY DEF Linking
<1>4. \A h \in Patches : h.at = "patch" /\ h.outdated \in BOOLEAN /\ [h EXCEPT !.outdated = TRUE] \in Patches BY DEF Patches
<1>5. \A h \in [at: {"idle", "store"}, outdated: BOOLEAN] : h.at \in {"idle", "store"} /\ h.outdated \in BOOLEAN
        /\ [h EXCEPT !.outdated = TRUE] \in [at: {"idle", "store"}, outdated: BOOLEAN]
  OBVIOUS
<1>6. NotEditing \in [at: {"idle", "store"}, outdated: BOOLEAN] /\ NotEditing.at = "idle" /\ NotEditing.outdated = FALSE
  BY DEF NotEditing
<1> QED BY <1>1, <1>2, <1>3, <1>4, <1>5, <1>6 DEF EditStates

\* An edit that nothing was committed beside stays as it is.
LEMMA EditKept ==
  ASSUME NEW h \in EditStates, EditOK(h), LibraryTablesOK,
         asset' = asset, photoLinks' = photoLinks, versions' = versions,
         DOMAIN documents \subseteq DOMAIN documents'
  PROVE  EditOK(h)'
<1>1. Evidence(h.document)' = Evidence(h.document) BY DEF Evidence
<1>2. RevisionOK(h)' BY DEF EditOK, RevisionOK
<1> QED BY <1>1, <1>2 DEF EditOK

\* An edit that something is committed beside is out of date, and what it is about is
\* there all the same.
LEMMA EditOutdated ==
  ASSUME NEW h \in EditStates, EditOK(h),
         asset # NoAsset => asset' # NoAsset /\ (asset.controlled => asset'.controlled),
         Len(versions) \in Nat, Len(versions') \in Nat, Len(versions) <= Len(versions'),
         DOMAIN documents \subseteq DOMAIN documents'
  PROVE  EditOK([h EXCEPT !.outdated = TRUE])'
<1> DEFINE g == [h EXCEPT !.outdated = TRUE]
<1>1. g \in EditStates /\ (g \in Revisions => g.at \in {"storeVersion", "number", "version"}) BY EditShapes
<1>2. g.at = h.at BY EditShapes DEF EditStates, Revisions, Registers, Linking, Patches
<1>3. g.outdated = TRUE BY DEF EditStates, Revisions, Registers, Linking, Patches
<1>4. CASE h \in Revisions
  <2>1. /\ g.document = h.document /\ g.number = h.number /\ g.parent = h.parent
        /\ g.amends = h.amends /\ g.set = h.set /\ h.parent \in Nat /\ h.number \in Nat
    BY <1>4 DEF Revisions
  <2>2. RevisionOK(h) BY DEF EditOK
  <2>3. h.at \in {"storeVersion", "number", "version"} BY <1>4, EditShapes
  <2>4. RevisionOK(g)'
    BY <1>2, <1>3, <1>4, <2>1, <2>2, <2>3 DEF RevisionOK
  <2> QED BY <1>2, <2>3, <2>4 DEF EditOK
<1>5. CASE h \notin Revisions
  <2>1. h.at \notin {"storeVersion", "number", "version"} BY <1>5, EditShapes
  <2>2. g \notin Revisions BY <1>2, <2>1, EditShapes
  <2>3. RevisionOK(g)' BY <2>2 DEF RevisionOK
  <2>4. CASE h.at = "register"
    <3>1. g.document = h.document BY <2>4, EditShapes DEF Registers
    <3> QED BY <1>2, <2>3, <2>4, <3>1 DEF EditOK
  <2>5. CASE h.at = "patch"
    <3>1. g.document = h.document BY <2>5, EditShapes DEF Patches
    <3> QED BY <1>2, <1>3, <2>3, <2>5, <3>1 DEF EditOK
  <2>6. CASE h.at \notin {"register", "patch"}
    BY <1>2, <1>3, <2>3, <2>6 DEF EditOK
  <2> QED BY <2>4, <2>5, <2>6
<1> QED BY <1>4, <1>5

-----------------------------------------------------------------------------
\* A request goes on without touching the photo; documents may be stored.
LEMMA QuietEdit ==
  ASSUME LibraryInv, NEW e \in Editors, NEW s \in EditStates, EditOK(s)', Advance(e, s),
         documents' \in Seq(SUBSET Parts), Len(documents) <= Len(documents'),
         \A d \in DOMAIN documents : documents'[d] = documents[d],
         UNCHANGED <<asset, versions, photoLinks, outOfDate>>
  PROVE  LibraryInv'
<1> USE DEF LibraryInv
<1>1. documents \in Seq(SUBSET Parts) /\ DOMAIN documents = 1..Len(documents) /\ Len(documents) \in Nat
      /\ DOMAIN documents' = 1..Len(documents') /\ Len(documents') \in Nat
  BY DEF LibraryTablesOK
<1>2. DOMAIN documents \subseteq DOMAIN documents' BY <1>1
<1>3. editing' \in [Editors -> EditStates] BY DEF Advance, LibraryTablesOK
<1>4. LibraryTablesOK' BY <1>2, <1>3 DEF LibraryTablesOK
<1>5. \A f \in Editors : EditOK(editing[f])'
  <2> TAKE f \in Editors
  <2>1. CASE f = e BY <2>1 DEF Advance, LibraryTablesOK
  <2>2. CASE f # e
    <3>1. editing'[f] = editing[f] /\ editing[f] \in EditStates BY <2>2 DEF Advance, LibraryTablesOK
    <3>2. PICK h \in EditStates : h = editing[f] BY <3>1
    <3>3. EditOK(h) BY <3>2 DEF EditsOK
    <3>4. EditOK(h)' BY <1>2, <3>3, EditKept
    <3> QED BY <3>1, <3>2, <3>4
  <2> QED BY <2>1, <2>2
<1>6. \A v \in DOMAIN versions : documents'[versions[v].document] = documents[versions[v].document]
  BY DEF LibraryTablesOK
<1>7. LibraryTypeOK'
  <2>1. \A d \in DOMAIN documents' : documents'[d] \subseteq Parts BY <1>1
  <2> QED BY <1>2, <2>1 DEF LibraryTypeOK, LibraryHolds, Parts
<1>8. LibraryHolds' BY <1>6, <1>7 DEF LibraryHolds, Keeps
<1> QED BY <1>4, <1>5, <1>8 DEF EditsOK

\* What was in a table of documents, and one more.
LEMMA Stores ==
  ASSUME LibraryInv, NEW e \in Editors, Stored(e)
  PROVE  /\ documents' \in Seq(SUBSET Parts) /\ Len(documents') = Len(documents) + 1 /\ Len(documents) \in Nat
         /\ \A d \in DOMAIN documents : documents'[d] = documents[d]
         /\ Len(documents') \in DOMAIN documents' /\ Len(documents') \in Nat
<1>1. documents \in Seq(SUBSET Parts) /\ {} \in SUBSET Parts BY DEF LibraryInv, LibraryTablesOK
<1> QED BY <1>1 DEF Stored

\* The steps that leave the photo alone and are no change of it.
LEMMA QuietEdits ==
  ASSUME LibraryInv, NEW e \in Editors,
         \/ BeginUpload(e) \/ StoreDocument(e) \/ StoreVersion(e) \/ StoreFails(e) \/ RegisterOther(e)
         \/ \E d \in DOMAIN documents : BeginRegister(e, d)
         \/ VersionClashes(e) \/ BeginLink(e) \/ EditDies(e)
  PROVE  LibraryInv'
<1> USE DEF LibraryInv
<1>1. /\ documents \in Seq(SUBSET Parts) /\ DOMAIN documents = 1..Len(documents) /\ Len(documents) \in Nat
      /\ asset \in AssetRow /\ editing[e] \in EditStates /\ EditOK(editing[e])
  BY DEF LibraryTablesOK, EditsOK
<1>2. NotEditing \in EditStates /\ EditOK(NotEditing)'
  <2>1. NotEditing.at = "idle" /\ NotEditing \in EditStates BY EditShapes
  <2>2. NotEditing \notin Revisions BY <2>1, EditShapes
  <2> QED BY <2>1, <2>2 DEF EditOK, RevisionOK
<1>3. CASE BeginUpload(e)
  <2> DEFINE s == [NotEditing EXCEPT !.at = "store"]
  <2>1. s \in [at: {"idle", "store"}, outdated: BOOLEAN] /\ s.at = "store" BY DEF NotEditing
  <2>2. s \in EditStates BY <2>1 DEF EditStates
  <2>3. s \notin Revisions BY <2>1, EditShapes
  <2>4. EditOK(s)' BY <2>1, <2>3 DEF EditOK, RevisionOK
  <2> HIDE DEF s
  <2> QED BY <1>1, <1>3, <2>2, <2>4, QuietEdit DEF BeginUpload, s
<1>4. CASE StoreDocument(e)
  <2>1. /\ documents' \in Seq(SUBSET Parts) /\ Len(documents') = Len(documents) + 1 /\ Len(documents) \in Nat
        /\ \A d \in DOMAIN documents : documents'[d] = documents[d]
        /\ Len(documents') \in DOMAIN documents' /\ Len(documents') \in Nat
    BY <1>4, Stores DEF StoreDocument
  <2>a. PICK s : s = [at |-> "register", outdated |-> FALSE, document |-> Len(documents')] OBVIOUS
  <2>2. s \in Registers BY <2>1, <2>a DEF Registers
  <2>3. s \in EditStates /\ s.at = "register" /\ s.document = Len(documents') BY <2>2, <2>a DEF EditStates
  <2>4. s \notin Revisions BY <2>3, EditShapes
  <2>5. EditOK(s)' BY <2>1, <2>3, <2>4 DEF EditOK, RevisionOK
  <2>6. Advance(e, NotEditing) \/ Advance(e, s) BY <1>4, <2>a DEF StoreDocument
  <2>7. UNCHANGED <<asset, versions, photoLinks, outOfDate>> BY <1>4 DEF StoreDocument
  <2> QED BY <1>2, <2>1, <2>3, <2>5, <2>6, <2>7, QuietEdit
<1>5. CASE StoreVersion(e)
  <2>1. /\ documents' \in Seq(SUBSET Parts) /\ Len(documents') = Len(documents) + 1 /\ Len(documents) \in Nat
        /\ \A d \in DOMAIN documents : documents'[d] = documents[d]
        /\ Len(documents') \in DOMAIN documents' /\ Len(documents') \in Nat
    BY <1>5, Stores DEF StoreVersion
  <2> DEFINE h == editing[e]
  <2>a. PICK s : s = [h EXCEPT !.at = "version", !.document = Len(documents')] OBVIOUS
  <2>2. h \in Revisions /\ RevisionOK(h) BY <1>1, <1>5, EditShapes DEF StoreVersion, EditOK
  <2>3. /\ s \in Revisions /\ s.at = "version" /\ s.document = Len(documents') /\ s.outdated = h.outdated
        /\ s.number = h.number /\ s.parent = h.parent /\ s.amends = h.amends /\ s.set = h.set
    BY <2>1, <2>2, <2>a DEF Revisions
  <2>4. s \in EditStates BY <2>3 DEF EditStates
  <2>5. UNCHANGED <<asset, versions, photoLinks, outOfDate>> /\ Advance(e, s) BY <1>5, <2>a DEF StoreVersion
  <2>6. RevisionOK(s)' BY <2>1, <2>2, <2>3, <2>5 DEF RevisionOK
  <2>7. EditOK(s)' BY <2>3, <2>6 DEF EditOK
  <2> QED BY <2>1, <2>4, <2>5, <2>7, QuietEdit
<1>6. CASE \E d \in DOMAIN documents : BeginRegister(e, d)
  <2> PICK d \in DOMAIN documents : BeginRegister(e, d) BY <1>6
  <2> DEFINE s == [at |-> "register", outdated |-> FALSE, document |-> d]
  <2>1. s \in Registers BY <1>1 DEF Registers
  <2>2. s \in EditStates /\ s.at = "register" /\ s.document = d BY <2>1 DEF EditStates
  <2>3. s \notin Revisions BY <2>2, EditShapes
  <2>4. Advance(e, s) /\ UNCHANGED <<documents, asset, versions, photoLinks, outOfDate>> BY DEF BeginRegister
  <2> HIDE DEF s
  <2>5. EditOK(s)' BY <2>2, <2>3, <2>4 DEF EditOK, RevisionOK
  <2> QED BY <1>1, <2>2, <2>4, <2>5, QuietEdit
<1>7. CASE BeginLink(e)
  <2>a. PICK s : s = [at |-> "link", outdated |-> FALSE, site |-> asset.site] OBVIOUS
  <2>1. s \in Linking BY <1>1, <2>a DEF Linking, AssetRow
  <2>2. s \in EditStates /\ s.at = "link" /\ s.site = asset.site BY <2>1, <2>a DEF EditStates
  <2>3. s \notin Revisions BY <2>2, EditShapes
  <2>4. Advance(e, s) /\ UNCHANGED <<documents, asset, versions, photoLinks, outOfDate>> /\ asset # NoAsset
    BY <1>7, <2>a DEF BeginLink
  <2>5. EditOK(s)' BY <2>2, <2>3, <2>4 DEF EditOK, RevisionOK
  <2> QED BY <1>1, <2>2, <2>4, <2>5, QuietEdit
<1>8. CASE StoreFails(e) \/ RegisterOther(e) \/ VersionClashes(e) \/ EditDies(e)
  BY <1>1, <1>2, <1>8, QuietEdit DEF StoreFails, RegisterOther, VersionClashes, EditDies
<1> QED BY <1>3, <1>4, <1>5, <1>6, <1>7, <1>8

-----------------------------------------------------------------------------
\* What a request for a version is made of, when it has read the photo.
LEMMA RevisionMade ==
  ASSUME LibraryInv, asset # NoAsset, NEW at \in {"storeVersion", "number"}, NEW d \in Nat, NEW n \in 0..(Len(versions) + 1),
         NEW photo \in AssetRow, photo.original = asset.original, photo.current = asset.current,
         at = "number" => d \in DOMAIN documents,
         photo.site # asset.site => SameSites(photo.site), asset.controlled => photo.controlled,
         photo.kind # asset.kind /\ photo.kind \in Controlled => photo.controlled
  PROVE  /\ Revision(at, d, n, photo) \in Revisions /\ Revision(at, d, n, photo).at = at
         /\ RevisionOK(Revision(at, d, n, photo))
<1> USE DEF LibraryInv
<1>1. /\ asset \in AssetRow /\ versions \in Seq(VersionRow) /\ Len(versions) \in Nat /\ asset.current = Len(versions)
      /\ versions # <<>>
  BY DEF LibraryTablesOK, LibraryHolds
<1>2. Len(versions) >= 1 BY <1>1
<1> DEFINE C == {c \in DOMAIN asset : photo[c] # asset[c]}
           set == Changed(photo)
           site == photo.site
           kind == photo.kind
           held == photo.controlled
<1>3. DOMAIN asset = {"original", "current", "site", "kind", "controlled"} BY <1>1 DEF AssetRow
<1>4. site \in Sites /\ kind \in Categories /\ held \in BOOLEAN BY DEF AssetRow
<1>5. C \subseteq {"site", "kind", "controlled"} BY <1>3, <1>4
<1>6. \A c \in C : photo[c] \in Sites \cup Categories \cup {TRUE}
  <2>1. "controlled" \in C => held = TRUE BY <1>1, <1>4 DEF AssetRow
  <2> QED BY <1>4, <1>5, <2>1
<1>7. set = [c \in C |-> photo[c]] BY DEF Changed
<1>8. /\ DOMAIN set = C /\ ("site" \in C => set.site = site) /\ ("kind" \in C => set.kind = kind)
      /\ ("controlled" \in C => set.controlled = held)
  BY <1>4, <1>7
<1>9. set \in Settings
  <2>1. set \in [C -> Sites \cup Categories \cup {TRUE}] BY <1>6, <1>7
  <2>2. C \in SUBSET {"site", "kind", "controlled"} BY <1>5
  <2> HIDE DEF C, set
  <2> QED BY <2>1, <2>2 DEF Settings
<1>10. /\ "controlled" \in C => held = TRUE /\ asset.controlled = FALSE
       /\ held /\ ~asset.controlled => "controlled" \in C
       /\ "kind" \in C <=> kind # asset.kind
       /\ "site" \in C <=> site # asset.site
  BY <1>1, <1>3, <1>4 DEF AssetRow
<1> HIDE DEF C, set
<1> DEFINE h == Revision(at, d, n, photo)
<1>11. /\ h \in Revisions /\ h.at = at /\ h.document = d /\ h.number = n /\ h.parent = asset.current
       /\ h.amends = asset.controlled /\ h.set = set /\ h.outdated = FALSE
  BY <1>1, <1>9 DEF Revision, Revisions, set, AssetRow
<1> HIDE DEF h
<1>12. RevisionOK(h)
  <2>1. "site" \in C => photoLinks \subseteq {site} BY <1>10 DEF SameSites
  <2>2. "kind" \in C /\ kind \in Controlled => asset.controlled \/ "controlled" \in C BY <1>10
  <2>3. /\ "site" \in DOMAIN h.set => h.set.site \in Sites /\ photoLinks \subseteq {h.set.site}
        /\ "kind" \in DOMAIN h.set => h.set.kind \in Categories
        /\ "kind" \in DOMAIN h.set /\ h.set.kind \in Controlled => asset.controlled \/ "controlled" \in DOMAIN h.set
        /\ "controlled" \in DOMAIN h.set => h.set.controlled = TRUE
    BY <1>4, <1>8, <1>10, <1>11, <2>1, <2>2
  <2>4. h.parent \in 1..Len(versions) /\ h.parent = Len(versions) /\ h.number <= Len(versions) + 1
    BY <1>1, <1>2, <1>11
  <2>5. h.at # "storeVersion" => h.document \in DOMAIN documents BY <1>11
  <2> QED BY <1>11, <2>3, <2>4, <2>5 DEF RevisionOK
<1> QED BY <1>11, <1>12 DEF h

\* A version, a restore or an edit of the metadata begins, or reads its number.
LEMMA RevisionSteps ==
  ASSUME LibraryInv, NEW e \in Editors,
         \/ BeginVersion(e) \/ \E v \in DOMAIN versions : BeginRestore(e, v)
         \/ \E site \in Sites, kind \in Categories : BeginMetadata(e, site, kind)
         \/ ReadNumber(e)
  PROVE  LibraryInv'
<1>1. /\ documents \in Seq(SUBSET Parts) /\ DOMAIN documents = 1..Len(documents) /\ Len(documents) \in Nat
      /\ asset \in AssetRow /\ editing[e] \in EditStates /\ EditOK(editing[e])
      /\ versions \in Seq(VersionRow) /\ Len(versions) \in Nat /\ asset.current = Len(versions)
      /\ \A v \in DOMAIN versions : versions[v].document \in DOMAIN documents
      /\ asset.site \in Sites /\ asset.kind \in Categories /\ asset.controlled \in BOOLEAN
  BY DEF LibraryInv, LibraryTablesOK, LibraryHolds, EditsOK, AssetRow
<1>2. UNCHANGED <<documents, asset, versions, photoLinks, outOfDate>>
  BY DEF BeginVersion, BeginRestore, BeginMetadata, ReadNumber
<1>3. ASSUME NEW s \in Revisions, RevisionOK(s), Advance(e, s) PROVE LibraryInv'
  <2>1. s \in EditStates BY <1>3 DEF EditStates
  <2>2. RevisionOK(s)' BY <1>2, <1>3 DEF RevisionOK
  <2>3. s.at \in {"storeVersion", "number", "version"} BY EditShapes
  <2>4. EditOK(s)' BY <2>2, <2>3 DEF EditOK
  <2> QED BY <1>1, <1>2, <1>3, <2>1, <2>4, QuietEdit
<1>4. ASSUME BeginVersion(e) PROVE LibraryInv'
  <2>2. PICK photo \in AssetRow : photo = asset BY <1>1
  <2>3. PICK n \in 0..(Len(versions) + 1) : n = Len(versions) + 1 BY <1>1
  <2>4. PICK s : s = Revision("storeVersion", 0, n, photo) OBVIOUS
  <2>5. asset # NoAsset /\ Advance(e, s) BY <1>4, <2>2, <2>3, <2>4 DEF BeginVersion, MayRevise
  <2>6. s \in Revisions /\ RevisionOK(s)
    BY <1>1, <2>2, <2>4, <2>5, RevisionMade
  <2> QED BY <1>3, <2>5, <2>6
<1>5. ASSUME NEW v \in DOMAIN versions, BeginRestore(e, v) PROVE LibraryInv'
  <2>2. PICK photo \in AssetRow : photo = asset BY <1>1
  <2>3. PICK d : d = versions[v].document OBVIOUS
  <2>4. PICK s : s = Revision("number", d, 0, photo) OBVIOUS
  <2>5. asset # NoAsset /\ Advance(e, s) BY <1>5, <2>2, <2>3, <2>4 DEF BeginRestore, MayRevise
  <2>6. d \in DOMAIN documents /\ d \in Nat BY <1>1, <2>3
  <2>7. s \in Revisions /\ RevisionOK(s)
    BY <1>1, <2>2, <2>4, <2>5, <2>6, RevisionMade
  <2> QED BY <1>3, <2>5, <2>7
<1>6. ASSUME NEW site \in Sites, NEW kind \in Categories, BeginMetadata(e, site, kind) PROVE LibraryInv'
  <2>1. PICK held : held = (asset.controlled \/ kind \in Controlled) OBVIOUS
  <2>2. PICK photo : photo = [asset EXCEPT !.site = site, !.kind = kind, !.controlled = held] OBVIOUS
  <2>3. PICK d : d = versions[asset.current].document OBVIOUS
  <2>4. PICK s : s = Revision("number", d, 0, photo) OBVIOUS
  <2>5. asset # NoAsset /\ (site # asset.site => SameSites(site)) BY <1>6 DEF BeginMetadata, MayRevise
  <2>6. photo = [asset EXCEPT !.site = site, !.kind = kind, !.controlled = @ \/ kind \in Controlled] BY <1>1, <2>1, <2>2 DEF AssetRow
  <2>7. Advance(e, s) BY <1>6, <2>3, <2>4, <2>6 DEF BeginMetadata
  <2>8. versions # <<>> BY <2>5 DEF LibraryInv, LibraryTablesOK
  <2>9. asset.current \in DOMAIN versions BY <1>1, <2>8
  <2>10. d \in DOMAIN documents /\ d \in Nat BY <1>1, <2>3, <2>9
  <2>11. held \in BOOLEAN /\ (asset.controlled => held) /\ (kind \in Controlled => held) BY <1>1, <2>1
  <2>13. /\ photo \in AssetRow /\ photo.original = asset.original /\ photo.current = asset.current
         /\ photo.site = site /\ photo.kind = kind /\ photo.controlled = held
    BY <1>1, <2>2, <2>11 DEF AssetRow
  <2>12. s \in Revisions /\ RevisionOK(s)
    BY <1>1, <2>4, <2>5, <2>10, <2>11, <2>13, RevisionMade
  <2> QED BY <1>3, <2>7, <2>12
<1>7. ASSUME ReadNumber(e) PROVE LibraryInv'
  <2> DEFINE h == editing[e]
  <2>a. PICK n \in Nat : n = Len(versions) + 1 BY <1>1
  <2>1. PICK s : s = [h EXCEPT !.at = "version", !.number = n] OBVIOUS
  <2>2. h \in Revisions /\ RevisionOK(h) /\ h.at = "number" BY <1>1, <1>7, EditShapes DEF ReadNumber, EditOK
  <2>3. /\ s \in Revisions /\ s.at = "version" /\ s.number = n /\ s.outdated = h.outdated
        /\ s.document = h.document /\ s.parent = h.parent /\ s.amends = h.amends /\ s.set = h.set
    BY <2>1, <2>2 DEF Revisions
  <2>4. Advance(e, s) BY <1>7, <2>1, <2>a DEF ReadNumber
  <2> HIDE DEF h
  <2>5. RevisionOK(s) BY <1>1, <2>2, <2>3, <2>a DEF RevisionOK
  <2> QED BY <1>3, <2>3, <2>4, <2>5
<1> QED BY <1>4, <1>5, <1>6, <1>7

-----------------------------------------------------------------------------
\* What becomes of the others when e has committed.
LEMMA OthersOutdated ==
  ASSUME LibraryInv, NEW e \in Editors, Committed(e),
         asset # NoAsset => asset' # NoAsset /\ (asset.controlled => asset'.controlled),
         Len(versions') \in Nat, Len(versions) <= Len(versions'), UNCHANGED documents
  PROVE  editing' \in [Editors -> EditStates] /\ EditsOK' /\ outOfDate' \in BOOLEAN
         /\ (~outOfDate' => ~outOfDate /\ ~editing[e].outdated)
<1> USE DEF LibraryInv
<1>1. editing \in [Editors -> EditStates] /\ outOfDate \in BOOLEAN /\ versions \in Seq(VersionRow) /\ Len(versions) \in Nat
  BY DEF LibraryTablesOK
<1>2. editing[e].outdated \in BOOLEAN BY <1>1, EditShapes
<1>3. outOfDate' = (outOfDate \/ editing[e].outdated) BY DEF Committed
<1>4. ASSUME NEW f \in Editors PROVE editing'[f] \in EditStates /\ EditOK(editing[f])'
  <2>1. CASE editing'[f] = NotEditing
    <3>1. NotEditing.at = "idle" /\ NotEditing \in EditStates BY EditShapes
    <3>2. NotEditing \notin Revisions BY <3>1, EditShapes
    <3>3. PICK g : g = NotEditing OBVIOUS
    <3>4. EditOK(g)' BY <3>1, <3>2, <3>3 DEF EditOK, RevisionOK
    <3> QED BY <2>1, <3>1, <3>3, <3>4
  <2>2. CASE editing'[f] # NotEditing
    <3>1. editing'[f] = [editing[f] EXCEPT !.outdated = TRUE] BY <2>2 DEF Committed
    <3>2. PICK h \in EditStates : h = editing[f] BY <1>1
    <3>3. EditOK(h) BY <3>2 DEF EditsOK
    <3>4. PICK g : g = [h EXCEPT !.outdated = TRUE] OBVIOUS
    <3>5. EditOK(g)' BY <1>1, <3>3, <3>4, EditOutdated
    <3>6. g \in EditStates BY <3>4, EditShapes
    <3> QED BY <3>1, <3>2, <3>4, <3>5, <3>6
  <2> QED BY <2>1, <2>2
<1>5. editing' = [f \in Editors |-> editing'[f]] BY DEF Committed
<1>6. editing' \in [Editors -> EditStates] BY <1>4, <1>5
<1>7. EditsOK' BY <1>4 DEF EditsOK
<1> QED BY <1>1, <1>2, <1>3, <1>6, <1>7

-----------------------------------------------------------------------------
\* The photo and its first version.
LEMMA RegisterStep ==
  ASSUME LibraryInv, NEW e \in Editors, NEW site \in Sites, NEW kind \in Categories, RegisterPhoto(e, site, kind)
  PROVE  LibraryInv'
<1> USE DEF LibraryInv
<1> DEFINE d == editing[e].document
           first == [document |-> d, parent |-> 0, amends |-> FALSE, as |-> documents[d]]
<1>1. /\ documents \in Seq(SUBSET Parts) /\ DOMAIN documents = 1..Len(documents) /\ Len(documents) \in Nat
      /\ versions = <<>> /\ Len(versions) = 0 /\ editing[e] \in EditStates /\ EditOK(editing[e])
      /\ asset = NoAsset /\ photoLinks \subseteq Sites
  BY DEF LibraryTablesOK, EditsOK, RegisterPhoto
<1>2. d \in DOMAIN documents BY <1>1 DEF EditOK, RegisterPhoto
<1>3. d \in Nat /\ d # 0 /\ documents[d] \in SUBSET Parts BY <1>1, <1>2
<1>4. /\ asset' \in AssetRow /\ asset'.original = d /\ asset'.current = 1 /\ asset'.site = site /\ asset'.kind = kind
      /\ asset'.controlled = (kind \in Controlled)
  BY <1>3 DEF RegisterPhoto, AssetRow
<1>5. asset' # NoAsset BY <1>3, <1>4 DEF NoAsset
<1>6. first \in VersionRow BY <1>3 DEF VersionRow
<1>7. versions' = <<first>> BY DEF RegisterPhoto
<1>8. /\ versions' \in Seq(VersionRow) /\ Len(versions') = 1 /\ DOMAIN versions' = {1} /\ versions'[1] = first
  BY <1>6, <1>7
<1>9. /\ versions'[1].document = d /\ versions'[1].parent = 0 /\ versions'[1].amends = FALSE /\ versions'[1].as = documents[d]
  BY <1>8
<1>10. UNCHANGED <<documents, photoLinks>> /\ Committed(e) BY DEF RegisterPhoto
<1> HIDE DEF first
<1>11. editing' \in [Editors -> EditStates] /\ EditsOK' /\ outOfDate' \in BOOLEAN /\ (~outOfDate' => ~outOfDate)
  BY <1>1, <1>5, <1>8, <1>10, OthersOutdated
<1>12. LibraryTablesOK'
  <2>1. \A v \in DOMAIN versions' : versions'[v].document \in DOMAIN documents' BY <1>2, <1>8, <1>9, <1>10
  <2>2. versions' # <<>> BY <1>7
  <2>3. documents' \in Seq(SUBSET Parts) /\ photoLinks' \subseteq Sites /\ asset'.original \in DOMAIN documents'
    BY <1>1, <1>2, <1>4, <1>10
  <2> QED BY <1>4, <1>5, <1>8, <1>11, <2>1, <2>2, <2>3 DEF LibraryTablesOK
<1>13. LibraryTypeOK' BY <1>1, <1>2, <1>4, <1>8, <1>9, <1>10 DEF LibraryTypeOK, AssetRow, LibraryHolds
<1>14. ~outOfDate' => photoLinks' \subseteq {asset'.site}
  <2>1. photoLinks = {} BY <1>1 DEF LibraryTablesOK
  <2> QED BY <2>1, <1>10
<1>15. LibraryHolds'
  <2>1. \A v \in DOMAIN versions' : versions'[v].parent < v /\ versions'[v].parent = v - 1 /\ versions'[v].amends = FALSE
    BY <1>8, <1>9
  <2>2. \A v \in DOMAIN versions' : Keeps(v, "file")' /\ Keeps(v, "digest")' BY <1>8, <1>9, <1>10 DEF Keeps
  <2>3. asset'.current = Len(versions') /\ versions'[1].document = asset'.original BY <1>4, <1>8, <1>9
  <2>4. asset'.kind \in Controlled => asset'.controlled BY <1>4
  <2> QED BY <1>13, <1>14, <2>1, <2>2, <2>3, <2>4 DEF LibraryHolds
<1> QED BY <1>11, <1>12, <1>15

-----------------------------------------------------------------------------
\* What a flush makes of the photo.
LEMMA FlushedAsset ==
  ASSUME NEW photo \in AssetRow, NEW set \in Settings,
         "site" \in DOMAIN set => set.site \in Sites, "kind" \in DOMAIN set => set.kind \in Categories,
         "controlled" \in DOMAIN set => set.controlled = TRUE
  PROVE  /\ WithColumns(photo, set) \in AssetRow
         /\ WithColumns(photo, set).original = photo.original /\ WithColumns(photo, set).current = photo.current
         /\ WithColumns(photo, set).site = (IF "site" \in DOMAIN set THEN set.site ELSE photo.site)
         /\ WithColumns(photo, set).kind = (IF "kind" \in DOMAIN set THEN set.kind ELSE photo.kind)
         /\ WithColumns(photo, set).controlled <=> photo.controlled \/ "controlled" \in DOMAIN set
<1> DEFINE new == WithColumns(photo, set)
           Columns == {"original", "current", "site", "kind", "controlled"}
<1>1. DOMAIN set \subseteq {"site", "kind", "controlled"}
  <2>1. PICK C \in SUBSET {"site", "kind", "controlled"} : set \in [C -> Sites \cup Categories \cup {TRUE}] BY DEF Settings
  <2> QED BY <2>1
<1>2. DOMAIN photo = Columns BY DEF AssetRow
<1>3. new = [c \in Columns |-> IF c \in DOMAIN set THEN set[c] ELSE photo[c]] BY <1>2 DEF WithColumns
<1>4. \A c \in Columns : new[c] = IF c \in DOMAIN set THEN set[c] ELSE photo[c] BY <1>3
<1> HIDE DEF new
<1>5. new.original = photo.original /\ new.current = photo.current BY <1>1, <1>4
<1>6. new.site = IF "site" \in DOMAIN set THEN set.site ELSE photo.site BY <1>4
<1>7. new.kind = IF "kind" \in DOMAIN set THEN set.kind ELSE photo.kind BY <1>4
<1>8. new.controlled = IF "controlled" \in DOMAIN set THEN set.controlled ELSE photo.controlled BY <1>4
<1>9. photo.original \in Nat /\ photo.current \in Nat /\ photo.site \in Sites /\ photo.kind \in Categories /\ photo.controlled \in BOOLEAN
  BY DEF AssetRow
<1>10. new.controlled <=> photo.controlled \/ "controlled" \in DOMAIN set BY <1>8, <1>9
<1>11. /\ new.original \in Nat /\ new.current \in Nat /\ new.site \in Sites /\ new.kind \in Categories /\ new.controlled \in BOOLEAN
  BY <1>1, <1>5, <1>6, <1>7, <1>8, <1>9
<1>12. new = [original |-> new.original, current |-> new.current, site |-> new.site, kind |-> new.kind, controlled |-> new.controlled]
  BY <1>3, <1>4
<1>13. new \in AssetRow BY <1>11, <1>12 DEF AssetRow
<1> QED BY <1>5, <1>6, <1>7, <1>10, <1>13 DEF new

\* A version is inserted.
LEMMA InsertStep ==
  ASSUME LibraryInv, NEW e \in Editors, InsertVersion(e)
  PROVE  LibraryInv'
<1> USE DEF LibraryInv
<1>1. /\ documents \in Seq(SUBSET Parts) /\ DOMAIN documents = 1..Len(documents) /\ Len(documents) \in Nat
      /\ versions \in Seq(VersionRow) /\ Len(versions) \in Nat /\ DOMAIN versions = 1..Len(versions)
      /\ editing[e] \in EditStates /\ EditOK(editing[e])
      /\ asset \in AssetRow /\ photoLinks \subseteq Sites /\ asset.current = Len(versions)
  BY DEF LibraryTablesOK, EditsOK, LibraryHolds
<1>2. PICK h \in EditStates : h = editing[e] BY <1>1
<1>3. h \in Revisions /\ RevisionOK(h) /\ h.at = "version" /\ h.number = Len(versions) + 1
  BY <1>1, <1>2, EditShapes DEF InsertVersion, EditOK
<1>4. /\ asset # NoAsset /\ h.parent \in 1..Len(versions) /\ h.document \in DOMAIN documents /\ (h.amends => asset.controlled)
      /\ h.set \in Settings /\ h.amends \in BOOLEAN /\ h.outdated \in BOOLEAN
      /\ "site" \in DOMAIN h.set => h.set.site \in Sites
      /\ "kind" \in DOMAIN h.set => h.set.kind \in Categories
      /\ "controlled" \in DOMAIN h.set => h.set.controlled = TRUE
  BY <1>3 DEF RevisionOK, Revisions
<1>5. PICK n \in Nat : n = Len(versions) + 1 BY <1>1
<1>6. PICK photo : photo = [asset EXCEPT !.current = n] OBVIOUS
<1>7. /\ asset' \in AssetRow /\ asset'.original = asset.original /\ asset'.current = n
      /\ asset'.site = (IF "site" \in DOMAIN h.set THEN h.set.site ELSE asset.site)
      /\ asset'.kind = (IF "kind" \in DOMAIN h.set THEN h.set.kind ELSE asset.kind)
      /\ asset'.controlled <=> asset.controlled \/ "controlled" \in DOMAIN h.set
  <2>1. asset' = WithColumns(photo, h.set) BY <1>2, <1>3, <1>5, <1>6 DEF InsertVersion
  <2>2. /\ photo \in AssetRow /\ photo.original = asset.original /\ photo.current = n /\ photo.site = asset.site
        /\ photo.kind = asset.kind /\ photo.controlled = asset.controlled
    BY <1>1, <1>6 DEF AssetRow
  <2> HIDE DEF LibraryInv
  <2>3. PICK set \in Settings : set = h.set BY <1>4
  <2>4. /\ WithColumns(photo, set) \in AssetRow
        /\ WithColumns(photo, set).original = photo.original /\ WithColumns(photo, set).current = photo.current
        /\ WithColumns(photo, set).site = (IF "site" \in DOMAIN set THEN set.site ELSE photo.site)
        /\ WithColumns(photo, set).kind = (IF "kind" \in DOMAIN set THEN set.kind ELSE photo.kind)
        /\ WithColumns(photo, set).controlled <=> photo.controlled \/ "controlled" \in DOMAIN set
    <3>1. /\ "site" \in DOMAIN set => set.site \in Sites
          /\ "kind" \in DOMAIN set => set.kind \in Categories
          /\ "controlled" \in DOMAIN set => set.controlled = TRUE
      BY <1>4, <2>3
    <3>2. photo \in AssetRow /\ set \in Settings BY <2>2
    <3> QED BY <3>1, <3>2, FlushedAsset
  <2> QED BY <2>1, <2>2, <2>3, <2>4
<1>8. PICK v : v = [document |-> h.document, parent |-> h.parent, amends |-> h.amends, as |-> documents[h.document]] OBVIOUS
<1>9. h.document \in Nat /\ documents[h.document] \in SUBSET Parts BY <1>1, <1>4
<1>10. /\ v \in VersionRow /\ v.document = h.document /\ v.parent = h.parent /\ v.amends = h.amends
       /\ v.as = documents[h.document]
  BY <1>4, <1>8, <1>9 DEF VersionRow
<1>11. versions' = Append(versions, v) /\ UNCHANGED <<documents, photoLinks>> /\ Committed(e)
  BY <1>2, <1>8 DEF InsertVersion
<1>12. /\ versions' \in Seq(VersionRow) /\ Len(versions') = n /\ DOMAIN versions' = 1..n /\ versions'[n] = v
       /\ \A i \in DOMAIN versions : versions'[i] = versions[i]
  BY <1>1, <1>5, <1>10, <1>11
<1>13. asset # NoAsset => asset.original # 0
  <2>1. asset.original \in DOMAIN documents BY <1>4 DEF LibraryTablesOK
  <2> QED BY <1>1, <2>1
<1>14. asset' # NoAsset BY <1>4, <1>7, <1>13 DEF NoAsset
<1>g. asset.controlled => asset'.controlled BY <1>7
<1>d. n \in Nat /\ Len(versions) <= n /\ UNCHANGED documents BY <1>1, <1>5, <1>11
<1>e. LibraryInv /\ Committed(e) BY <1>11
<1>15. editing' \in [Editors -> EditStates] /\ EditsOK' /\ outOfDate' \in BOOLEAN /\ (~outOfDate' => ~outOfDate /\ ~h.outdated)
  <2> HIDE DEF LibraryInv
  <2> QED BY <1>2, <1>12, <1>14, <1>d, <1>e, <1>g, OthersOutdated
<1>16. \A i \in DOMAIN versions' : i \in DOMAIN versions \/ i = n BY <1>1, <1>5, <1>12
<1>17. LibraryTablesOK'
  <2>1. \A i \in DOMAIN versions' : versions'[i].document \in DOMAIN documents'
    BY <1>4, <1>10, <1>11, <1>12, <1>16 DEF LibraryTablesOK
  <2>2. versions' # <<>> BY <1>5, <1>12
  <2>3. documents' \in Seq(SUBSET Parts) /\ photoLinks' \subseteq Sites /\ asset'.original \in DOMAIN documents'
    BY <1>1, <1>4, <1>7, <1>11 DEF LibraryTablesOK
  <2> QED BY <1>7, <1>12, <1>14, <1>15, <2>1, <2>2, <2>3 DEF LibraryTablesOK
<1>18. LibraryTypeOK'
  <2>1. \A i \in DOMAIN versions' : versions'[i].document \in DOMAIN documents' BY <1>17 DEF LibraryTablesOK
  <2>2. asset'.site \in Sites /\ asset'.kind \in Categories BY <1>7 DEF AssetRow
  <2> QED BY <1>11, <2>1, <2>2 DEF LibraryTypeOK, LibraryHolds
<1>19. \A i \in DOMAIN versions' : versions'[i].parent < i /\ (versions'[i].amends => asset'.controlled)
  <2>1. versions'[n].parent < n /\ (versions'[n].amends => asset'.controlled)
    BY <1>1, <1>4, <1>5, <1>7, <1>10, <1>12
  <2>2. \A i \in DOMAIN versions : versions'[i].parent < i /\ (versions'[i].amends => asset'.controlled)
    BY <1>7, <1>12 DEF LibraryHolds
  <2> QED BY <1>16, <2>1, <2>2
<1>20. asset'.current = Len(versions') /\ versions'[1].document = asset'.original
  <2>1. 1 \in DOMAIN versions BY <1>1, <1>4
  <2> QED BY <1>4, <1>7, <1>12, <2>1 DEF LibraryHolds
<1>21. ASSUME ~outOfDate'
       PROVE  /\ photoLinks' \subseteq {asset'.site}
              /\ asset'.kind \in Controlled => asset'.controlled
              /\ \A i \in DOMAIN versions' : versions'[i].parent = i - 1 /\ Keeps(i, "file")' /\ Keeps(i, "digest")'
  <2>1. ~outOfDate /\ ~h.outdated BY <1>15, <1>21
  <2>2. /\ h.parent = Len(versions)
        /\ "site" \in DOMAIN h.set => photoLinks \subseteq {h.set.site}
        /\ "kind" \in DOMAIN h.set /\ h.set.kind \in Controlled => asset.controlled \/ "controlled" \in DOMAIN h.set
    BY <1>3, <2>1 DEF RevisionOK
  <2>3. photoLinks' \subseteq {asset'.site} BY <1>7, <1>11, <2>1, <2>2 DEF LibraryHolds
  <2>4. asset'.kind \in Controlled => asset'.controlled BY <1>7, <2>1, <2>2 DEF LibraryHolds
  <2>5. Keeps(n, "file")' /\ Keeps(n, "digest")' BY <1>10, <1>11, <1>12 DEF Keeps
  <2>6. \A i \in DOMAIN versions : Keeps(i, "file")' /\ Keeps(i, "digest")'
    BY <1>11, <1>12, <2>1 DEF Keeps, LibraryHolds
  <2>7. \A i \in DOMAIN versions' : versions'[i].parent = i - 1
    BY <1>1, <1>5, <1>10, <1>12, <1>16, <2>1, <2>2 DEF LibraryHolds
  <2> QED BY <1>16, <2>3, <2>4, <2>5, <2>6, <2>7
<1>22. LibraryHolds' BY <1>18, <1>19, <1>20, <1>21 DEF LibraryHolds
<1> QED BY <1>15, <1>17, <1>22

\* A record is linked to the photo.
LEMMA LinkStep ==
  ASSUME LibraryInv, NEW e \in Editors, CommitLink(e)
  PROVE  LibraryInv'
<1> USE DEF LibraryInv
<1>1. /\ editing[e] \in EditStates /\ EditOK(editing[e]) /\ versions \in Seq(VersionRow) /\ Len(versions) \in Nat
      /\ photoLinks \subseteq Sites
  BY DEF LibraryTablesOK, EditsOK
<1>2. PICK h \in EditStates : h = editing[e] BY <1>1
<1>3. h \in Linking /\ asset # NoAsset /\ (~h.outdated => h.site = asset.site)
  BY <1>1, <1>2, EditShapes DEF CommitLink, EditOK
<1>4. h.site \in Sites BY <1>3 DEF Linking
<1>5. photoLinks' = photoLinks \cup {h.site} /\ Committed(e) /\ UNCHANGED <<documents, asset, versions>>
  BY <1>2 DEF CommitLink
<1>6. editing' \in [Editors -> EditStates] /\ EditsOK' /\ outOfDate' \in BOOLEAN /\ (~outOfDate' => ~outOfDate /\ ~h.outdated)
  BY <1>1, <1>2, <1>3, <1>5, OthersOutdated
<1>7. LibraryTablesOK' BY <1>1, <1>3, <1>4, <1>5, <1>6 DEF LibraryTablesOK
<1>8. ~outOfDate' => photoLinks' \subseteq {asset'.site} BY <1>3, <1>5, <1>6 DEF LibraryHolds
<1>9. \A v \in DOMAIN versions' : (Keeps(v, "file")' <=> Keeps(v, "file")) /\ (Keeps(v, "digest")' <=> Keeps(v, "digest"))
  BY <1>5 DEF Keeps
<1>10. LibraryTypeOK' BY <1>1, <1>4, <1>5 DEF LibraryTypeOK, LibraryHolds
<1>11. LibraryHolds' BY <1>5, <1>6, <1>8, <1>9, <1>10 DEF LibraryHolds
<1> QED BY <1>6, <1>7, <1>11

\* A document is changed.
LEMMA PatchStep ==
  ASSUME LibraryInv, NEW e \in Editors, CommitPatch(e)
  PROVE  LibraryInv'
<1> USE DEF LibraryInv
<1>1. /\ editing[e] \in EditStates /\ EditOK(editing[e]) /\ documents \in Seq(SUBSET Parts)
      /\ outOfDate \in BOOLEAN
      /\ \A v \in DOMAIN versions : versions[v].document \in DOMAIN documents
  BY DEF LibraryTablesOK, EditsOK
<1>2. PICK h \in EditStates : h = editing[e] BY <1>1
<1>3. /\ h \in Patches /\ h.document \in DOMAIN documents
      /\ h.column \in {"file", "digest"} /\ ~h.outdated => ~Evidence(h.document)
  BY <1>1, <1>2, EditShapes DEF CommitPatch, EditOK
<1>4. h.column \in Parts /\ h.outdated \in BOOLEAN BY <1>3 DEF Patches
<1>5. /\ documents' = [documents EXCEPT ![h.document] = @ \cup {h.column}] /\ Advance(e, NotEditing)
      /\ outOfDate' = (outOfDate \/ h.outdated) /\ UNCHANGED <<asset, versions, photoLinks>>
  BY <1>2 DEF CommitPatch
<1>6. /\ documents' \in Seq(SUBSET Parts) /\ DOMAIN documents' = DOMAIN documents
      /\ \A d \in DOMAIN documents : d # h.document => documents'[d] = documents[d]
      /\ documents'[h.document] = documents[h.document] \cup {h.column}
  BY <1>1, <1>3, <1>4, <1>5
<1>7. editing' \in [Editors -> EditStates] BY <1>5, EditShapes DEF Advance, LibraryTablesOK
<1>8. EditsOK'
  <2> SUFFICES ASSUME NEW f \in Editors PROVE EditOK(editing[f])' BY DEF EditsOK
  <2>1. CASE f = e
    <3>1. editing'[f] = NotEditing BY <1>5, <2>1 DEF Advance, LibraryTablesOK
    <3>2. NotEditing.at = "idle" BY EditShapes
    <3>3. NotEditing \notin Revisions BY <3>2, EditShapes
    <3>4. PICK g : g = NotEditing OBVIOUS
    <3>5. EditOK(g)' BY <3>2, <3>3, <3>4 DEF EditOK, RevisionOK
    <3> QED BY <3>1, <3>4, <3>5
  <2>2. CASE f # e
    <3>1. editing'[f] = editing[f] /\ editing[f] \in EditStates BY <1>5, <2>2 DEF Advance, LibraryTablesOK
    <3>2. PICK g \in EditStates : g = editing[f] BY <3>1
    <3>3. EditOK(g) BY <3>2 DEF EditsOK
    <3>4. EditOK(g)' BY <1>5, <1>6, <3>3, EditKept
    <3> QED BY <3>1, <3>2, <3>4
  <2> QED BY <2>1, <2>2
<1>9. LibraryTablesOK' BY <1>1, <1>4, <1>5, <1>6, <1>7 DEF LibraryTablesOK
<1>10. LibraryTypeOK'
  <2>1. \A d \in DOMAIN documents' : documents'[d] \subseteq Parts BY <1>6
  <2> QED BY <1>5, <1>6, <2>1 DEF LibraryTypeOK, LibraryHolds, Parts
<1>11. ASSUME ~outOfDate', NEW v \in DOMAIN versions PROVE Keeps(v, "file")' /\ Keeps(v, "digest")'
  <2>1. Keeps(v, "file") /\ Keeps(v, "digest") BY <1>4, <1>5, <1>11 DEF LibraryHolds
  <2>2. CASE versions[v].document = h.document
    <3>1. h.column \notin {"file", "digest"} BY <1>3, <1>4, <1>5, <1>11, <2>2 DEF Evidence
    <3> QED BY <1>5, <1>6, <2>1, <2>2, <3>1 DEF Keeps
  <2>3. CASE versions[v].document # h.document BY <1>1, <1>5, <1>6, <2>1, <2>3 DEF Keeps
  <2> QED BY <2>2, <2>3
<1>12. LibraryHolds' BY <1>4, <1>5, <1>10, <1>11 DEF LibraryHolds
<1> QED BY <1>8, <1>9, <1>12

\* A change of a document begins.
LEMMA PatchBegins ==
  ASSUME LibraryInv, NEW e \in Editors, NEW d \in DOMAIN documents, NEW p \in Parts, BeginPatch(e, d, p)
  PROVE  LibraryInv'
<1>1. documents \in Seq(SUBSET Parts) /\ Len(documents) \in Nat BY DEF LibraryInv, LibraryTablesOK
<1>2. PICK s : s = [at |-> "patch", outdated |-> FALSE, document |-> d, column |-> p] OBVIOUS
<1>3. s \in Patches BY <1>1, <1>2 DEF Patches
<1>4. s \in EditStates /\ s.at = "patch" /\ s.document = d /\ s.column = p BY <1>2, <1>3 DEF EditStates
<1>5. s \notin Revisions BY <1>4, EditShapes
<1>6. Advance(e, s) /\ UNCHANGED <<documents, asset, versions, photoLinks, outOfDate>> /\ (p \in {"file", "digest"} => ~Evidence(d))
  BY <1>2 DEF BeginPatch
<1>7. Evidence(d)' = Evidence(d) BY <1>6 DEF Evidence
<1>8. EditOK(s)' BY <1>4, <1>5, <1>6, <1>7 DEF EditOK, RevisionOK
<1> QED BY <1>1, <1>4, <1>6, <1>8, QuietEdit

-----------------------------------------------------------------------------
\* The library is empty, and nobody edits it.
LEMMA LibraryStart == LibraryInit => LibraryInv
<1> SUFFICES ASSUME LibraryInit PROVE LibraryInv OBVIOUS
<1> USE DEF LibraryInit
<1>1. (CHOOSE s \in Sites : TRUE) \in Sites BY LibraryAssumption
<1>2. NoAsset \in AssetRow /\ NoAsset.current = 0 /\ NoAsset.site \in Sites /\ NoAsset.kind = "job_photo"
  BY <1>1 DEF NoAsset, AssetRow, Categories
<1>3. NotEditing \in EditStates /\ NotEditing.at = "idle" BY EditShapes
<1>4. NotEditing \notin Revisions BY <1>3, EditShapes
<1>5. EditsOK BY <1>3, <1>4 DEF EditsOK, EditOK, RevisionOK
<1>6. LibraryTablesOK
  <2>1. documents \in Seq(SUBSET Parts) /\ versions \in Seq(VersionRow) /\ DOMAIN versions = {} OBVIOUS
  <2>2. editing \in [Editors -> EditStates] BY <1>3
  <2> QED BY <1>2, <2>1, <2>2 DEF LibraryTablesOK
<1>7. LibraryHolds BY <1>2 DEF LibraryHolds, LibraryTypeOK, Controlled, Categories
<1> QED BY <1>5, <1>6, <1>7 DEF LibraryInv

\* Every step keeps the invariant.
LEMMA LibraryStep == LibraryInv /\ [LibraryNext]_libraryVars => LibraryInv'
<1>1. ASSUME LibraryInv, NEW e \in Editors, EditStep(e) PROVE LibraryInv'
  BY <1>1, QuietEdits, RevisionSteps, RegisterStep, InsertStep, LinkStep, PatchStep, PatchBegins DEF EditStep, Parts
<1>2. ASSUME LibraryInv, UNCHANGED libraryVars PROVE LibraryInv'
  <2> USE <1>2 DEF libraryVars
  <2>1. LibraryTablesOK' BY DEF LibraryInv, LibraryTablesOK
  <2>2. LibraryHolds' BY DEF LibraryInv, LibraryHolds, LibraryTypeOK, Keeps
  <2>3. EditsOK' BY DEF LibraryInv, EditsOK, EditOK, RevisionOK, Evidence
  <2> QED BY <2>1, <2>2, <2>3 DEF LibraryInv
<1> QED BY <1>1, <1>2 DEF LibraryNext

\* The inductive invariant of the media library.
THEOREM LibraryInvariant == LibrarySpec => []LibraryInv
<1> QED BY LibraryStart, LibraryStep, PTL DEF LibrarySpec

\* A photo's versions are in order, each made from an earlier one; the first is the
\* upload, what is controlled stays so, and until an edit is committed over reads that
\* were out of date nothing changes the file of evidence (services/media.py).
THEOREM LibraryIsKept == LibrarySpec => []LibraryHolds
<1>1. LibraryInv => LibraryHolds BY DEF LibraryInv
<1> QED BY <1>1, LibraryInvariant, PTL

=============================================================================
