----------------------------- MODULE AwardProofs -----------------------------
(***************************************************************************)
(* Theorems about the register of projects and about the customer quotes   *)
(* that award them: whatever requests race, an awarded project keeps a     *)
(* number that no other project has, and an accepted quote is the one its  *)
(* client saw.                                                             *)
(***************************************************************************)
EXTENDS CustomerQuotes, FiniteSetTheorems, WellFoundedInduction, TLAPS

-----------------------------------------------------------------------------
\* The register: the inductive invariant

\* A request between its read and its commit.
Writes == [at: {"allocate", "write"}, p: Projects, read: Rows, new: ChangeSet, number: {0} \cup Numbers]
Items == [at: {"item"}, p: Projects, status: Statuses, c: Controls, done: BOOLEAN]
UpdateStates == {Idle} \cup Writes \cup Items

\* What a request that writes the row has read has since only been added to, and
\* what it is about to write was checked.
WriteOK(u) ==
  /\ u.read.number # 0 => project[u.p].number # 0
  /\ u.read.root # 0 => project[u.p].root # 0
  /\ u.at = "allocate" => u.number = 0
  /\ u.number # 0 => u.read.number = 0
  /\ u.at = "allocate" \/ u.number # 0 => u.new.status \in {None, "awarded"}
  /\ u.at = "write" /\ Target(u) = "awarded" => u.read.number # 0 \/ Assigned(u) # 0
  /\ u.at = "write" /\ Completes(u) /\ ~raced[u.p] => CloseoutReady(u.p)

\* A request on a closeout control of a completed project does not reopen it.
ItemOK(u) == closeout[u.p] # None /\ (u.status = "completed" => u.done)

UpdateOK(u) == (u \in Writes => WriteOK(u)) /\ (u \in Items => ItemOK(u))

\* No two projects have one number.
NumbersUnique ==
  \A p, o \in Projects : p # o /\ project[p].number # 0 => project[o].number # project[p].number

\* An awarded project has its number, its workspace and its checklists.
Provisioned ==
  \A p \in Projects : project[p].status = "awarded" =>
    project[p].number # 0 /\ project[p].root # 0 /\ mobilized[p] # "none" /\ closeout[p] # None

RegisterTables ==
  /\ project \in [Projects -> Rows]
  /\ closeout \in [Projects -> {None} \cup SUBSET Controls]
  /\ mobilized \in [Projects -> {"none", "open", "complete"}]
  /\ document \in [Documents -> {"current", "superseded"}]
  /\ update \in [Sessions -> UpdateStates]
  /\ updates \in 0..MaxUpdates
  /\ decided \in [Projects -> {None, "blocked", "ready"}]
  /\ postedBlocked \in [Projects -> BOOLEAN]
  /\ raced \in [Projects -> BOOLEAN]

RegisterInv ==
  /\ RegisterTables
  /\ \A s \in Sessions : UpdateOK(update[s])
  /\ NumbersUnique /\ Provisioned
  /\ ReleaseIsDecided /\ PostedOnRelease /\ CompletedIsClosedOut

-----------------------------------------------------------------------------
\* The quotes: the inductive invariant

Screens == [q: Quotes, rev: Revisions, total: Prices]
QuoteRows == [status: {"absent", "accepted"} \cup Open \cup Closed, issue: Issues, rev: {0} \cup Revisions,
              total: {0} \cup Prices, p: {None} \cup Projects, number: Nat,
              source: {None} \cup Workspaces, hash: Nat, snapshot: {0} \cup Prices]
Creations == [at: {"create"}, q: Quotes, p: {None} \cup Projects, total: Prices, number: Nat,
              source: {None} \cup Workspaces, hash: Nat]
Awarding == [at: {"award"}, q: Quotes, p: Projects, number: Numbers]
Again == [at: {"again"}, q: Quotes]
RequestStates == {Idle} \cup Creations \cup Awarding \cup Again

QuoteTables ==
  /\ quote \in [Quotes -> QuoteRows]
  /\ estimate \in [Workspaces -> {0} \cup Prices]
  /\ contract \in [Projects -> {0} \cup Prices]
  /\ view \in [Sessions -> {None} \cup Screens]
  /\ request \in [Sessions -> RequestStates]
  /\ signed \in [Quotes -> {0} \cup Prices]

\* A quote that is there is complete, and is that of a project.
RowsOK ==
  \A q \in Existing :
    /\ quote[q].rev \in Revisions /\ quote[q].total \in Prices
    /\ quote[q].p \in Projects /\ project[quote[q].p].status # "absent"

\* A screen shows what its revision says.
ScreensOK ==
  \A s \in Sessions : view[s] # None =>
    /\ view[s].q \in Existing /\ view[s].rev <= quote[view[s].q].rev
    /\ view[s].rev = quote[view[s].q].rev => view[s].total = quote[view[s].q].total

\* The numbers of the quotes are in use up to the last.
NumbersUsed == {quote[q].number : q \in Existing} = 1..Cardinality(Existing)

\* What a request holds: a creation no existing quote and a number that is at most the
\* next, an acceptance the lock of an open quote as its client saw it.
CreationOK(r) ==
  /\ quote[r.q].status = "absent" /\ r.number \in 1..(Cardinality(Existing) + 1)
  /\ r.p # None => project[r.p].status # "absent"
AwardingOK(s, r) ==
  /\ s \in Managers /\ r.q \in Existing /\ r.p = quote[r.q].p
  /\ quote[r.q].status \in Open /\ quote[r.q].rev < MaxRevision
  /\ view[s] # None /\ view[s].q = r.q /\ view[s].rev = quote[r.q].rev
  /\ project[r.p].number \in {0, r.number}
RequestOK(s, r) ==
  /\ r \in Creations => CreationOK(r)
  /\ r \in Awarding => AwardingOK(s, r)
  /\ r \in Again => r.q \in Existing

\* No two requests create or accept one quote, or award one project.
RequestsApart ==
  \A s, o \in Sessions : s # o =>
    /\ request[s].at = "create" /\ request[o].at = "create" => request[s].q # request[o].q
    /\ request[s].at = "award" /\ request[o].at = "award" => request[s].q # request[o].q /\ request[s].p # request[o].p

QuotesInv ==
  /\ QuoteTables /\ RowsOK /\ ScreensOK /\ NumbersUsed
  /\ \A s \in Sessions : RequestOK(s, request[s])
  /\ RequestsApart
  /\ AcceptedAsSeen /\ IssuedAsApproved /\ AwardIsComplete /\ QuoteKeysUnique
-----------------------------------------------------------------------------
\* A set of numbers that has a bound has a greatest one.
LEMMA MaxExists ==
  ASSUME NEW bound \in Nat, NEW S \in SUBSET (1..bound), S # {}
  PROVE  Max(S) \in S /\ \A n \in S : Max(S) >= n
<1> DEFINE Bounds == {m \in Nat : \A n \in S : m >= n}
<1>1. Bounds \subseteq Nat /\ Bounds # {}
  <2>1. bound \in Bounds OBVIOUS
  <2> QED BY <2>1
<1>2. PICK least \in Bounds : \A m \in Bounds : ~(<<m, least>> \in OpToRel(<, Nat))
  BY <1>1, NatLessThanWellFounded, WFMin, Zenon
<1>3. \A m \in Bounds : ~(m < least) BY <1>1, <1>2 DEF OpToRel
<1>4. least \in S
  <2> SUFFICES ASSUME least \notin S PROVE FALSE OBVIOUS
  <2>1. PICK n \in S : TRUE OBVIOUS
  <2>2. n \in Nat /\ n >= 1 /\ least >= n /\ least \in Nat BY <2>1
  <2>3. least - 1 \in Bounds BY <2>2
  <2> QED BY <1>3, <2>2, <2>3
<1>5. \A n \in S : least >= n OBVIOUS
<1> QED BY <1>4, <1>5 DEF Max

\* The number that an award loop computes is a number.
LEMMA NextIsNumber ==
  ASSUME RegisterTables, NextJobNumber <= MaxNumber
  PROVE  NextJobNumber \in Numbers
<1>1. TakenNumbers \in SUBSET (1..MaxNumber) BY DEF RegisterTables, TakenNumbers, Rows, Numbers
<1>2. CASE TakenNumbers = {} BY <1>2, ProjectsAssumption DEF NextJobNumber, Numbers
<1>3. CASE TakenNumbers # {}
  <2>1. Max(TakenNumbers) \in 1..MaxNumber BY <1>1, <1>3, MaxExists, ProjectsAssumption
  <2> QED BY <1>3, <2>1, ProjectsAssumption DEF NextJobNumber, Numbers
<1> QED BY <1>2, <1>3

-----------------------------------------------------------------------------
\* No state of a request is taken for another.
LEMMA UpdateShapes ==
  /\ Idle \in UpdateStates /\ Idle \notin Writes /\ Idle \notin Items
  /\ \A u \in Writes : u \in UpdateStates /\ u \notin Items /\ u # Idle /\ u.at \in {"allocate", "write"}
  /\ \A u \in Items : u \in UpdateStates /\ u \notin Writes /\ u # Idle /\ u.at = "item"
  /\ \A u \in UpdateStates :
       /\ u.at \in {"allocate", "write"} => u \in Writes
       /\ u.at = "item" => u \in Items
<1>1. \A u \in Writes : u.at \in {"allocate", "write"} BY DEF Writes
<1>2. \A u \in Items : u.at = "item" BY DEF Items
<1>3. Idle.at = "idle" BY DEF Idle
<1> QED BY <1>1, <1>2, <1>3 DEF UpdateStates

\* A request of another session, when a step only adds to what it has read and keeps
\* what it has checked.
LEMMA UpdateKept ==
  ASSUME NEW u \in UpdateStates, UpdateOK(u),
         u \in Writes => /\ project[u.p].number # 0 => project'[u.p].number # 0
                         /\ project[u.p].root # 0 => project'[u.p].root # 0
                         /\ raced[u.p] => raced'[u.p]
                         /\ Completes(u) /\ u.at = "write" /\ CloseoutReady(u.p) => raced'[u.p] \/ CloseoutReady(u.p)',
         u \in Items => (closeout[u.p] # None => closeout'[u.p] # None)
  PROVE  UpdateOK(u)'
<1>1. CASE u \in Writes
  <2>1. u \notin Items BY <1>1, UpdateShapes
  <2>2. WriteOK(u) BY <1>1 DEF UpdateOK
  <2>3. WriteOK(u)' BY <1>1, <2>2 DEF WriteOK, Target, Assigned, Completes
  <2> QED BY <2>1, <2>3 DEF UpdateOK
<1>2. CASE u \in Items
  <2>1. u \notin Writes BY <1>2, UpdateShapes
  <2> QED BY <1>2, <2>1 DEF UpdateOK, ItemOK
<1> QED BY <1>1, <1>2 DEF UpdateOK

\* What the flush of a request leaves in the row.
LEMMA WrittenRow ==
  ASSUME RegisterTables, NEW u \in Writes, WriteOK(u), u.at = "write"
  PROVE  LET row == project[u.p]
             number == IF Assigned(u) # 0 THEN Assigned(u) ELSE u.read.number
             new == Written(u)
         IN /\ new \in Rows
            /\ new.status = IF Target(u) # u.read.status THEN Target(u) ELSE row.status
            /\ new.number = IF Assigned(u) # 0 THEN Assigned(u) ELSE row.number
            /\ new.root = IF Provisions(u) /\ u.read.root = 0 THEN number ELSE row.root
            /\ new.launch = IF WritesMetadata(u) THEN u.read.launch ELSE row.launch
            /\ new.award = IF WritesMetadata(u) THEN u.read.award ELSE row.award
            /\ new.deleted = row.deleted
            /\ Assigned(u) \in {0} \cup Numbers
            /\ Assigned(u) # 0 => u.read.number = 0
            /\ Provisions(u) => number # 0
<1> DEFINE row == project[u.p]
           number == IF Assigned(u) # 0 THEN Assigned(u) ELSE u.read.number
           status == IF Target(u) # u.read.status THEN Target(u) ELSE row.status
           root == IF Provisions(u) /\ u.read.root = 0 THEN number ELSE row.root
           launch == IF WritesMetadata(u) THEN u.read.launch ELSE row.launch
           award == IF WritesMetadata(u) THEN u.read.award ELSE row.award
           written == IF number # u.read.number THEN number ELSE row.number
<1>1. row \in Rows /\ u.read \in Rows /\ u.new \in ChangeSet /\ u.number \in {0} \cup Numbers
  BY DEF RegisterTables, Writes
<1>2. Assigned(u) \in {0} \cup Numbers /\ (Assigned(u) # 0 => u.read.number = 0)
  BY <1>1 DEF Assigned, WriteOK, ChangeSet
<1>3. written = IF Assigned(u) # 0 THEN Assigned(u) ELSE row.number BY <1>2
<1>4. Target(u) \in Statuses BY <1>1 DEF Target, ChangeSet, Rows
<1>5. Provisions(u) => number # 0 BY <1>2 DEF Provisions, WriteOK
<1>6. /\ status \in Statuses /\ written \in {0} \cup Numbers /\ root \in {0} \cup Numbers
      /\ launch \in {None} \cup Launches /\ award \in {None} \cup Quotes
  BY <1>1, <1>2, <1>3, <1>4 DEF Rows
<1>7. Written(u) = [row EXCEPT !.status = status, !.number = written, !.root = root, !.launch = launch, !.award = award]
  BY <1>1 DEF Written, Rows
<1> HIDE DEF row, number, status, root, launch, award, written
<1>8. /\ Written(u) \in Rows
      /\ Written(u).status = status /\ Written(u).number = written /\ Written(u).root = root
      /\ Written(u).launch = launch /\ Written(u).award = award /\ Written(u).deleted = row.deleted
  BY <1>1, <1>6, <1>7, ZenonT(60) DEF Rows
<1> QED BY <1>2, <1>3, <1>5, <1>8 DEF row, number, status, root, launch, award, written
\* What a request has read of the row, when nothing was changed since.
LEMMA LoadedRow ==
  ASSUME NEW row \in Rows, NEW new \in ChangeSet
  PROVE  LET got == Loaded(row, new)
         IN /\ got \in Rows
            /\ got.status = row.status /\ got.number = row.number /\ got.root = row.root
            /\ \A u \in Writes : u.read = got /\ u.new = new /\ WritesMetadata(u) =>
                 got.launch = row.launch /\ got.award = row.award
<1> DEFINE kept == WritesMetadata([read |-> row, new |-> new])
           launch == IF kept THEN row.launch ELSE None
           award == IF kept THEN row.award ELSE None
<1>1. launch \in {None} \cup Launches /\ award \in {None} \cup Quotes BY DEF Rows
<1>2. Loaded(row, new) = [row EXCEPT !.deleted = FALSE, !.launch = launch, !.award = award] BY DEF Loaded, Rows
<1> HIDE DEF kept, launch, award
<1>3. PICK got : got = Loaded(row, new) OBVIOUS
<1>4. /\ got \in Rows /\ got.status = row.status /\ got.number = row.number /\ got.root = row.root
      /\ got.launch = launch /\ got.award = award
  BY <1>1, <1>2, <1>3 DEF Rows
<1>5. ASSUME NEW u \in Writes, u.read = got, u.new = new PROVE WritesMetadata(u) <=> kept
  BY <1>4, <1>5 DEF WritesMetadata, Completes, Reopens, Target, kept
<1> QED BY <1>3, <1>4, <1>5 DEF launch, award

-----------------------------------------------------------------------------
\* A step that only moves one request.
LEMMA RequestGoesOn ==
  ASSUME RegisterInv, NEW s \in Sessions, NEW u \in UpdateStates, UpdateOK(u),
         update' = [update EXCEPT ![s] = u], updates' \in 0..MaxUpdates,
         UNCHANGED <<project, closeout, mobilized, document, decided, postedBlocked, raced>>
  PROVE  RegisterInv'
<1> USE DEF RegisterInv
<1>1. RegisterTables' BY DEF RegisterTables
<1>2. ASSUME NEW f \in Sessions PROVE UpdateOK(update[f])'
  <2>1. PICK h \in UpdateStates : h = update'[f] /\ UpdateOK(h) BY <1>2 DEF RegisterTables
  <2>2. UpdateOK(h)' BY <2>1, UpdateKept DEF CloseoutReady
  <2> QED BY <2>1, <2>2
<1>3. NumbersUnique' /\ Provisioned' BY DEF NumbersUnique, Provisioned
<1>4. ReleaseIsDecided' /\ PostedOnRelease' /\ CompletedIsClosedOut'
  BY DEF ReleaseIsDecided, PostedOnRelease, CompletedIsClosedOut, Matches, CloseoutReady
<1> QED BY <1>1, <1>2, <1>3, <1>4

\* A request starts with the row as it is.
LEMMA Starts ==
  ASSUME RegisterInv, NEW s \in Sessions, NEW p \in Projects, NEW new \in ChangeSet,
         new.status = "completed" => CloseoutReady(p) \/ project[p].status = "completed",
         updates' \in 0..MaxUpdates, Start(s, p, new),
         UNCHANGED <<project, closeout, mobilized, document, decided, postedBlocked, raced>>
  PROVE  RegisterInv'
<1>1. PICK got : got = Loaded(project[p], new) OBVIOUS
<1>2. project[p] \in Rows BY DEF RegisterInv, RegisterTables
<1>3. got \in Rows /\ got.status = project[p].status /\ got.number = project[p].number /\ got.root = project[p].root
  BY <1>1, <1>2, LoadedRow
<1>4. PICK u : u = [at |-> "write", p |-> p, read |-> got, new |-> new, number |-> 0] OBVIOUS
<1>5. PICK v : v = [at |-> "allocate", p |-> p, read |-> got, new |-> new, number |-> 0] OBVIOUS
<1>6. v = [u EXCEPT !.at = "allocate"] BY <1>4, <1>5
<1>7. u \in Writes /\ v \in Writes BY <1>3, <1>4, <1>5 DEF Writes
<1>8. Start(s, p, new) <=> update' = [update EXCEPT ![s] = IF Awards(u) THEN v ELSE u]
  BY <1>1, <1>4, <1>6 DEF Start
<1>9. CASE Awards(u)
  <2>1. v.new.status \in {None, "awarded"} /\ v.number = 0 /\ v.p = p /\ v.read = got /\ v.at = "allocate"
    BY <1>4, <1>5, <1>9 DEF Awards, Target
  <2>2. WriteOK(v) BY <1>3, <2>1 DEF WriteOK
  <2>3. UpdateOK(v) BY <1>7, <2>2, UpdateShapes DEF UpdateOK
  <2> QED BY <1>7, <1>8, <1>9, <2>3, UpdateShapes, RequestGoesOn
<1>10. CASE ~Awards(u)
  <2>1. u.number = 0 /\ u.p = p /\ u.read = got /\ u.at = "write" /\ u.new = new BY <1>4
  <2>2. Target(u) = "awarded" => u.read.number # 0 \/ Assigned(u) # 0 BY <1>10, <2>1 DEF Awards, Assigned
  <2>3. Completes(u) => CloseoutReady(p) BY <1>3, <2>1 DEF Completes, Target
  <2>4. WriteOK(u) BY <1>3, <2>1, <2>2, <2>3 DEF WriteOK
  <2>5. UpdateOK(u) BY <1>7, <2>4, UpdateShapes DEF UpdateOK
  <2> QED BY <1>7, <1>8, <1>10, <2>5, UpdateShapes, RequestGoesOn
<1> QED BY <1>9, <1>10

\* Requests that read, and the award loop.
LEMMA RequestSteps ==
  ASSUME RegisterInv, NEW s \in Sessions,
         \/ \E p \in Projects, new \in Changes : CreateProject(s, p, new) \/ BeginUpdate(s, p, new)
         \/ \E p \in Projects, c \in Controls, b \in BOOLEAN : BeginCloseoutItem(s, p, c, b)
         \/ Allocate(s) \/ NumberTaken(s)
  PROVE  RegisterInv'
<1> DEFINE Same == UNCHANGED <<project, closeout, mobilized, document, decided, postedBlocked, raced>>
<1>1. updates \in 0..MaxUpdates /\ MaxUpdates \in Nat BY ProjectsAssumption DEF RegisterInv, RegisterTables
<1>2. ASSUME NEW p \in Projects, NEW new \in Changes, CreateProject(s, p, new) PROVE RegisterInv'
  <2>1. new \in ChangeSet BY RegisterAssumption
  <2> QED BY <1>1, <1>2, <2>1, Starts DEF CreateProject
<1>3. ASSUME NEW p \in Projects, NEW new \in Changes, BeginUpdate(s, p, new) PROVE RegisterInv'
  <2>1. new \in ChangeSet BY RegisterAssumption
  <2>2. updates' \in 0..MaxUpdates BY <1>1, <1>3 DEF BeginUpdate
  <2>3. new.status = "completed" => CloseoutReady(p) \/ project[p].status = "completed"
    BY <1>3, RegisterAssumption DEF BeginUpdate, Completes, Target, Statuses
  <2> QED BY <1>3, <2>1, <2>2, <2>3, Starts DEF BeginUpdate
<1>4. ASSUME NEW p \in Projects, NEW c \in Controls, NEW b \in BOOLEAN, BeginCloseoutItem(s, p, c, b) PROVE RegisterInv'
  <2>1. PICK u : u = [at |-> "item", p |-> p, status |-> project[p].status, c |-> c, done |-> b] OBVIOUS
  <2>2. u \in Items BY <2>1 DEF Items, RegisterInv, RegisterTables, Rows
  <2>3. ItemOK(u) BY <1>4, <2>1 DEF ItemOK, BeginCloseoutItem
  <2>4. UpdateOK(u) BY <2>2, <2>3, UpdateShapes DEF UpdateOK
  <2>5. update' = [update EXCEPT ![s] = u] /\ Same /\ updates' = updates BY <1>4, <2>1 DEF BeginCloseoutItem
  <2> QED BY <1>1, <2>2, <2>4, <2>5, UpdateShapes, RequestGoesOn
<1>5. CASE Allocate(s)
  <2>1. PICK u : u = update[s] OBVIOUS
  <2>2. u.at = "allocate" /\ u \in UpdateStates /\ UpdateOK(u) BY <1>5, <2>1 DEF Allocate, RegisterInv, RegisterTables
  <2>3. u \in Writes /\ WriteOK(u) BY <2>2, UpdateShapes DEF UpdateOK
  <2>4. PICK n : n = IF u.read.number = 0 THEN NextJobNumber ELSE 0 OBVIOUS
  <2>5. n \in {0} \cup Numbers /\ (u.read.number = 0 <=> n # 0)
    BY <1>5, <2>1, <2>4, NextIsNumber, ProjectsAssumption DEF Allocate, RegisterInv, Numbers
  <2>6. PICK v : v = [u EXCEPT !.at = "write", !.number = n] OBVIOUS
  <2>7. v \in Writes /\ v.at = "write" /\ v.number = n /\ v.p = u.p /\ v.read = u.read /\ v.new = u.new
    BY <2>3, <2>5, <2>6 DEF Writes
  <2>8. WriteOK(v)
    <3>1. Target(v) = "awarded" => v.read.number # 0 \/ Assigned(v) # 0 BY <2>5, <2>7 DEF Assigned
    <3>2. ~Completes(v) BY <2>2, <2>3, <2>7 DEF WriteOK, Completes, Target
    <3>3. v.new.status \in {None, "awarded"} BY <2>2, <2>3, <2>7 DEF WriteOK
    <3> QED BY <2>3, <2>5, <2>7, <3>1, <3>2, <3>3 DEF WriteOK
  <2>9. UpdateOK(v) BY <2>7, <2>8, UpdateShapes DEF UpdateOK
  <2>10. update' = [update EXCEPT ![s] = v] /\ Same /\ updates' = updates BY <1>5, <2>1, <2>4, <2>6 DEF Allocate
  <2> QED BY <1>1, <2>7, <2>9, <2>10, UpdateShapes, RequestGoesOn
<1>6. CASE NumberTaken(s)
  <2>1. PICK u : u = update[s] OBVIOUS
  <2>2. u.at = "write" /\ u \in UpdateStates /\ UpdateOK(u) BY <1>6, <2>1 DEF NumberTaken, RegisterInv, RegisterTables
  <2>3. u \in Writes /\ WriteOK(u) BY <2>2, UpdateShapes DEF UpdateOK
  <2>4. PICK got : got = Loaded(project[u.p], u.new) OBVIOUS
  <2>5. u.p \in Projects /\ u.new \in ChangeSet /\ project[u.p] \in Rows
    BY <2>3 DEF Writes, RegisterInv, RegisterTables
  <2>6. got \in Rows /\ got.number = project[u.p].number /\ got.root = project[u.p].root BY <2>4, <2>5, LoadedRow
  <2>7. PICK v : v = [u EXCEPT !.at = "allocate", !.read = got, !.number = 0] OBVIOUS
  <2>8. v \in Writes /\ v.at = "allocate" /\ v.number = 0 /\ v.p = u.p /\ v.read = got /\ v.new = u.new
    BY <2>3, <2>6, <2>7 DEF Writes
  <2>9. update' = [update EXCEPT ![s] = v] \/ update' = [update EXCEPT ![s] = Idle] BY <1>6, <2>1, <2>4, <2>7 DEF NumberTaken
  <2>10. u.number # 0 \/ update' = [update EXCEPT ![s] = Idle] BY <1>6, <2>1 DEF NumberTaken
  <2>11. u.number # 0 => WriteOK(v) BY <2>3, <2>6, <2>8 DEF WriteOK
  <2>12. u.number # 0 => UpdateOK(v) BY <2>8, <2>11, UpdateShapes DEF UpdateOK
  <2>13. UpdateOK(Idle) BY UpdateShapes DEF UpdateOK
  <2>14. Same /\ updates' = updates BY <1>6 DEF NumberTaken
  <2> QED BY <1>1, <2>8, <2>9, <2>10, <2>12, <2>13, <2>14, UpdateShapes, RequestGoesOn
<1> QED BY <1>2, <1>3, <1>4, <1>5, <1>6
-----------------------------------------------------------------------------
\* What a commit of a row leaves of it, when the row had not changed since it was read.
LEMMA UnracedWrite ==
  ASSUME RegisterTables, NEW u \in Writes, WriteOK(u), u.at = "write", u.read = Loaded(project[u.p], u.new)
  PROVE  LET row == project[u.p]
             new == Written(u)
         IN /\ new.launch = row.launch /\ new.award = row.award
            /\ row.number # 0 => new.number = row.number /\ (row.root # 0 => new.root = row.root)
            /\ new.status = "completed" => row.status = "completed" \/ Completes(u)
<1>1. u.p \in Projects /\ u.new \in ChangeSet /\ project[u.p] \in Rows BY DEF Writes, RegisterTables
<1>2. /\ u.read.status = project[u.p].status /\ u.read.number = project[u.p].number /\ u.read.root = project[u.p].root
      /\ WritesMetadata(u) => u.read.launch = project[u.p].launch /\ u.read.award = project[u.p].award
  BY <1>1, LoadedRow
<1> QED BY <1>2, WrittenRow DEF Completes

\* A request commits what it has read with its changes.
LEMMA CommitUpdateStep ==
  ASSUME RegisterInv, NEW s \in Sessions, CommitUpdate(s)
  PROVE  RegisterInv'
<1> USE DEF RegisterInv
<1>1. PICK u : u = update[s] OBVIOUS
<1>2. u.at = "write" /\ u \in UpdateStates /\ UpdateOK(u) BY <1>1 DEF CommitUpdate, RegisterTables
<1>3. u \in Writes /\ WriteOK(u) BY <1>2, UpdateShapes DEF UpdateOK
<1>4. PICK p \in Projects : p = u.p BY <1>3 DEF Writes
<1>5. PICK new : new = Written(u) OBVIOUS
<1>6. PICK stale \in BOOLEAN : stale = (u.read # Loaded(project[p], u.new)) OBVIOUS
<1>7. /\ Assigned(u) # 0 => NumberFree(p, Assigned(u))
      /\ project' = [project EXCEPT ![p] = new]
      /\ IF Provisions(u) THEN ProvisionChecklists(p) ELSE UNCHANGED <<mobilized, closeout>>
      /\ raced' = [raced EXCEPT ![p] = @ \/ stale]
      /\ update' = [update EXCEPT ![s] = Idle]
      /\ UNCHANGED <<document, updates, decided, postedBlocked>>
  BY <1>1, <1>4, <1>5, <1>6 DEF CommitUpdate
<1>8. /\ new \in Rows
      /\ new.status = IF Target(u) # u.read.status THEN Target(u) ELSE project[p].status
      /\ new.number = IF Assigned(u) # 0 THEN Assigned(u) ELSE project[p].number
      /\ project[p].number # 0 => new.number # 0
      /\ project[p].root # 0 => new.root # 0
  <2>1. project[p] \in Rows /\ u.read \in Rows BY <1>3 DEF RegisterTables, Writes
  <2> QED BY <1>2, <1>3, <1>4, <1>5, <2>1, WrittenRow
<1>9. Provisions(u) => new.number # 0 /\ new.root # 0
  <2>1. project[p] \in Rows /\ u.read \in Rows BY <1>3 DEF RegisterTables, Writes
  <2>2. u.read.root # 0 => project[p].root # 0 BY <1>3, <1>4 DEF WriteOK
  <2>3. u.read.number # 0 => project[p].number # 0 BY <1>3, <1>4 DEF WriteOK
  <2> QED BY <1>2, <1>3, <1>4, <1>5, <2>1, <2>2, <2>3, WrittenRow
<1>10. ~stale => /\ new.launch = project[p].launch
                 /\ project[p].number # 0 => new.number = project[p].number /\ (project[p].root # 0 => new.root = project[p].root)
                 /\ new.status = "completed" => project[p].status = "completed" \/ Completes(u)
  BY <1>2, <1>3, <1>4, <1>5, <1>6, UnracedWrite
<1>11. /\ closeout' \in [Projects -> {None} \cup SUBSET Controls]
       /\ mobilized' \in [Projects -> {"none", "open", "complete"}]
       /\ \A o \in Projects : /\ closeout[o] # None => closeout'[o] = closeout[o]
                              /\ mobilized[o] # "none" => mobilized'[o] = mobilized[o]
       /\ Provisions(u) => closeout'[p] # None /\ mobilized'[p] # "none"
  <2>1. CASE ~Provisions(u) BY <1>7, <2>1 DEF RegisterTables
  <2>2. CASE Provisions(u)
    <3>1. None # {} BY RegisterAssumption
    <3> QED BY <1>7, <2>2, <3>1 DEF RegisterTables, ProvisionChecklists
  <2> QED BY <2>1, <2>2
<1>12. /\ raced' \in [Projects -> BOOLEAN]
       /\ \A o \in Projects : (raced[o] => raced'[o]) /\ (o # p => raced'[o] = raced[o])
       /\ ~raced'[p] => ~raced[p] /\ ~stale
  <2>1. raced \in [Projects -> BOOLEAN] BY DEF RegisterTables
  <2> QED BY <1>7, <2>1
<1>13. RegisterTables' BY <1>7, <1>8, <1>11, <1>12, UpdateShapes DEF RegisterTables
<1>14. \A o \in Projects : project'[o] = IF o = p THEN new ELSE project[o] BY <1>7 DEF RegisterTables
<1>15. ASSUME NEW o \in Projects, CloseoutReady(o) PROVE CloseoutReady(o)'
  <2>1. Controls \in SUBSET Controls OBVIOUS
  <2>2. closeout[o] # None BY <1>15, <2>1, RegisterAssumption DEF CloseoutReady
  <2> QED BY <1>11, <1>15, <2>2 DEF CloseoutReady
<1>16. ASSUME NEW f \in Sessions PROVE UpdateOK(update[f])'
  <2>1. CASE f = s
    <3>1. update'[f] = Idle BY <1>7, <2>1 DEF RegisterTables
    <3> QED BY <3>1, UpdateShapes DEF UpdateOK
  <2>2. CASE f # s
    <3>1. PICK h \in UpdateStates : h = update'[f] /\ UpdateOK(h) BY <1>7, <1>16, <2>2 DEF RegisterTables
    <3>2. h \in Writes => h.p \in Projects BY DEF Writes
    <3>3. h \in Items => h.p \in Projects BY DEF Items
    <3>4. h \in Writes => /\ project[h.p].number # 0 => project'[h.p].number # 0
                          /\ project[h.p].root # 0 => project'[h.p].root # 0
      BY <1>8, <1>14, <3>2
    <3>5. h \in Writes => /\ raced[h.p] => raced'[h.p]
                          /\ CloseoutReady(h.p) => CloseoutReady(h.p)'
      BY <1>12, <1>15, <3>2
    <3>6. h \in Items => (closeout[h.p] # None => closeout'[h.p] # None) BY <1>11, <3>3
    <3>7. UpdateOK(h)' BY <3>1, <3>4, <3>5, <3>6, UpdateKept
    <3> QED BY <3>1, <3>7
  <2> QED BY <2>1, <2>2
<1>17. NumbersUnique'
  <2>1. ASSUME NEW o \in Projects \ {p} PROVE new.number # 0 => project[o].number # new.number
    BY <1>7, <1>8, <2>1 DEF NumbersUnique, NumberFree
  <2> QED BY <1>14, <2>1 DEF NumbersUnique
<1>18. Provisioned'
  <2>1. new.status = "awarded" => Provisions(u) \/ project[p].status = "awarded" BY <1>8 DEF Provisions
  <2>2. ASSUME new.status = "awarded" PROVE new.number # 0 /\ new.root # 0 /\ mobilized'[p] # "none" /\ closeout'[p] # None
    <3>1. CASE Provisions(u) BY <1>9, <1>11, <3>1
    <3>2. CASE project[p].status = "awarded" BY <1>8, <1>11, <3>2 DEF Provisioned
    <3> QED BY <2>1, <2>2, <3>1, <3>2
  <2>3. ASSUME NEW o \in Projects, o # p, project'[o].status = "awarded"
        PROVE  project'[o].number # 0 /\ project'[o].root # 0 /\ mobilized'[o] # "none" /\ closeout'[o] # None
    BY <1>11, <1>14, <2>3 DEF Provisioned
  <2> QED BY <1>14, <2>2, <2>3 DEF Provisioned
<1>19. ReleaseIsDecided'
  <2>1. ASSUME NEW o \in Projects, ~raced'[o]
        PROVE  /\ project'[o].launch = project[o].launch /\ ~raced[o]
               /\ project[o].launch # None => project'[o].number = project[o].number /\ project'[o].root = project[o].root
    <3>1. CASE o # p BY <1>12, <1>14, <2>1, <3>1
    <3>2. CASE o = p
      <4>1. ~raced[o] BY <1>12, <2>1
      <4>2. ASSUME project[p].launch # None PROVE project[p].number # 0 /\ project[p].root # 0
        <5>1. project[p].launch \in Launches BY <4>2 DEF RegisterTables, Rows
        <5>2. Matches(p) BY <4>1, <4>2, <3>2 DEF ReleaseIsDecided
        <5> QED BY <5>1, <5>2, ProjectsAssumption DEF Matches, Launches, Numbers
      <4> QED BY <1>10, <1>12, <1>14, <2>1, <3>2, <4>1, <4>2
    <3> QED BY <3>1, <3>2
  <2> QED BY <1>7, <2>1 DEF ReleaseIsDecided, Matches
<1>20. PostedOnRelease' BY <1>7, <1>12 DEF PostedOnRelease
<1>21. CompletedIsClosedOut'
  <2>1. ASSUME new.status = "completed", ~raced'[p] PROVE CloseoutReady(p)
    BY <1>2, <1>3, <1>4, <1>10, <1>12, <2>1 DEF CompletedIsClosedOut, WriteOK
  <2> QED BY <1>12, <1>14, <1>15, <2>1 DEF CompletedIsClosedOut
<1> QED BY <1>13, <1>16, <1>17, <1>18, <1>19, <1>20, <1>21

\* A closeout control is completed or reopened.
LEMMA CommitItemStep ==
  ASSUME RegisterInv, NEW s \in Sessions, CommitCloseoutItem(s)
  PROVE  RegisterInv'
<1> USE DEF RegisterInv
<1>1. PICK u : u = update[s] OBVIOUS
<1>2. u.at = "item" /\ u \in UpdateStates /\ UpdateOK(u) BY <1>1 DEF CommitCloseoutItem, RegisterTables
<1>3. u \in Items /\ ItemOK(u) BY <1>2, UpdateShapes DEF UpdateOK
<1>4. PICK p \in Projects : p = u.p BY <1>3 DEF Items
<1>5. PICK beside \in BOOLEAN : beside = (u.status # project[p].status \/ Completing(p)) OBVIOUS
<1>6. PICK controls : controls = IF u.done THEN closeout[p] \cup {u.c} ELSE closeout[p] \ {u.c} OBVIOUS
<1>7. /\ closeout' = [closeout EXCEPT ![p] = controls]
      /\ raced' = [raced EXCEPT ![p] = @ \/ beside]
      /\ update' = [update EXCEPT ![s] = Idle]
      /\ UNCHANGED <<project, mobilized, document, updates, decided, postedBlocked>>
  BY <1>1, <1>4, <1>5, <1>6 DEF CommitCloseoutItem
<1>8. closeout[p] \in SUBSET Controls /\ u.c \in Controls BY <1>3, <1>4 DEF RegisterTables, ItemOK, Items
<1>9. controls \in SUBSET Controls /\ controls # None BY <1>6, <1>8, RegisterAssumption
<1>10. /\ raced' \in [Projects -> BOOLEAN]
       /\ \A o \in Projects : (raced[o] => raced'[o]) /\ (o # p => raced'[o] = raced[o])
       /\ ~raced'[p] => ~raced[p] /\ ~beside
       /\ beside => raced'[p]
  <2>1. raced \in [Projects -> BOOLEAN] BY DEF RegisterTables
  <2> QED BY <1>7, <2>1
<1>11. \A o \in Projects : closeout'[o] = IF o = p THEN controls ELSE closeout[o] BY <1>7 DEF RegisterTables
<1>12. RegisterTables' BY <1>7, <1>9, <1>10, UpdateShapes DEF RegisterTables
<1>13. ASSUME NEW f \in Sessions PROVE UpdateOK(update[f])'
  <2>1. CASE f = s
    <3>1. update'[f] = Idle BY <1>7, <2>1 DEF RegisterTables
    <3> QED BY <3>1, UpdateShapes DEF UpdateOK
  <2>2. CASE f # s
    <3>1. PICK h \in UpdateStates : h = update[f] /\ h = update'[f] /\ UpdateOK(h) BY <1>7, <1>13, <2>2 DEF RegisterTables
    <3>2. h \in Writes => h.p \in Projects BY DEF Writes
    <3>3. h \in Items => h.p \in Projects BY DEF Items
    <3>4. ASSUME h \in Writes, h.at = "write", Completes(h), CloseoutReady(h.p) PROVE raced'[h.p] \/ CloseoutReady(h.p)'
      <4>1. CASE h.p = p
        <5>1. Completing(p) BY <1>13, <3>1, <3>4, <4>1 DEF Completing
        <5> QED BY <1>5, <1>10, <4>1, <5>1
      <4>2. CASE h.p # p BY <1>11, <3>2, <3>4, <4>2 DEF CloseoutReady
      <4> QED BY <4>1, <4>2
    <3>5. UpdateOK(h)' BY <1>7, <1>9, <1>10, <1>11, <3>1, <3>2, <3>3, <3>4, UpdateKept
    <3> QED BY <3>1, <3>5
  <2> QED BY <2>1, <2>2
<1>14. NumbersUnique' BY <1>7 DEF NumbersUnique
<1>15. Provisioned' BY <1>7, <1>9, <1>11 DEF Provisioned
<1>16. ReleaseIsDecided' /\ PostedOnRelease' BY <1>7, <1>10 DEF ReleaseIsDecided, PostedOnRelease, Matches
<1>17. CompletedIsClosedOut'
  <2>1. ASSUME project[p].status = "completed", ~raced'[p] PROVE controls = Controls
    <3>1. u.done /\ ~raced[p] BY <1>3, <1>5, <1>10, <2>1 DEF ItemOK
    <3>2. closeout[p] = Controls BY <2>1, <3>1 DEF CompletedIsClosedOut, CloseoutReady
    <3> QED BY <1>6, <1>8, <3>1, <3>2
  <2> QED BY <1>7, <1>10, <1>11, <2>1 DEF CompletedIsClosedOut, CloseoutReady
<1> QED BY <1>12, <1>13, <1>14, <1>15, <1>16, <1>17
-----------------------------------------------------------------------------
\* A step that moves no request, and leaves what requests have read and checked.
LEMMA RequestsRest ==
  ASSUME RegisterInv, UNCHANGED <<update, raced>>,
         \A p \in Projects :
           /\ project[p].number # 0 => project'[p].number # 0
           /\ project[p].root # 0 => project'[p].root # 0
           /\ closeout[p] # None => closeout'[p] = closeout[p]
  PROVE  \A s \in Sessions : UpdateOK(update[s])'
<1> SUFFICES ASSUME NEW s \in Sessions PROVE UpdateOK(update[s])' OBVIOUS
<1>1. PICK h \in UpdateStates : h = update[s] /\ UpdateOK(h) BY DEF RegisterInv, RegisterTables
<1>2. (h \in Writes => h.p \in Projects) /\ (h \in Items => h.p \in Projects) BY DEF Writes, Items
<1>3. h \in Writes => (CloseoutReady(h.p) => CloseoutReady(h.p)')
  <2>1. Controls \in SUBSET Controls OBVIOUS
  <2> QED BY <1>2, <2>1, RegisterAssumption DEF CloseoutReady
<1>4. UpdateOK(h)' BY <1>1, <1>2, <1>3, UpdateKept
<1> QED BY <1>1, <1>4

\* A row is changed, but neither its number and workspace nor its launch, and it is
\* not awarded or completed.
LEMMA RowChanges ==
  ASSUME RegisterInv, NEW p \in Projects, NEW new \in Rows, project' = [project EXCEPT ![p] = new],
         new.number = project[p].number, new.root = project[p].root, new.launch = project[p].launch,
         new.status \in {project[p].status, "archived", "opportunity"},
         UNCHANGED <<closeout, mobilized, document, update, updates, decided, postedBlocked, raced>>
  PROVE  RegisterInv'
<1> USE DEF RegisterInv
<1>1. \A o \in Projects : project'[o] = IF o = p THEN new ELSE project[o] BY DEF RegisterTables
<1>2. RegisterTables' BY DEF RegisterTables
<1>3. (\A s \in Sessions : UpdateOK(update[s]))' BY <1>1, RequestsRest
<1>4. NumbersUnique' BY <1>1 DEF NumbersUnique
<1>5. Provisioned' BY <1>1 DEF Provisioned
<1>6. ReleaseIsDecided' BY <1>1 DEF ReleaseIsDecided, Matches
<1>7. PostedOnRelease' BY DEF PostedOnRelease
<1>8. CompletedIsClosedOut' BY <1>1 DEF CompletedIsClosedOut, CloseoutReady
<1> QED BY <1>2, <1>3, <1>4, <1>5, <1>6, <1>7, <1>8

\* Archive, trash, checklists.
LEMMA RowSteps == RegisterInv /\ RowStep => RegisterInv'
<1> SUFFICES ASSUME RegisterInv, RowStep PROVE RegisterInv' OBVIOUS
<1> USE DEF RegisterInv
<1>1. PICK p \in Projects : \/ ArchiveProject(p) \/ DeleteProject(p) \/ RestoreProject(p) \/ InitializeCloseout(p)
                            \/ \E b \in BOOLEAN : UpdateStartItem(p, b)
  BY DEF RowStep
<1>2. project[p] \in Rows BY DEF RegisterTables
<1>3. CASE ArchiveProject(p) \/ DeleteProject(p) \/ RestoreProject(p)
  <2>1. PICK new : new \in {[project[p] EXCEPT !.status = "archived"], [project[p] EXCEPT !.deleted = TRUE], [project[p] EXCEPT !.deleted = FALSE]}
                   /\ SetRow(p, new)
    BY <1>3 DEF ArchiveProject, DeleteProject, RestoreProject
  <2>2. /\ new \in Rows /\ new.number = project[p].number /\ new.root = project[p].root /\ new.launch = project[p].launch
        /\ new.status \in {project[p].status, "archived"}
    BY <1>2, <2>1 DEF Rows, Statuses
  <2> QED BY <2>1, <2>2, RowChanges DEF SetRow
<1>4. CASE InitializeCloseout(p)
  <2>1. /\ closeout[p] = None /\ closeout' = [closeout EXCEPT ![p] = {}]
        /\ UNCHANGED <<project, mobilized, document, update, updates, decided, postedBlocked, raced>>
    BY <1>4 DEF InitializeCloseout
  <2>2. {} \in SUBSET Controls /\ Controls \in SUBSET Controls /\ None # {} /\ None # Controls
    <3>1. {} \in SUBSET Controls /\ Controls \in SUBSET Controls OBVIOUS
    <3> QED BY <3>1, RegisterAssumption
  <2>3. \A o \in Projects : closeout'[o] = IF o = p THEN {} ELSE closeout[o] BY <2>1 DEF RegisterTables
  <2>4. RegisterTables' BY <2>1, <2>2 DEF RegisterTables
  <2>5. (\A s \in Sessions : UpdateOK(update[s]))' BY <2>1, <2>3, RequestsRest
  <2>6. NumbersUnique' /\ PostedOnRelease' /\ ReleaseIsDecided' BY <2>1 DEF NumbersUnique, PostedOnRelease, ReleaseIsDecided, Matches
  <2>7. Provisioned' BY <2>1, <2>2, <2>3 DEF Provisioned
  <2>8. CompletedIsClosedOut' BY <2>1, <2>2, <2>3 DEF CompletedIsClosedOut, CloseoutReady
  <2> QED BY <2>4, <2>5, <2>6, <2>7, <2>8
<1>5. ASSUME NEW b \in BOOLEAN, UpdateStartItem(p, b) PROVE RegisterInv'
  <2>1. PICK mark \in {"open", "complete"} : mobilized' = [mobilized EXCEPT ![p] = mark] BY <1>5 DEF UpdateStartItem
  <2>2. UNCHANGED <<project, closeout, document, update, updates, decided, postedBlocked, raced>> BY <1>5 DEF UpdateStartItem
  <2>3. RegisterTables' BY <2>1, <2>2 DEF RegisterTables
  <2>4. (\A s \in Sessions : UpdateOK(update[s]))' BY <2>2, RequestsRest
  <2>5. NumbersUnique' /\ PostedOnRelease' /\ ReleaseIsDecided' /\ CompletedIsClosedOut'
    BY <2>2 DEF NumbersUnique, PostedOnRelease, ReleaseIsDecided, Matches, CompletedIsClosedOut, CloseoutReady
  <2>6. Provisioned' BY <2>1, <2>2 DEF Provisioned, RegisterTables
  <2> QED BY <2>3, <2>4, <2>5, <2>6
<1> QED BY <1>1, <1>3, <1>4, <1>5

\* A launch says what was decided, of the project that it is in.
LEMMA LaunchChanges ==
  ASSUME RegisterInv, NEW p \in Projects, NEW launch \in Launches,
         launch.job = project[p].number, launch.root = project[p].root,
         project' = [project EXCEPT ![p].launch = launch], decided' = [decided EXCEPT ![p] = launch.release],
         UNCHANGED <<closeout, mobilized, document, update, updates, postedBlocked, raced>>
  PROVE  RegisterInv'
<1> USE DEF RegisterInv
<1>1. PICK new : new = [project[p] EXCEPT !.launch = launch] OBVIOUS
<1>2. /\ new \in Rows /\ new.number = project[p].number /\ new.root = project[p].root /\ new.launch = launch
      /\ new.status = project[p].status
  BY <1>1, SMTT(30) DEF RegisterTables, Rows
<1>3. project' = [project EXCEPT ![p] = new] BY <1>1
<1>4. \A o \in Projects : project'[o] = IF o = p THEN new ELSE project[o] BY <1>3 DEF RegisterTables
<1>5. launch.release \in {"blocked", "ready"} /\ None # launch /\ None # launch.release BY RegisterAssumption DEF Launches
<1>6. \A o \in Projects : decided'[o] = IF o = p THEN launch.release ELSE decided[o] BY DEF RegisterTables
<1>7. RegisterTables' BY <1>2, <1>3, <1>5 DEF RegisterTables
<1>8. (\A s \in Sessions : UpdateOK(update[s]))' BY <1>2, <1>4, RequestsRest
<1>9. NumbersUnique' BY <1>2, <1>4 DEF NumbersUnique
<1>10. Provisioned' BY <1>2, <1>4 DEF Provisioned
<1>11. ReleaseIsDecided' BY <1>2, <1>4, <1>5, <1>6 DEF ReleaseIsDecided, Matches
<1>12. PostedOnRelease' BY DEF PostedOnRelease
<1>13. CompletedIsClosedOut' BY <1>2, <1>4 DEF CompletedIsClosedOut, CloseoutReady
<1> QED BY <1>7, <1>8, <1>9, <1>10, <1>11, <1>12, <1>13

\* Safety launch and field posting.
LEMMA LaunchSteps == RegisterInv /\ LaunchStep => RegisterInv'
<1> SUFFICES ASSUME RegisterInv, LaunchStep PROVE RegisterInv' OBVIOUS
<1> USE DEF RegisterInv
<1>1. ASSUME NEW p \in Projects, InitializeLaunch(p) PROVE RegisterInv'
  <2>1. PICK launch : launch = [job |-> project[p].number, root |-> project[p].root, release |-> "blocked", evidence |-> "unconfirmed"]
    OBVIOUS
  <2>2. launch \in Launches /\ launch.release = "blocked" /\ launch.job = project[p].number /\ launch.root = project[p].root
    BY <1>1, <2>1 DEF InitializeLaunch, Launches, Evidence, RegisterTables, Rows
  <2> QED BY <1>1, <2>1, <2>2, LaunchChanges DEF InitializeLaunch
<1>2. ASSUME NEW p \in Projects, NEW r \in {"blocked", "ready"}, NEW e \in Evidence, UpdateLaunch(p, r, e) PROVE RegisterInv'
  <2>1. PICK launch : launch = [project[p].launch EXCEPT !.release = r, !.evidence = e] OBVIOUS
  <2>2. project[p].launch \in Launches BY <1>2 DEF UpdateLaunch, RegisterTables, Rows
  <2>3. launch \in Launches /\ launch.release = r /\ launch.job = project[p].launch.job /\ launch.root = project[p].launch.root
    BY <2>1, <2>2 DEF Launches
  <2>4. launch.job = project[p].number /\ launch.root = project[p].root BY <1>2, <2>3 DEF UpdateLaunch, Matches
  <2>5. project' = [project EXCEPT ![p].launch = launch] BY <1>2, <2>1 DEF UpdateLaunch
  <2> QED BY <1>2, <2>3, <2>4, <2>5, LaunchChanges DEF UpdateLaunch
<1>3. ASSUME NEW d \in Documents, ChangeDocument(d) PROVE RegisterInv'
  <2>1. UNCHANGED <<project, closeout, mobilized, update, updates, decided, postedBlocked, raced>> BY <1>3 DEF ChangeDocument
  <2>2. RegisterTables' BY <1>3, <2>1 DEF ChangeDocument, RegisterTables
  <2>3. (\A s \in Sessions : UpdateOK(update[s]))' BY <2>1, RequestsRest
  <2> QED BY <2>1, <2>2, <2>3
       DEF NumbersUnique, Provisioned, PostedOnRelease, ReleaseIsDecided, Matches, CompletedIsClosedOut, CloseoutReady
<1>4. ASSUME NEW p \in Projects, PostProduction(p) PROVE RegisterInv'
  <2>1. UNCHANGED <<project, closeout, mobilized, document, update, updates, decided, raced>> BY <1>4 DEF PostProduction
  <2>2. PICK blocked \in BOOLEAN : blocked = (decided[p] = "blocked") /\ postedBlocked' = [postedBlocked EXCEPT ![p] = @ \/ blocked]
    BY <1>4 DEF PostProduction
  <2>3. postedBlocked \in [Projects -> BOOLEAN] BY DEF RegisterTables
  <2>4. postedBlocked' \in [Projects -> BOOLEAN] /\ \A o \in Projects : o # p => postedBlocked'[o] = postedBlocked[o] BY <2>2, <2>3
  <2>5. ~raced[p] => ~blocked
    BY <1>4, <2>2, RegisterAssumption DEF PostProduction, PostingReady, ReleaseIsDecided
  <2>6. ~raced[p] => ~postedBlocked'[p] BY <2>2, <2>3, <2>5 DEF PostedOnRelease
  <2>7. PostedOnRelease' BY <2>1, <2>4, <2>6 DEF PostedOnRelease
  <2>8. RegisterTables' BY <2>1, <2>4 DEF RegisterTables
  <2>9. (\A s \in Sessions : UpdateOK(update[s]))' BY <2>1, RequestsRest
  <2> QED BY <2>1, <2>7, <2>8, <2>9
       DEF NumbersUnique, Provisioned, ReleaseIsDecided, Matches, CompletedIsClosedOut, CloseoutReady
<1> QED BY <1>1, <1>2, <1>3, <1>4 DEF LaunchStep

-----------------------------------------------------------------------------
\* There are no projects yet.
LEMMA RegisterStart == ProjectsInit => RegisterInv
<1> SUFFICES ASSUME ProjectsInit PROVE RegisterInv OBVIOUS
<1> USE DEF ProjectsInit
<1>1. NoRow \in Rows /\ NoRow.status = "absent" /\ NoRow.number = 0 /\ NoRow.launch = None
  BY DEF NoRow, Rows, Statuses
<1>2. RegisterTables BY <1>1, UpdateShapes, ProjectsAssumption DEF RegisterTables
<1>3. \A s \in Sessions : UpdateOK(update[s]) BY UpdateShapes DEF UpdateOK
<1>4. NumbersUnique /\ Provisioned /\ ReleaseIsDecided /\ CompletedIsClosedOut
  BY <1>1 DEF NumbersUnique, Provisioned, ReleaseIsDecided, CompletedIsClosedOut
<1>5. PostedOnRelease BY DEF PostedOnRelease
<1> QED BY <1>2, <1>3, <1>4, <1>5 DEF RegisterInv

LEMMA UpdateSteps == RegisterInv /\ UpdateStep => RegisterInv'
<1> QED BY RequestSteps, CommitUpdateStep, CommitItemStep DEF UpdateStep

\* Every step keeps the invariant.
LEMMA RegisterStep == RegisterInv /\ [ProjectsNext]_projectsVars => RegisterInv'
<1>1. ASSUME RegisterInv, UNCHANGED projectsVars PROVE RegisterInv'
  <2> USE <1>1 DEF projectsVars, RegisterInv
  <2>1. RegisterTables' BY DEF RegisterTables
  <2>2. (\A s \in Sessions : UpdateOK(update[s]))' BY RequestsRest
  <2> QED BY <2>1, <2>2
       DEF NumbersUnique, Provisioned, PostedOnRelease, ReleaseIsDecided, Matches, CompletedIsClosedOut, CloseoutReady
<1> QED BY <1>1, LaunchSteps, UpdateSteps, RowSteps DEF ProjectsNext

\* The inductive invariant of the register of projects.
THEOREM RegisterInvariant == ProjectsSpec => []RegisterInv
<1> QED BY RegisterStart, RegisterStep, PTL DEF ProjectsSpec

LEMMA RegisterControls == RegisterInv => ProjectsAreControlled
<1> SUFFICES ASSUME RegisterInv PROVE ProjectsAreControlled OBVIOUS
<1> USE DEF RegisterInv
<1>1. AwardedIsProvisioned
  BY DEF NumbersUnique, Provisioned, AwardedIsProvisioned, NumberFree
<1>2. ProjectsTypeOK
  <2>1. ASSUME NEW s \in Sessions, update[s] # Idle
        PROVE  /\ update[s].at \in {"allocate", "write", "item"}
               /\ update[s].p \in Projects
               /\ update[s].at # "item" => update[s].read \in Rows
    <3>1. PICK u : u = update[s] /\ u \in Writes \cup Items BY <2>1 DEF RegisterTables, UpdateStates
    <3>2. u \in Writes => u.at \in {"allocate", "write"} /\ u.p \in Projects /\ u.read \in Rows BY DEF Writes
    <3>3. u \in Items => u.at = "item" /\ u.p \in Projects BY DEF Items
    <3> QED BY <3>1, <3>2, <3>3
  <2> QED BY <2>1 DEF RegisterTables, ProjectsTypeOK
<1> QED BY <1>1, <1>2 DEF ProjectsAreControlled

\* Whatever requests race, awarded projects are provisioned under a number of their
\* own, a launch says what was decided last and production is posted on a release, and
\* what is completed is closed out (services/projects.py, project_safety_launch.py).
THEOREM ProjectsStayControlled == ProjectsSpec => []ProjectsAreControlled
<1> QED BY RegisterControls, RegisterInvariant, PTL

\* What a step leaves of the number and the workspace of a project.
LEMMA NumberStep ==
  ASSUME RegisterInv, ProjectsNext \/ UNCHANGED projectsVars, NEW p \in Projects, project[p].number # 0, ~raced'[p]
  PROVE  project'[p].number = project[p].number /\ (project[p].root # 0 => project'[p].root = project[p].root)
<1> USE DEF RegisterInv, RegisterTables
<1>1. ASSUME NEW s \in Sessions, CommitUpdate(s)
      PROVE  project'[p].number = project[p].number /\ (project[p].root # 0 => project'[p].root = project[p].root)
  <2>1. PICK u : u = update[s] OBVIOUS
  <2>2. u.at = "write" /\ u \in UpdateStates /\ UpdateOK(u) BY <1>1, <2>1 DEF CommitUpdate
  <2>3. u \in Writes /\ WriteOK(u) BY <2>2, UpdateShapes DEF UpdateOK
  <2>4. project' = [project EXCEPT ![u.p] = Written(u)] BY <1>1, <2>1 DEF CommitUpdate
  <2>5. CASE u.p # p BY <2>4, <2>5
  <2>6. CASE u.p = p
    <3>1. PICK stale \in BOOLEAN : stale = (u.read # Loaded(project[p], u.new)) OBVIOUS
    <3>2. raced' = [raced EXCEPT ![p] = @ \/ stale] BY <1>1, <2>1, <2>6, <3>1 DEF CommitUpdate
    <3>3. ~stale BY <3>2
    <3> QED BY <2>2, <2>3, <2>4, <2>6, <3>1, <3>3, UnracedWrite
  <2> QED BY <2>5, <2>6
<1>2. ASSUME NEW o \in Projects, NEW row, SetRow(o, row), row \in {[project[o] EXCEPT !.status = "archived"], [project[o] EXCEPT !.deleted = TRUE], [project[o] EXCEPT !.deleted = FALSE]}
      PROVE  project'[p].number = project[p].number /\ project'[p].root = project[p].root
  <2>1. project[o] \in Rows OBVIOUS
  <2>2. row.number = project[o].number /\ row.root = project[o].root BY <1>2, <2>1 DEF Rows
  <2> QED BY <1>2, <2>2 DEF SetRow
<1>3. ASSUME NEW o \in Projects, NEW launch, project' = [project EXCEPT ![o].launch = launch]
      PROVE  project'[p].number = project[p].number /\ project'[p].root = project[p].root
  <2>1. project[o] \in Rows OBVIOUS
  <2>2. PICK row : row = [project[o] EXCEPT !.launch = launch] OBVIOUS
  <2>3. row.number = project[o].number /\ row.root = project[o].root BY <2>1, <2>2 DEF Rows
  <2>4. project' = [project EXCEPT ![o] = row] BY <1>3, <2>2
  <2> QED BY <2>3, <2>4
<1>4. ASSUME project' = project
      PROVE  project'[p].number = project[p].number /\ project'[p].root = project[p].root
  BY <1>4
<1>5. CASE LaunchStep
  <2>1. project' = project \/ \E o \in Projects : \E launch : project' = [project EXCEPT ![o].launch = launch]
    BY <1>5 DEF LaunchStep, InitializeLaunch, UpdateLaunch, ChangeDocument, PostProduction
  <2> QED BY <1>3, <1>4, <2>1
<1>6. CASE RowStep
  <2>1. \/ project' = project
        \/ \E o \in Projects : \E row \in {[project[o] EXCEPT !.status = "archived"], [project[o] EXCEPT !.deleted = TRUE], [project[o] EXCEPT !.deleted = FALSE]} : SetRow(o, row)
    BY <1>6 DEF RowStep, ArchiveProject, DeleteProject, RestoreProject, InitializeCloseout, UpdateStartItem
  <2> QED BY <1>2, <1>4, <2>1
<1>7. CASE UpdateStep
  <2>1. project' = project \/ \E s \in Sessions : CommitUpdate(s)
    BY <1>7 DEF UpdateStep, CreateProject, BeginUpdate, BeginCloseoutItem, Allocate, NumberTaken, CommitCloseoutItem
  <2> QED BY <1>1, <1>4, <2>1
<1>8. CASE UNCHANGED projectsVars BY <1>4, <1>8 DEF projectsVars
<1> QED BY <1>5, <1>6, <1>7, <1>8 DEF ProjectsNext

\* A job number is permanent: no step changes it or its workspace, but the commit of a
\* request that had read the row before another one changed it.
THEOREM NumbersArePermanent == ProjectsSpec => NumberPermanent
<1>1. RegisterInv /\ [ProjectsNext]_projectsVars =>
        [\A p \in Projects : project[p].number # 0 /\ ~raced'[p] =>
           /\ project'[p].number = project[p].number
           /\ project[p].root # 0 => project'[p].root = project[p].root]_projectsVars
  BY NumberStep
<1> QED BY <1>1, RegisterInvariant, PTL DEF ProjectsSpec, NumberPermanent
-----------------------------------------------------------------------------
\* The quotes

\* No state of a request is taken for another.
LEMMA RequestShapes ==
  /\ Idle \in RequestStates /\ Idle \notin Creations \cup Awarding \cup Again /\ Idle.at = "idle"
  /\ \A r \in Creations : r.at = "create" /\ r \in RequestStates /\ r \notin Awarding /\ r \notin Again /\ r # Idle
  /\ \A r \in Awarding : r.at = "award" /\ r \in RequestStates /\ r \notin Creations /\ r \notin Again /\ r # Idle
  /\ \A r \in Again : r.at = "again" /\ r \in RequestStates /\ r \notin Creations /\ r \notin Awarding /\ r # Idle
  /\ \A r \in RequestStates :
       /\ r.at = "create" => r \in Creations
       /\ r.at = "award" => r \in Awarding
       /\ r.at = "again" => r \in Again
<1>1. \A r \in Creations : r.at = "create" BY DEF Creations
<1>2. \A r \in Awarding : r.at = "award" BY DEF Awarding
<1>3. \A r \in Again : r.at = "again" BY DEF Again
<1>4. Idle.at = "idle" BY DEF Idle
<1> QED BY <1>1, <1>2, <1>3, <1>4 DEF RequestStates

\* There are finitely many quotes, and the next number is one more than there are.
LEMMA Counted ==
  ASSUME QuotesInv
  PROVE  /\ IsFiniteSet(Existing) /\ Cardinality(Existing) \in Nat /\ Cardinality(Existing) <= Cardinality(Quotes)
         /\ Cardinality(Quotes) \in Nat
         /\ NextQuoteNumber = Cardinality(Existing) + 1
<1>1. IsFiniteSet(Quotes) /\ Existing \in SUBSET Quotes BY QuotesAssumption DEF Existing
<1>2. IsFiniteSet(Existing) /\ Cardinality(Existing) \in Nat /\ Cardinality(Existing) <= Cardinality(Quotes) /\ Cardinality(Quotes) \in Nat
  BY <1>1, FS_Subset, FS_CardinalityType
<1>3. CASE Existing = {}
  <2>1. Cardinality(Existing) = 0 BY <1>3, FS_EmptySet
  <2> QED BY <1>2, <1>3, <2>1 DEF NextQuoteNumber
<1>4. CASE Existing # {}
  <2>1. PICK n : n = Cardinality(Existing) OBVIOUS
  <2>2. PICK used : used = {quote[q].number : q \in Existing} OBVIOUS
  <2>3. used = 1..n /\ used # {} /\ n \in Nat BY <1>2, <1>4, <2>1, <2>2 DEF QuotesInv, NumbersUsed
  <2>4. Max(used) \in used /\ \A m \in used : Max(used) >= m BY <2>3, MaxExists
  <2>5. Max(used) = n
    <3>1. n \in 1..n BY <2>3
    <3> QED BY <2>3, <2>4, <3>1
  <2> QED BY <1>2, <1>4, <2>1, <2>2, <2>5 DEF NextQuoteNumber
<1> QED BY <1>2, <1>3, <1>4

\* A request keeps what it holds, while what it is about stays.
LEMMA RequestKept ==
  ASSUME NEW o \in Sessions, NEW r \in RequestStates, RequestOK(o, r),
         Cardinality(Existing) \in Nat, Cardinality(Existing') \in Nat, Cardinality(Existing) <= Cardinality(Existing'),
         r \in Creations => quote'[r.q].status = quote[r.q].status,
         r \in Creations => (r.p # None /\ project[r.p].status # "absent" => project'[r.p].status # "absent"),
         r \in Awarding => (r.q \in Existing => r.q \in Existing') /\ quote'[r.q] = quote[r.q],
         r \in Awarding => view'[o] = view[o] /\ project'[r.p].number = project[r.p].number,
         r \in Again => (r.q \in Existing => r.q \in Existing')
  PROVE  RequestOK(o, r)'
<1>1. CASE r \in Creations
  <2>1. CreationOK(r) BY <1>1 DEF RequestOK
  <2>2. CreationOK(r)' BY <1>1, <2>1 DEF CreationOK
  <2> QED BY <1>1, <2>2, RequestShapes DEF RequestOK
<1>2. CASE r \in Awarding
  <2>1. AwardingOK(o, r) BY <1>2 DEF RequestOK
  <2>2. AwardingOK(o, r)' BY <1>2, <2>1 DEF AwardingOK
  <2> QED BY <1>2, <2>2, RequestShapes DEF RequestOK
<1>3. CASE r \in Again BY <1>3, RequestShapes DEF RequestOK
<1>4. CASE r \notin Creations \cup Awarding \cup Again BY <1>4 DEF RequestOK
<1> QED BY <1>1, <1>2, <1>3, <1>4

\* A step that only moves one request.
LEMMA AskingGoesOn ==
  ASSUME QuotesInv, NEW s \in Sessions, NEW r \in RequestStates, RequestOK(s, r),
         \A o \in Sessions \ {s} :
           /\ r.at = "create" /\ request[o].at = "create" => r.q # request[o].q
           /\ r.at = "award" /\ request[o].at = "award" => r.q # request[o].q /\ r.p # request[o].p,
         request' = [request EXCEPT ![s] = r],
         UNCHANGED <<projectsVars, quote, estimate, contract, view, signed>>
  PROVE  QuotesInv'
<1> USE DEF QuotesInv
<1>1. UNCHANGED <<project, closeout, mobilized, raced>> BY DEF projectsVars
<1>2. Existing' = Existing BY DEF Existing
<1>3. QuoteTables' BY DEF QuoteTables
<1>4. RowsOK' /\ ScreensOK' /\ NumbersUsed' BY <1>1, <1>2 DEF RowsOK, ScreensOK, NumbersUsed
<1>5. ASSUME NEW o \in Sessions PROVE RequestOK(o, request[o])'
  <2>1. PICK h \in RequestStates : h = request'[o] /\ RequestOK(o, h) BY DEF QuoteTables
  <2>2. RequestOK(o, h)' BY <1>1, <1>2, <2>1, RequestKept, Counted
  <2> QED BY <2>1, <2>2
<1>6. RequestsApart' BY DEF RequestsApart, QuoteTables
<1>7. AcceptedAsSeen' /\ IssuedAsApproved' /\ AwardIsComplete' /\ QuoteKeysUnique'
  BY <1>1, <1>2 DEF AcceptedAsSeen, IssuedAsApproved, AwardIsComplete, QuoteKeysUnique
<1> QED BY <1>3, <1>4, <1>5, <1>6, <1>7

\* Creating: what is read, and read again.
LEMMA CreationSteps ==
  ASSUME QuotesInv, NEW s \in Sessions, NEW q \in Quotes,
         \/ \E p \in Projects \cup {None}, t \in Prices : BeginCreateQuote(s, q, p, t)
         \/ \E w \in Workspaces : BeginQuoteEstimate(s, q, w)
         \/ RetryQuote(s)
  PROVE  QuotesInv'
<1> USE DEF QuotesInv
<1>1. PICK n : n = NextQuoteNumber OBVIOUS
<1>2. n \in Nat /\ n \in 1..(Cardinality(Existing) + 1) BY <1>1, Counted
<1>3. ASSUME NEW p \in Projects \cup {None}, NEW t \in Prices, NEW w \in {None} \cup Workspaces, NEW h \in Nat,
             Unclaimed(s, q), p # None => project[p].status # "absent",
             request' = [request EXCEPT ![s] =
               [at |-> "create", q |-> q, p |-> p, total |-> t, number |-> n, source |-> w, hash |-> h]],
             UNCHANGED <<projectsVars, quote, estimate, contract, view, signed>>
      PROVE  QuotesInv'
  <2>1. PICK r : r = [at |-> "create", q |-> q, p |-> p, total |-> t, number |-> n, source |-> w, hash |-> h] OBVIOUS
  <2>2. r \in Creations /\ r.at = "create" /\ r.q = q /\ r.p = p /\ r.number = n BY <1>2, <2>1 DEF Creations
  <2>3. CreationOK(r) BY <1>2, <1>3, <2>2 DEF CreationOK, Unclaimed
  <2>4. RequestOK(s, r) BY <2>2, <2>3, RequestShapes DEF RequestOK
  <2>5. \A o \in Sessions \ {s} : request[o].at = "create" => request[o].q # q
    BY <1>3, RequestShapes DEF Unclaimed
  <2>6. r \in RequestStates BY <2>2, RequestShapes
  <2>7. request' = [request EXCEPT ![s] = r] BY <1>3, <2>1
  <2>8. UNCHANGED <<projectsVars, quote, estimate, contract, view, signed>> BY <1>3
  <2> QED BY <2>2, <2>4, <2>5, <2>6, <2>7, <2>8, AskingGoesOn
<1>4. ASSUME NEW p \in Projects \cup {None}, NEW t \in Prices, BeginCreateQuote(s, q, p, t) PROVE QuotesInv'
  BY <1>1, <1>3, <1>4 DEF BeginCreateQuote
<1>5. ASSUME NEW w \in Workspaces, BeginQuoteEstimate(s, q, w) PROVE QuotesInv'
  <2>1. estimate[w] \in Prices /\ estimate[w] \in Nat BY <1>5, QuotesAssumption DEF BeginQuoteEstimate, QuoteTables
  <2>2. QuoteProject \in Projects BY QuotesAssumption
  <2> QED BY <1>1, <1>3, <1>5, <2>1, <2>2 DEF BeginQuoteEstimate
<1>6. CASE RetryQuote(s)
  <2>1. PICK r : r = request[s] OBVIOUS
  <2>2. r.at = "create" /\ r \in RequestStates /\ RequestOK(s, r) BY <1>6, <2>1 DEF RetryQuote, QuoteTables
  <2>3. r \in Creations /\ CreationOK(r) BY <2>2, RequestShapes DEF RequestOK
  <2>4. PICK next : next = [r EXCEPT !.number = n] OBVIOUS
  <2>5. next \in Creations /\ next.at = "create" /\ next.q = r.q /\ next.p = r.p /\ next.number = n
    BY <1>2, <2>3, <2>4 DEF Creations
  <2>6. CreationOK(next) BY <1>2, <2>3, <2>5 DEF CreationOK
  <2>7. RequestOK(s, next) /\ RequestOK(s, Idle) BY <2>5, <2>6, RequestShapes DEF RequestOK
  <2>8. \A o \in Sessions \ {s} : request[o].at = "create" => request[o].q # r.q BY <2>1, <2>2 DEF RequestsApart
  <2>9. request' = [request EXCEPT ![s] = Idle] \/ request' = [request EXCEPT ![s] = next]
    BY <1>1, <1>6, <2>1, <2>4 DEF RetryQuote
  <2>10. UNCHANGED <<projectsVars, quote, estimate, contract, view, signed>> BY <1>6 DEF RetryQuote
  <2> QED BY <2>5, <2>7, <2>8, <2>9, <2>10, RequestShapes, AskingGoesOn
<1> QED BY <1>4, <1>5, <1>6

\* Accepting, up to the commit.
LEMMA AcceptanceSteps ==
  ASSUME RegisterInv, QuotesInv, NEW s \in Sessions, NEW q \in Quotes,
         BeginAccept(s, q) \/ AcceptFails(s, q) \/ RetryAccept(s)
  PROVE  QuotesInv'
<1> USE DEF QuotesInv
<1>1. CASE BeginAccept(s, q)
  <2>1. PICK p : p = quote[q].p OBVIOUS
  <2>2. q \in Existing /\ p \in Projects BY <1>1, <2>1 DEF BeginAccept, RowsOK
  <2>3. PICK n : n = IF project[p].number = 0 THEN NextJobNumber ELSE project[p].number OBVIOUS
  <2>4. n \in Numbers
    <3>1. project[p] \in Rows BY <2>2 DEF RegisterInv, RegisterTables
    <3>2. project[p].number = 0 => NextJobNumber \in Numbers BY <1>1, <2>1, NextIsNumber DEF BeginAccept, RegisterInv
    <3> QED BY <2>3, <3>1, <3>2 DEF Rows
  <2>5. PICK r : r = [at |-> "award", q |-> q, p |-> p, number |-> n] OBVIOUS
  <2>6. r \in Awarding /\ r.at = "award" /\ r.q = q /\ r.p = p /\ r.number = n BY <2>2, <2>4, <2>5 DEF Awarding
  <2>7. AwardingOK(s, r) BY <1>1, <2>1, <2>2, <2>3, <2>6 DEF AwardingOK, BeginAccept, Accepting, Expected
  <2>8. RequestOK(s, r) BY <2>6, <2>7, RequestShapes DEF RequestOK
  <2>9. \A o \in Sessions \ {s} : request[o].at = "award" => request[o].q # q /\ request[o].p # p
    BY <1>1, <2>1 DEF BeginAccept, Accepting, QuoteLocked, ProjectLocked
  <2>10. request' = [request EXCEPT ![s] = r] /\ UNCHANGED <<projectsVars, quote, estimate, contract, view, signed>>
    BY <1>1, <2>1, <2>3, <2>5 DEF BeginAccept
  <2> QED BY <2>6, <2>8, <2>9, <2>10, RequestShapes, AskingGoesOn
<1>2. CASE AcceptFails(s, q)
  <2>1. RequestOK(s, Idle) BY RequestShapes DEF RequestOK
  <2> QED BY <1>2, <2>1, RequestShapes, AskingGoesOn DEF AcceptFails
<1>3. CASE RetryAccept(s)
  <2>1. PICK r : r = request[s] OBVIOUS
  <2>2. r.at = "award" /\ r \in RequestStates /\ RequestOK(s, r) BY <1>3, <2>1 DEF RetryAccept, QuoteTables
  <2>3. r \in Awarding /\ AwardingOK(s, r) BY <2>2, RequestShapes DEF RequestOK
  <2>4. PICK again : again = [at |-> "again", q |-> r.q] OBVIOUS
  <2>5. again \in Again /\ again.at = "again" /\ again.q \in Existing BY <2>3, <2>4 DEF Again, Awarding, AwardingOK
  <2>6. RequestOK(s, again) BY <2>5, RequestShapes DEF RequestOK
  <2>7. request' = [request EXCEPT ![s] = again] /\ UNCHANGED <<projectsVars, quote, estimate, contract, view, signed>>
    BY <1>3, <2>1, <2>4 DEF RetryAccept
  <2> QED BY <2>5, <2>6, <2>7, RequestShapes, AskingGoesOn
<1> QED BY <1>1, <1>2, <1>3
\* An estimate is saved, which no request has read.
LEMMA EstimateSaved ==
  ASSUME QuotesInv, estimate' \in [Workspaces -> {0} \cup Prices],
         UNCHANGED <<projectsVars, quote, contract, view, request, signed>>
  PROVE  QuotesInv'
<1> USE DEF QuotesInv
<1>1. UNCHANGED <<project, closeout, mobilized, raced>> BY DEF projectsVars
<1>2. Existing' = Existing BY DEF Existing
<1>3. QuoteTables' BY DEF QuoteTables
<1>4. RowsOK' /\ ScreensOK' /\ NumbersUsed' BY <1>1, <1>2 DEF RowsOK, ScreensOK, NumbersUsed
<1>5. ASSUME NEW o \in Sessions PROVE RequestOK(o, request[o])'
  <2>1. PICK r \in RequestStates : r = request[o] /\ RequestOK(o, r) BY DEF QuoteTables
  <2>2. RequestOK(o, r)' BY <1>1, <1>2, <2>1, RequestKept, Counted
  <2> QED BY <2>1, <2>2
<1>6. RequestsApart' BY DEF RequestsApart
<1>7. AcceptedAsSeen' /\ IssuedAsApproved' /\ AwardIsComplete' /\ QuoteKeysUnique'
  BY <1>1, <1>2 DEF AcceptedAsSeen, IssuedAsApproved, AwardIsComplete, QuoteKeysUnique
<1> QED BY <1>3, <1>4, <1>5, <1>6, <1>7

\* A manager loads a quote.
LEMMA ScreenSteps ==
  ASSUME QuotesInv, NEW s \in Sessions, NEW q \in Quotes, ViewQuote(s, q)
  PROVE  QuotesInv'
<1> USE DEF QuotesInv
<1>1. UNCHANGED <<projectsVars, quote, estimate, contract, request, signed>> BY DEF ViewQuote
<1>2. UNCHANGED <<project, closeout, mobilized, raced>> BY <1>1 DEF projectsVars
<1>3. Existing' = Existing BY <1>1 DEF Existing
<1>4. RowsOK' /\ NumbersUsed' BY <1>1, <1>2, <1>3 DEF RowsOK, NumbersUsed
<1>5. PICK screen : screen = [q |-> q, rev |-> quote[q].rev, total |-> quote[q].total] OBVIOUS
<1>6. q \in Existing /\ view' = [view EXCEPT ![s] = screen] /\ request[s] = Idle BY <1>5 DEF ViewQuote
<1>7. screen \in Screens /\ screen.q = q /\ screen.rev = quote[q].rev /\ screen.total = quote[q].total
  BY <1>5, <1>6 DEF Screens, RowsOK
<1>8. QuoteTables' BY <1>1, <1>6, <1>7 DEF QuoteTables
<1>9. quote[q].rev \in Nat BY <1>6, QuotesAssumption DEF RowsOK, Revisions
<1>10. ScreensOK' BY <1>1, <1>3, <1>6, <1>7, <1>9 DEF ScreensOK, QuoteTables
<1>11. ASSUME NEW o \in Sessions PROVE RequestOK(o, request[o])'
  <2>1. PICK h \in RequestStates : h = request[o] /\ h = request'[o] /\ RequestOK(o, h) BY <1>1 DEF QuoteTables
  <2>2. h \in Awarding => view'[o] = view[o] BY <1>6, <2>1, RequestShapes DEF QuoteTables
  <2>3. RequestOK(o, h)' BY <1>1, <1>2, <1>3, <2>1, <2>2, RequestKept, Counted
  <2> QED BY <2>1, <2>3
<1>12. RequestsApart' BY <1>1 DEF RequestsApart
<1>13. AcceptedAsSeen' /\ IssuedAsApproved' /\ AwardIsComplete' /\ QuoteKeysUnique'
  BY <1>1, <1>2, <1>3 DEF AcceptedAsSeen, IssuedAsApproved, AwardIsComplete, QuoteKeysUnique
<1> QED BY <1>4, <1>8, <1>10, <1>11, <1>12, <1>13

\* The row of a quote that nobody accepts is written: its revision goes up.
LEMMA QuoteMoves ==
  ASSUME QuotesInv, NEW q \in Existing, NEW new \in QuoteRows, ~QuoteLocked(q),
         quote' = [quote EXCEPT ![q] = new],
         new.status \in Open \cup Closed, new.rev = quote[q].rev + 1, new.rev \in Revisions, new.total \in Prices,
         new.p = quote[q].p, new.number = quote[q].number, new.source = quote[q].source,
         quote[q].status # "accepted",
         new.issue \in {"approved_for_issue", "issued"} => new.snapshot = new.total,
         contract' \in [Projects -> {0} \cup Prices], \A p \in Projects : p # quote[q].p => contract'[p] = contract[p],
         UNCHANGED <<projectsVars, estimate, view, request, signed>>
  PROVE  QuotesInv'
<1> USE DEF QuotesInv
<1>1. UNCHANGED <<project, closeout, mobilized, raced>> BY DEF projectsVars
<1>2. q \in Quotes BY DEF Existing
<1>3. \A o \in Quotes : quote'[o] = IF o = q THEN new ELSE quote[o] BY DEF QuoteTables
<1>4. Existing' = Existing BY <1>2, <1>3 DEF Existing, Open, Closed
<1>5. Existing \subseteq Quotes BY DEF Existing
<1>6. QuoteTables' BY DEF QuoteTables
<1>7. RowsOK' BY <1>1, <1>3, <1>4, <1>5 DEF RowsOK
<1>8. \A o \in Quotes : quote'[o].number = quote[o].number /\ quote'[o].source = quote[o].source /\ quote'[o].p = quote[o].p
  BY <1>3
<1>9. NumbersUsed'
  <2>1. {quote'[o].number : o \in Existing} = {quote[o].number : o \in Existing} BY <1>5, <1>8
  <2> QED BY <1>4, <2>1 DEF NumbersUsed
<1>10. ScreensOK'
  <2>1. quote[q].rev \in Nat /\ \A o \in Sessions : view[o] # None => view[o].rev \in Nat
    BY QuotesAssumption DEF RowsOK, Revisions, QuoteTables, Screens
  <2> QED BY <1>3, <1>4, <1>5, <2>1 DEF ScreensOK
<1>11. ASSUME NEW o \in Sessions PROVE RequestOK(o, request[o])'
  <2>1. PICK r \in RequestStates : r = request[o] /\ r = request'[o] /\ RequestOK(o, r) BY DEF QuoteTables
  <2>2. r \in Creations => r.q # q /\ r.q \in Quotes BY <2>1 DEF RequestOK, CreationOK, Existing, Creations
  <2>3. r \in Awarding => r.q # q /\ r.q \in Quotes BY <2>1, RequestShapes DEF QuoteLocked, Awarding
  <2>4. RequestOK(o, r)' BY <1>1, <1>3, <1>4, <2>1, <2>2, <2>3, RequestKept, Counted
  <2> QED BY <2>1, <2>4
<1>12. RequestsApart' BY DEF RequestsApart
<1>13. AcceptedAsSeen' BY <1>3, <1>4, <1>5 DEF AcceptedAsSeen, Open, Closed
<1>14. IssuedAsApproved' BY <1>3, <1>4, <1>5 DEF IssuedAsApproved
<1>15. AwardIsComplete'
  <2> SUFFICES ASSUME NEW o \in Existing, quote'[o].status = "accepted"
               PROVE  LET p == quote'[o].p
                          only == \A x \in Existing \ {o} : quote'[x].p # p
                      IN /\ project[p].number # 0 /\ project[p].root # 0
                         /\ mobilized[p] # "none" /\ closeout[p] # None
                         /\ only => contract'[p] = signed[o]
                         /\ only /\ ~raced[p] => project[p].award = o
    BY <1>1, <1>4 DEF AwardIsComplete
  <2>1. o # q /\ o \in Quotes /\ quote'[o] = quote[o] BY <1>3, <1>5 DEF Open, Closed
  <2>2. PICK p \in Projects : p = quote[o].p BY DEF RowsOK
  <2>3. (\A x \in Existing \ {o} : quote'[x].p # p) <=> (\A x \in Existing \ {o} : quote[x].p # p) BY <1>5, <1>8
  <2>4. (\A x \in Existing \ {o} : quote[x].p # p) => contract'[p] = contract[p] BY <2>1
  <2> QED BY <2>1, <2>2, <2>3, <2>4 DEF AwardIsComplete
<1>16. QuoteKeysUnique' BY <1>4, <1>5, <1>8 DEF QuoteKeysUnique
<1> QED BY <1>6, <1>7, <1>9, <1>10, <1>11, <1>12, <1>13, <1>14, <1>15, <1>16

\* Editing, issuing and closing.
LEMMA EditingSteps ==
  ASSUME QuotesInv, NEW s \in Sessions, NEW q \in Quotes,
         \/ \E t \in Prices : UpdateQuote(s, q, t)
         \/ \E c \in Closed : CloseQuote(s, q, c)
         \/ IssueQuote(s, q)
  PROVE  QuotesInv'
<1> USE DEF QuotesInv
<1>1. PICK row : row = quote[q] OBVIOUS
<1>2. Current(s, q) BY DEF UpdateQuote, CloseQuote, IssueQuote
<1>3. q \in Existing /\ ~QuoteLocked(q) /\ row.rev < MaxRevision BY <1>1, <1>2 DEF Current
<1>4. /\ row \in QuoteRows /\ row.rev \in Revisions /\ row.total \in Prices /\ row.p \in Projects
      /\ row.issue \in Issues /\ row.status \in {"accepted"} \cup Open \cup Closed
  BY <1>1, <1>3 DEF QuoteTables, RowsOK, QuoteRows, Existing
<1>5. row.rev + 1 \in Revisions BY <1>3, <1>4, QuotesAssumption DEF Revisions
<1>6. ASSUME NEW t \in Prices, UpdateQuote(s, q, t) PROVE QuotesInv'
  <2>1. PICK status : status = IF row.status \in Closed THEN "draft" ELSE row.status OBVIOUS
  <2>2. status \in Open BY <1>1, <1>4, <1>6, <2>1 DEF UpdateQuote, Editable, Open
  <2>3. PICK new : new = [row EXCEPT !.total = t, !.rev = @ + 1, !.issue = "draft", !.status = status] OBVIOUS
  <2>4. /\ new \in QuoteRows /\ new.status = status /\ new.rev = row.rev + 1 /\ new.total = t
        /\ new.p = row.p /\ new.number = row.number /\ new.source = row.source /\ new.issue = "draft"
    BY <1>4, <1>5, <2>2, <2>3 DEF QuoteRows, Issues
  <2>5. quote' = [quote EXCEPT ![q] = new] /\ contract' = [contract EXCEPT ![row.p] = t]
        /\ UNCHANGED <<projectsVars, estimate, view, request, signed>> /\ row.status # "accepted"
    BY <1>1, <1>6, <2>1, <2>3 DEF UpdateQuote, Editable
  <2>6. contract' \in [Projects -> {0} \cup Prices] /\ \A p \in Projects : p # row.p => contract'[p] = contract[p]
    BY <2>5 DEF QuoteTables
  <2> QED BY <1>1, <1>3, <1>5, <2>2, <2>4, <2>5, <2>6, QuoteMoves
<1>7. ASSUME NEW c \in Closed, CloseQuote(s, q, c) PROVE QuotesInv'
  <2>1. PICK new : new = [row EXCEPT !.status = c, !.rev = @ + 1] OBVIOUS
  <2>2. /\ new \in QuoteRows /\ new.status = c /\ new.rev = row.rev + 1 /\ new.total = row.total
        /\ new.p = row.p /\ new.number = row.number /\ new.source = row.source /\ new.issue = row.issue /\ new.snapshot = row.snapshot
    BY <1>4, <1>5, <2>1 DEF QuoteRows
  <2>3. quote' = [quote EXCEPT ![q] = new] /\ UNCHANGED <<projectsVars, estimate, contract, view, request, signed>> /\ row.status # "accepted"
    <3>1. row.status \in Open /\ UNCHANGED <<projectsVars, estimate, contract, view, request, signed>> BY <1>1, <1>7 DEF CloseQuote
    <3>2. quote' = [quote EXCEPT ![q].status = c, ![q].rev = @ + 1] BY <1>7 DEF CloseQuote
    <3>3. quote' = [quote EXCEPT ![q] = new] BY <1>1, <1>4, <2>1, <3>2 DEF QuoteTables, QuoteRows
    <3> QED BY <3>1, <3>3 DEF Open
  <2>4. contract' \in [Projects -> {0} \cup Prices] BY <2>3 DEF QuoteTables
  <2>5. row.issue \in {"approved_for_issue", "issued"} => row.snapshot = row.total BY <1>1, <1>3 DEF IssuedAsApproved
  <2> QED BY <1>1, <1>3, <1>4, <1>5, <2>2, <2>3, <2>4, <2>5, QuoteMoves
<1>8. CASE IssueQuote(s, q)
  <2>1. row.status \in Open /\ row.issue \in Issues \ {"issued"} BY <1>1, <1>4, <1>8 DEF IssueQuote
  <2>2. PICK step : step = CASE row.issue = "draft" -> [row EXCEPT !.issue = "ready_for_review"]
                            [] row.issue = "ready_for_review" -> [row EXCEPT !.issue = "approved_for_issue", !.snapshot = row.total]
                            [] row.issue = "approved_for_issue" -> [row EXCEPT !.issue = "issued", !.status = "sent"]
    OBVIOUS
  <2>3. quote' = [quote EXCEPT ![q] = [step EXCEPT !.rev = @ + 1]] /\ UNCHANGED <<projectsVars, estimate, contract, view, request, signed>>
    BY <1>1, <1>8, <2>2 DEF IssueQuote
  <2>4. row.issue \in {"approved_for_issue", "issued"} => row.snapshot = row.total BY <1>1, <1>3 DEF IssuedAsApproved
  <2>5. row.total \in {0} \cup Prices BY <1>4
  <2>6. /\ step \in QuoteRows /\ step.status \in Open /\ step.rev = row.rev /\ step.total = row.total
        /\ step.p = row.p /\ step.number = row.number /\ step.source = row.source
        /\ step.issue \in {"approved_for_issue", "issued"} => step.snapshot = step.total
    <3>1. CASE row.issue = "draft"
      <4>1. step = [row EXCEPT !.issue = "ready_for_review"] BY <2>2, <3>1
      <4> QED BY <1>4, <2>1, <4>1 DEF QuoteRows, Issues
    <3>2. CASE row.issue = "ready_for_review"
      <4>1. step = [row EXCEPT !.issue = "approved_for_issue", !.snapshot = row.total] BY <2>2, <3>2
      <4> QED BY <1>4, <2>1, <2>5, <4>1 DEF QuoteRows, Issues
    <3>3. CASE row.issue = "approved_for_issue"
      <4>1. step = [row EXCEPT !.issue = "issued", !.status = "sent"] BY <2>2, <3>3
      <4> QED BY <1>4, <2>4, <3>3, <4>1 DEF QuoteRows, Issues, Open
    <3> QED BY <2>1, <3>1, <3>2, <3>3 DEF Issues
  <2>7. PICK new : new = [step EXCEPT !.rev = @ + 1] OBVIOUS
  <2>8. /\ new \in QuoteRows /\ new.status = step.status /\ new.rev = row.rev + 1 /\ new.total = step.total
        /\ new.p = step.p /\ new.number = step.number /\ new.source = step.source
        /\ new.issue = step.issue /\ new.snapshot = step.snapshot
    BY <1>5, <2>6, <2>7 DEF QuoteRows
  <2>9. contract' \in [Projects -> {0} \cup Prices] BY <2>3 DEF QuoteTables
  <2>10. row.status # "accepted" BY <2>1 DEF Open
  <2> QED BY <1>1, <1>3, <1>4, <1>5, <2>3, <2>6, <2>7, <2>8, <2>9, <2>10, QuoteMoves
<1> QED BY <1>6, <1>7, <1>8
\* A quote is inserted, with its project when it has none.
LEMMA CommitQuoteStep ==
  ASSUME RegisterInv, QuotesInv, NEW s \in Sessions, NEW p \in Projects, CommitQuote(s, p)
  PROVE  RegisterInv' /\ QuotesInv'
<1> USE DEF QuotesInv
<1>1. PICK r : r = request[s] OBVIOUS
<1>2. r.at = "create" /\ r \in RequestStates /\ RequestOK(s, r) BY <1>1 DEF CommitQuote, QuoteTables
<1>3. r \in Creations /\ CreationOK(r) BY <1>2, RequestShapes DEF RequestOK
<1>4. PICK q \in Quotes : q = r.q BY <1>3 DEF Creations
<1>5. PICK new : new = [NoQuote EXCEPT !.status = "draft", !.rev = 1, !.total = r.total, !.p = p,
                          !.number = r.number, !.source = r.source, !.hash = r.hash]
  OBVIOUS
<1>6. /\ new \in QuoteRows /\ new.status = "draft" /\ new.rev = 1 /\ new.rev \in Revisions /\ new.total = r.total /\ new.total \in Prices
      /\ new.p = p /\ new.number = r.number /\ new.source = r.source /\ new.issue = "draft"
  <2>1. NoQuote \in QuoteRows BY DEF NoQuote, QuoteRows, Issues
  <2>2. 1 \in Revisions BY QuotesAssumption DEF Revisions
  <2>3. r.total \in Prices /\ r.number \in Nat /\ r.source \in {None} \cup Workspaces /\ r.hash \in Nat BY <1>3 DEF Creations
  <2>4. new = [status |-> "draft", issue |-> "draft", rev |-> 1, total |-> r.total, p |-> p, number |-> r.number,
               source |-> r.source, hash |-> r.hash, snapshot |-> 0]
    BY <1>5 DEF NoQuote
  <2> QED BY <2>2, <2>3, <2>4 DEF QuoteRows, Issues, Open
<1>7. /\ QuoteKeysFree(r) /\ quote' = [quote EXCEPT ![q] = new] /\ request' = [request EXCEPT ![s] = Idle]
      /\ UNCHANGED <<closeout, mobilized, document, update, updates, decided, postedBlocked, raced, estimate, view, signed>>
      /\ \/ /\ r.p = None /\ project[p].status = "absent" /\ project' = [project EXCEPT ![p].status = "opportunity"]
            /\ contract' = [contract EXCEPT ![p] = r.total]
         \/ r.p # None /\ p = r.p /\ UNCHANGED <<project, contract>>
  BY <1>1, <1>4, <1>5 DEF CommitQuote, NewProject
<1>8. PICK row : row = IF r.p = None THEN [project[p] EXCEPT !.status = "opportunity"] ELSE project[p] OBVIOUS
<1>9. /\ row \in Rows /\ row.status # "absent" /\ row.number = project[p].number /\ row.root = project[p].root
      /\ row.launch = project[p].launch /\ row.award = project[p].award /\ row.status \in {project[p].status, "opportunity"}
  <2>1. project[p] \in Rows BY DEF RegisterInv, RegisterTables
  <2>2. r.p # None => project[p].status # "absent" BY <1>3, <1>7 DEF CreationOK
  <2> QED BY <1>8, <2>1, <2>2 DEF Rows, Statuses
<1>10. project' = [project EXCEPT ![p] = row] BY <1>7, <1>8 DEF RegisterInv, RegisterTables
<1>11. RegisterInv' BY <1>7, <1>9, <1>10, RowChanges
<1>12. \A o \in Projects : project'[o] = IF o = p THEN row ELSE project[o] BY <1>10 DEF RegisterInv, RegisterTables
<1>13. \A o \in Quotes : quote'[o] = IF o = q THEN new ELSE quote[o] BY <1>7 DEF QuoteTables
<1>14. q \notin Existing /\ Existing' = Existing \cup {q} /\ Existing \subseteq Quotes
  BY <1>3, <1>4, <1>6, <1>13 DEF CreationOK, Existing
<1>15. \A o \in Existing : quote'[o] = quote[o] BY <1>13, <1>14
<1>16. Cardinality(Existing') = Cardinality(Existing) + 1 /\ Cardinality(Existing) \in Nat BY <1>14, Counted, FS_AddElement
<1>17. \A o \in Existing : quote[o].number # r.number /\ (r.source # None => quote[o].source # r.source)
  BY <1>7 DEF QuoteKeysFree
<1>18. QuoteTables'
  <2>1. r.total \in Prices BY <1>6
  <2>2. contract' \in [Projects -> {0} \cup Prices] BY <1>7, <2>1 DEF QuoteTables
  <2> QED BY <1>6, <1>7, <2>2, RequestShapes DEF QuoteTables
<1>19. RowsOK' BY <1>6, <1>9, <1>12, <1>13, <1>14, <1>15 DEF RowsOK
<1>20. ScreensOK' BY <1>7, <1>14, <1>15 DEF ScreensOK
<1>21. NumbersUsed'
  <2>1. PICK n : n = Cardinality(Existing) OBVIOUS
  <2>2. PICK used : used = {quote[o].number : o \in Existing} OBVIOUS
  <2>3. used = 1..n /\ n \in Nat BY <1>16, <2>1, <2>2 DEF NumbersUsed
  <2>4. r.number \notin used BY <1>17, <2>2
  <2>5. r.number \in 1..(n + 1) BY <1>3, <2>1 DEF CreationOK
  <2>6. r.number = n + 1 BY <2>3, <2>4, <2>5
  <2>7. {quote'[o].number : o \in Existing'} = used \cup {r.number} BY <1>6, <1>13, <1>14, <1>15, <2>2
  <2>8. used \cup {r.number} = 1..(n + 1) BY <2>3, <2>6
  <2> QED BY <1>16, <2>1, <2>7, <2>8 DEF NumbersUsed
<1>22. ASSUME NEW o \in Sessions PROVE RequestOK(o, request[o])'
  <2>1. CASE o = s
    <3>1. request'[o] = Idle BY <1>7, <2>1 DEF QuoteTables
    <3> QED BY <3>1, RequestShapes DEF RequestOK
  <2>2. CASE o # s
    <3>1. PICK h \in RequestStates : h = request[o] /\ h = request'[o] /\ RequestOK(o, h) BY <1>7, <2>2 DEF QuoteTables
    <3>2. h \in Creations => h.q # q /\ h.q \in Quotes
      <4> SUFFICES ASSUME h \in Creations PROVE h.q # q /\ h.q \in Quotes OBVIOUS
      <4>1. h.at = "create" BY RequestShapes
      <4>2. h.q # r.q BY <1>1, <1>2, <2>2, <3>1, <4>1 DEF RequestsApart
      <4> QED BY <1>4, <4>2 DEF Creations
    <3>3. h \in Creations => (h.p # None /\ project[h.p].status # "absent" => project'[h.p].status # "absent")
      BY <1>9, <1>12 DEF Creations
    <3>4. h \in Awarding => h.q \in Existing /\ h.p \in Projects BY <3>1 DEF RequestOK, AwardingOK, Awarding
    <3>5. h \in Awarding => project'[h.p].number = project[h.p].number BY <1>9, <1>12, <3>4
    <3>6. h \in Creations => quote'[h.q].status = quote[h.q].status BY <1>13, <3>2
    <3>7. h \in Awarding => (h.q \in Existing => h.q \in Existing') /\ quote'[h.q] = quote[h.q] BY <1>14, <1>15, <3>4
    <3>8. view' = view BY <1>7
    <3>9. Cardinality(Existing') \in Nat /\ Cardinality(Existing) <= Cardinality(Existing') BY <1>16
    <3>10. h.q \in Existing => h.q \in Existing' BY <1>14
    <3>11. RequestOK(o, h)' BY <1>16, <3>1, <3>3, <3>5, <3>6, <3>7, <3>8, <3>9, <3>10, RequestKept
    <3> QED BY <3>1, <3>11
  <2> QED BY <2>1, <2>2
<1>23. RequestsApart'
  <2>1. \A o \in Sessions : request'[o] = IF o = s THEN Idle ELSE request[o] BY <1>7 DEF QuoteTables
  <2> QED BY <2>1, RequestShapes DEF RequestsApart
<1>24. AcceptedAsSeen' BY <1>6, <1>7, <1>13, <1>14, <1>15 DEF AcceptedAsSeen
<1>25. IssuedAsApproved' BY <1>6, <1>13, <1>14, <1>15 DEF IssuedAsApproved
<1>26. AwardIsComplete'
  <2> SUFFICES ASSUME NEW o \in Existing, quote[o].status = "accepted", NEW on \in Projects, on = quote[o].p
               PROVE  /\ project'[on].number # 0 /\ project'[on].root # 0
                      /\ mobilized'[on] # "none" /\ closeout'[on] # None
                      /\ (\A x \in Existing' \ {o} : quote'[x].p # on) => contract'[on] = signed'[o]
                      /\ (\A x \in Existing' \ {o} : quote'[x].p # on) /\ ~raced'[on] => project'[on].award = o
    <3>1. \A o \in Existing' : quote'[o].status = "accepted" => o \in Existing /\ quote[o].status = "accepted" /\ quote[o].p \in Projects
                                                            /\ quote'[o].p = quote[o].p
      BY <1>6, <1>13, <1>14, <1>15 DEF RowsOK
    <3> QED BY <3>1 DEF AwardIsComplete
  <2>1. project[on].status # "absent" BY DEF RowsOK
  <2>2. contract'[on] = contract[on] BY <1>7, <2>1 DEF QuoteTables
  <2>3. project'[on].number = project[on].number /\ project'[on].root = project[on].root /\ project'[on].award = project[on].award
    BY <1>9, <1>12
  <2>4. (\A x \in Existing' \ {o} : quote'[x].p # on) => (\A x \in Existing \ {o} : quote[x].p # on) BY <1>14, <1>15
  <2> QED BY <1>7, <2>2, <2>3, <2>4 DEF AwardIsComplete
<1>27. QuoteKeysUnique' BY <1>6, <1>13, <1>14, <1>15, <1>17 DEF QuoteKeysUnique
<1> QED BY <1>11, <1>18, <1>19, <1>20, <1>21, <1>22, <1>23, <1>24, <1>25, <1>26, <1>27
\* The award of a project: it gets a number that is free, or keeps its own.
LEMMA AwardCommits ==
  ASSUME RegisterInv, NEW p \in Projects, NEW n \in Numbers, NumberFree(p, n), project[p].number \in {0, n},
         NEW new \in Rows, project' = [project EXCEPT ![p] = new],
         new.status = "awarded", new.number = n, new.root = IF project[p].root = 0 THEN n ELSE project[p].root,
         new.launch = project[p].launch,
         ProvisionChecklists(p), UNCHANGED <<document, update, updates, decided, postedBlocked, raced>>
  PROVE  /\ RegisterInv' /\ new.root # 0
         /\ mobilized'[p] # "none" /\ closeout'[p] # None
         /\ \A o \in Projects : /\ project'[o] = IF o = p THEN new ELSE project[o]
                                /\ mobilized[o] # "none" => mobilized'[o] # "none"
                                /\ closeout[o] # None => closeout'[o] # None
<1> USE DEF RegisterInv
<1>1. project[p] \in Rows /\ n # 0 BY ProjectsAssumption DEF RegisterTables, Numbers
<1>2. new.root # 0 BY <1>1
<1>3. \A o \in Projects : project'[o] = IF o = p THEN new ELSE project[o] BY DEF RegisterTables
<1>4. None # {} /\ None # Controls
  <2>1. {} \in SUBSET Controls /\ Controls \in SUBSET Controls OBVIOUS
  <2> QED BY <2>1, RegisterAssumption
<1>5. /\ closeout' \in [Projects -> {None} \cup SUBSET Controls]
      /\ mobilized' \in [Projects -> {"none", "open", "complete"}]
      /\ closeout'[p] # None /\ mobilized'[p] # "none"
      /\ \A o \in Projects : /\ closeout[o] # None => closeout'[o] = closeout[o]
                             /\ mobilized[o] # "none" => mobilized'[o] = mobilized[o]
  BY <1>4 DEF RegisterTables, ProvisionChecklists
<1>6. RegisterTables' BY <1>5 DEF RegisterTables
<1>7. (\A s \in Sessions : UpdateOK(update[s]))' BY <1>1, <1>2, <1>3, <1>5, RequestsRest
<1>8. NumbersUnique'
  <2>1. \A o \in Projects \ {p} : project[o].number # n BY DEF NumberFree
  <2> QED BY <1>3, <2>1 DEF NumbersUnique
<1>9. Provisioned' BY <1>1, <1>2, <1>3, <1>5 DEF Provisioned
<1>10. ReleaseIsDecided'
  <2>1. ASSUME ~raced[p], project[p].launch # None PROVE new.number = project[p].number /\ new.root = project[p].root
    <3>1. project[p].launch \in Launches /\ Matches(p) BY <1>1, <2>1 DEF Rows, ReleaseIsDecided
    <3>2. project[p].number # 0 /\ project[p].root # 0 BY <3>1, ProjectsAssumption DEF Launches, Numbers, Matches
    <3> QED BY <3>2
  <2>2. ASSUME NEW o \in Projects, ~raced[o]
        PROVE  /\ project'[o].launch = project[o].launch
               /\ project[o].launch # None => project'[o].number = project[o].number /\ project'[o].root = project[o].root
    BY <1>3, <2>1, <2>2
  <2> QED BY <2>2 DEF ReleaseIsDecided, Matches
<1>11. PostedOnRelease' BY DEF PostedOnRelease
<1>12. CompletedIsClosedOut' BY <1>3, <1>4, <1>5 DEF CompletedIsClosedOut, CloseoutReady
<1> QED BY <1>2, <1>3, <1>5, <1>6, <1>7, <1>8, <1>9, <1>10, <1>11, <1>12

\* An acceptance is committed with the award of its project.
LEMMA CommitAcceptStep ==
  ASSUME RegisterInv, QuotesInv, NEW s \in Sessions, CommitAccept(s)
  PROVE  RegisterInv' /\ QuotesInv'
<1> USE DEF QuotesInv
<1>1. PICK r : r = request[s] OBVIOUS
<1>2. r.at = "award" /\ r \in RequestStates /\ RequestOK(s, r) BY <1>1 DEF CommitAccept, QuoteTables
<1>3. r \in Awarding /\ AwardingOK(s, r) BY <1>2, RequestShapes DEF RequestOK
<1>4. PICK q \in Existing : q = r.q BY <1>3 DEF AwardingOK
<1>5. PICK p \in Projects : p = r.p /\ p = quote[q].p BY <1>3, <1>4 DEF AwardingOK, RowsOK
<1>6. PICK n \in Numbers : n = r.number BY <1>3 DEF Awarding
<1>7. PICK t : t = quote[q].total OBVIOUS
<1>8. PICK old : old = quote[q] OBVIOUS
<1>9. /\ q \in Quotes /\ old \in QuoteRows /\ old.status \in Open /\ old.rev \in Revisions /\ old.rev < MaxRevision /\ t \in Prices /\ t = old.total
      /\ old.p = p
  BY <1>3, <1>4, <1>5, <1>7, <1>8 DEF AwardingOK, QuoteTables, RowsOK, Existing
<1>10. view[s].total = t
  BY <1>3, <1>4, <1>7 DEF AwardingOK, ScreensOK
<1>11. PICK new : new = [old EXCEPT !.status = "accepted", !.rev = @ + 1] OBVIOUS
<1>12. /\ new \in QuoteRows /\ new.status = "accepted" /\ new.rev = old.rev + 1 /\ new.rev \in Revisions /\ new.total = t
       /\ new.p = p /\ new.number = old.number /\ new.source = old.source /\ new.issue = old.issue /\ new.snapshot = old.snapshot
  <2>1. old.rev + 1 \in Revisions BY <1>9, QuotesAssumption DEF Revisions
  <2> QED BY <1>9, <1>11, <2>1 DEF QuoteRows
<1>13. /\ NumberFree(p, n) /\ quote' = [quote EXCEPT ![q].status = "accepted", ![q].rev = @ + 1]
       /\ project' = [project EXCEPT ![p] = [project[p] EXCEPT !.status = "awarded", !.number = n, !.award = q, !.root = IF @ = 0 THEN n ELSE @]]
       /\ contract' = [contract EXCEPT ![p] = t] /\ ProvisionChecklists(p)
       /\ signed' = [signed EXCEPT ![q] = t] /\ request' = [request EXCEPT ![s] = Idle]
       /\ UNCHANGED <<document, update, updates, decided, postedBlocked, raced, estimate, view>>
  BY <1>1, <1>4, <1>5, <1>6, <1>7, <1>10 DEF CommitAccept
<1>14. quote' = [quote EXCEPT ![q] = new] BY <1>8, <1>9, <1>11, <1>13 DEF QuoteTables, QuoteRows
<1>15. project[p].number \in {0, n} BY <1>3, <1>5, <1>6 DEF AwardingOK
<1>16. PICK row : row = [project[p] EXCEPT !.status = "awarded", !.number = n, !.award = q, !.root = IF @ = 0 THEN n ELSE @] OBVIOUS
<1>17. /\ row \in Rows /\ row.status = "awarded" /\ row.number = n /\ row.award = q /\ row.launch = project[p].launch
       /\ row.root = IF project[p].root = 0 THEN n ELSE project[p].root
  <2>1. project[p] \in Rows BY DEF RegisterInv, RegisterTables
  <2>2. PICK root \in {0} \cup Numbers : root = IF project[p].root = 0 THEN n ELSE project[p].root BY <2>1 DEF Rows
  <2>3. row = [project[p] EXCEPT !.status = "awarded", !.number = n, !.award = q, !.root = root] BY <1>16, <2>1, <2>2 DEF Rows
  <2> QED BY <1>9, <2>1, <2>2, <2>3 DEF Rows, Statuses
<1>18. project' = [project EXCEPT ![p] = row] BY <1>13, <1>16
<1>19. /\ RegisterInv' /\ row.root # 0 /\ mobilized'[p] # "none" /\ closeout'[p] # None
       /\ \A o \in Projects : /\ project'[o] = IF o = p THEN row ELSE project[o]
                              /\ mobilized[o] # "none" => mobilized'[o] # "none"
                              /\ closeout[o] # None => closeout'[o] # None
  <2>1. NumberFree(p, n) /\ ProvisionChecklists(p) /\ UNCHANGED <<document, update, updates, decided, postedBlocked, raced>> BY <1>13
  <2> QED BY <1>15, <1>17, <1>18, <2>1, AwardCommits
<1>20. /\ RegisterInv'
       /\ project'[p].status = "awarded" /\ project'[p].number = n /\ project'[p].root # 0 /\ project'[p].award = q
       /\ mobilized'[p] # "none" /\ closeout'[p] # None
       /\ \A o \in Projects : /\ o # p => project'[o] = project[o]
                              /\ mobilized[o] # "none" => mobilized'[o] # "none"
                              /\ closeout[o] # None => closeout'[o] # None
  BY <1>17, <1>19
<1>21. n # 0 BY ProjectsAssumption DEF Numbers
<1>22. \A o \in Quotes : quote'[o] = IF o = q THEN new ELSE quote[o] BY <1>14 DEF QuoteTables
<1>23. Existing' = Existing /\ Existing \subseteq Quotes BY <1>9, <1>12, <1>22 DEF Existing
<1>24. QuoteTables' BY <1>9, <1>12, <1>13, <1>14, RequestShapes DEF QuoteTables
<1>25. \A o \in Quotes : quote'[o].number = quote[o].number /\ quote'[o].source = quote[o].source /\ quote'[o].p = quote[o].p
  BY <1>8, <1>9, <1>12, <1>22
<1>26. RowsOK'
  <2>1. \A o \in Projects : project[o].status # "absent" => project'[o].status # "absent" BY <1>20
  <2>2. ASSUME NEW o \in Existing
        PROVE  quote'[o].rev \in Revisions /\ quote'[o].total \in Prices /\ quote'[o].p \in Projects /\ project'[quote'[o].p].status # "absent"
    <3>1. quote[o].p \in Projects /\ project[quote[o].p].status # "absent" /\ quote'[o].p = quote[o].p BY <1>23, <1>25 DEF RowsOK
    <3>2. project'[quote'[o].p].status # "absent" BY <2>1, <3>1
    <3>3. quote'[o].rev \in Revisions /\ quote'[o].total \in Prices BY <1>9, <1>12, <1>22, <1>23 DEF RowsOK
    <3> QED BY <3>1, <3>2, <3>3
  <2> QED BY <1>23, <2>2 DEF RowsOK
<1>27. ScreensOK'
  <2>1. old.rev \in Nat /\ \A o \in Sessions : view[o] # None => view[o].rev \in Nat
    BY <1>9, QuotesAssumption DEF Revisions, QuoteTables, Screens
  <2>2. ASSUME NEW o \in Sessions, view[o] # None
        PROVE  /\ view[o].rev <= quote'[view[o].q].rev
               /\ view[o].rev = quote'[view[o].q].rev => view[o].total = quote'[view[o].q].total
    <3>1. CASE view[o].q = q BY <1>4, <1>8, <1>12, <1>22, <1>23, <2>1, <2>2, <3>1 DEF ScreensOK
    <3>2. CASE view[o].q # q BY <1>22, <1>23, <2>2, <3>2 DEF ScreensOK
    <3> QED BY <3>1, <3>2
  <2> QED BY <1>13, <1>23, <2>2 DEF ScreensOK
<1>28. NumbersUsed'
  <2>1. {quote'[o].number : o \in Existing} = {quote[o].number : o \in Existing} BY <1>23, <1>25
  <2> QED BY <1>23, <2>1 DEF NumbersUsed
<1>29. ASSUME NEW o \in Sessions PROVE RequestOK(o, request[o])'
  <2>1. CASE o = s
    <3>1. request'[o] = Idle BY <1>13, <2>1 DEF QuoteTables
    <3> QED BY <3>1, RequestShapes DEF RequestOK
  <2>2. CASE o # s
    <3>1. PICK h \in RequestStates : h = request[o] /\ h = request'[o] /\ RequestOK(o, h) BY <1>13, <2>2 DEF QuoteTables
    <3>2. h \in Creations => h.q # q /\ h.q \in Quotes BY <1>4, <3>1 DEF RequestOK, CreationOK, Creations, Existing
    <3>3. h \in Creations => quote'[h.q].status = quote[h.q].status BY <1>22, <3>2
    <3>4. h \in Creations => (h.p # None /\ project[h.p].status # "absent" => project'[h.p].status # "absent") BY <1>20 DEF Creations
    <3>5. h \in Awarding => h.q # q /\ h.p # p /\ h.q \in Quotes /\ h.p \in Projects
      <4> SUFFICES ASSUME h \in Awarding PROVE h.q # q /\ h.p # p /\ h.q \in Quotes /\ h.p \in Projects OBVIOUS
      <4>1. h.at = "award" BY RequestShapes
      <4>2. h.q # r.q /\ h.p # r.p BY <1>1, <1>2, <2>2, <3>1, <4>1 DEF RequestsApart
      <4> QED BY <1>4, <1>5, <4>2 DEF Awarding
    <3>6. h \in Awarding => quote'[h.q] = quote[h.q] /\ project'[h.p] = project[h.p] BY <1>20, <1>22, <3>5
    <3>7. view' = view BY <1>13
    <3>8. RequestOK(o, h)' BY <1>23, <3>1, <3>3, <3>4, <3>6, <3>7, Counted, RequestKept
    <3> QED BY <3>1, <3>8
  <2> QED BY <2>1, <2>2
<1>30. RequestsApart'
  <2>1. \A o \in Sessions : request'[o] = IF o = s THEN Idle ELSE request[o] BY <1>13 DEF QuoteTables
  <2> QED BY <2>1, RequestShapes DEF RequestsApart
<1>31. AcceptedAsSeen'
  <2>1. \A o \in Quotes : signed'[o] = IF o = q THEN t ELSE signed[o] BY <1>13 DEF QuoteTables
  <2> QED BY <1>12, <1>22, <1>23, <2>1 DEF AcceptedAsSeen
<1>32. IssuedAsApproved'
  <2>1. new.issue \in {"approved_for_issue", "issued"} => new.snapshot = new.total BY <1>8, <1>9, <1>12 DEF IssuedAsApproved
  <2> QED BY <1>22, <1>23, <2>1 DEF IssuedAsApproved
<1>33. AwardIsComplete'
  <2> SUFFICES ASSUME NEW o \in Existing, quote'[o].status = "accepted", NEW on \in Projects, on = quote[o].p
               PROVE  /\ project'[on].number # 0 /\ project'[on].root # 0
                      /\ mobilized'[on] # "none" /\ closeout'[on] # None
                      /\ (\A x \in Existing \ {o} : quote[x].p # on) => contract'[on] = signed'[o]
                      /\ (\A x \in Existing \ {o} : quote[x].p # on) /\ ~raced'[on] => project'[on].award = o
    <3>1. \A o \in Existing : quote[o].p \in Projects BY DEF RowsOK
    <3>2. ASSUME NEW o \in Existing
          PROVE  (\A x \in Existing' \ {o} : quote'[x].p # quote'[o].p) <=> (\A x \in Existing \ {o} : quote[x].p # quote[o].p)
      BY <1>23, <1>25, <3>2
    <3> QED BY <1>23, <1>25, <3>1, <3>2 DEF AwardIsComplete
  <2>1. CASE o = q
    <3>1. on = p BY <1>5, <2>1
    <3>2. contract'[p] = t /\ signed'[q] = t BY <1>9, <1>13 DEF QuoteTables
    <3> QED BY <1>20, <1>21, <2>1, <3>1, <3>2
  <2>2. CASE o # q /\ on = p
    <3>1. q \in Existing \ {o} /\ quote[q].p = on BY <1>5, <2>2
    <3> QED BY <1>20, <1>21, <2>2, <3>1
  <2>3. CASE o # q /\ on # p
    <3>1. quote[o].status = "accepted" BY <1>22, <1>23, <2>3
    <3>2. contract'[on] = contract[on] /\ signed'[o] = signed[o] BY <1>13, <1>23, <2>3 DEF QuoteTables
    <3>3. project'[on] = project[on] /\ raced' = raced BY <1>13, <1>20, <2>3
    <3> QED BY <1>20, <3>1, <3>2, <3>3 DEF AwardIsComplete
  <2> QED BY <2>1, <2>2, <2>3
<1>34. QuoteKeysUnique' BY <1>23, <1>25 DEF QuoteKeysUnique
<1> QED BY <1>20, <1>24, <1>26, <1>27, <1>28, <1>29, <1>30, <1>31, <1>32, <1>33, <1>34

\* The projects change, and the quotes do not.
LEMMA ProjectsMove ==
  ASSUME QuotesInv,
         \A p \in Projects :
           /\ project[p].status # "absent" => project'[p].status # "absent"
           /\ project[p].number # 0 => project'[p].number # 0
           /\ project[p].root # 0 => project'[p].root # 0
           /\ mobilized[p] # "none" => mobilized'[p] # "none"
           /\ closeout[p] # None => closeout'[p] # None
           /\ raced[p] => raced'[p]
           /\ ~raced'[p] => \/ project'[p].award = project[p].award
                            \/ project'[p].award \in {q \in Existing : quote[q].p = p},
         \A o \in Sessions : request[o].at = "award" => project'[request[o].p].number = project[request[o].p].number,
         request' \in [Sessions -> RequestStates], \A o \in Sessions : request'[o] \in {request[o], Idle},
         UNCHANGED <<quote, estimate, contract, view, signed>>
  PROVE  QuotesInv'
<1> USE DEF QuotesInv
<1>1. Existing' = Existing BY DEF Existing
<1>2. QuoteTables' BY DEF QuoteTables
<1>3. RowsOK' BY <1>1 DEF RowsOK
<1>4. ScreensOK' /\ NumbersUsed' BY <1>1 DEF ScreensOK, NumbersUsed
<1>5. ASSUME NEW o \in Sessions PROVE RequestOK(o, request[o])'
  <2>1. CASE request'[o] = Idle BY <2>1, RequestShapes DEF RequestOK
  <2>2. CASE request'[o] = request[o]
    <3>1. PICK h \in RequestStates : h = request[o] /\ RequestOK(o, h) BY DEF QuoteTables
    <3>2. h \in Creations => (h.p # None /\ project[h.p].status # "absent" => project'[h.p].status # "absent") BY DEF Creations
    <3>3. h \in Awarding => project'[h.p].number = project[h.p].number BY <3>1, RequestShapes
    <3>4. RequestOK(o, h)' BY <1>1, <3>1, <3>2, <3>3, Counted, RequestKept
    <3> QED BY <2>2, <3>1, <3>4
  <2> QED BY <2>1, <2>2
<1>6. RequestsApart' BY RequestShapes DEF RequestsApart
<1>7. AcceptedAsSeen' /\ IssuedAsApproved' /\ QuoteKeysUnique' BY <1>1 DEF AcceptedAsSeen, IssuedAsApproved, QuoteKeysUnique
<1>8. AwardIsComplete'
  <2> SUFFICES ASSUME NEW q \in Existing, quote[q].status = "accepted", NEW p \in Projects, p = quote[q].p
               PROVE  /\ project'[p].number # 0 /\ project'[p].root # 0
                      /\ mobilized'[p] # "none" /\ closeout'[p] # None
                      /\ (\A o \in Existing \ {q} : quote[o].p # p) => contract[p] = signed[q]
                      /\ (\A o \in Existing \ {q} : quote[o].p # p) /\ ~raced'[p] => project'[p].award = q
    BY <1>1 DEF AwardIsComplete, RowsOK
  <2>1. /\ project[p].number # 0 /\ project[p].root # 0 /\ mobilized[p] # "none" /\ closeout[p] # None
        /\ (\A o \in Existing \ {q} : quote[o].p # p) => contract[p] = signed[q]
        /\ (\A o \in Existing \ {q} : quote[o].p # p) /\ ~raced[p] => project[p].award = q
    BY DEF AwardIsComplete
  <2> QED BY <2>1
<1> QED BY <1>2, <1>3, <1>4, <1>5, <1>6, <1>7, <1>8

\* An acceptance is repeated.
LEMMA RepeatStep ==
  ASSUME RegisterInv, QuotesInv, NEW s \in Sessions, NEW q \in Quotes, RepeatAccept(s, q)
  PROVE  RegisterInv' /\ QuotesInv'
<1>1. PICK p \in Projects : p = quote[q].p /\ q \in Existing BY DEF RepeatAccept, QuotesInv, RowsOK
<1>2. /\ ~ProjectLocked(p) /\ project' = [project EXCEPT ![p].award = q] /\ request' = [request EXCEPT ![s] = Idle]
      /\ UNCHANGED <<closeout, mobilized, document, update, updates, decided, postedBlocked, raced>>
      /\ UNCHANGED <<quote, estimate, contract, view, signed>>
  BY <1>1 DEF RepeatAccept, Accepting
<1>3. project[p] \in Rows BY DEF RegisterInv, RegisterTables
<1>4. PICK new : new = [project[p] EXCEPT !.award = q] OBVIOUS
<1>5. /\ new \in Rows /\ new.award = q /\ new.number = project[p].number /\ new.root = project[p].root
      /\ new.launch = project[p].launch /\ new.status = project[p].status
  BY <1>3, <1>4 DEF Rows
<1>6. project' = [project EXCEPT ![p] = new] BY <1>2, <1>4
<1>7. RegisterInv' BY <1>2, <1>5, <1>6, RowChanges
<1>8. \A o \in Projects : project'[o] = IF o = p THEN new ELSE project[o] BY <1>6 DEF RegisterInv, RegisterTables
<1>9. request' \in [Sessions -> RequestStates] /\ \A o \in Sessions : request'[o] \in {request[o], Idle}
  BY <1>2, RequestShapes DEF QuotesInv, QuoteTables
<1>10. \A o \in Sessions : request[o].at = "award" => request[o].p \in Projects
  BY RequestShapes DEF QuotesInv, QuoteTables, Awarding
<1>11. QuotesInv' BY <1>1, <1>2, <1>5, <1>8, <1>9, <1>10, ProjectsMove
<1> QED BY <1>7, <1>11

\* What a request on projects leaves.
LEMMA UpdatesOnlyAdd ==
  ASSUME RegisterInv, UpdateStep \/ \E o \in Projects : ArchiveProject(o), NEW p \in Projects
  PROVE  /\ project[p].status # "absent" => project'[p].status # "absent"
         /\ project[p].number # 0 => project'[p].number # 0
         /\ project[p].root # 0 => project'[p].root # 0
         /\ mobilized[p] # "none" => mobilized'[p] # "none"
         /\ closeout[p] # None => closeout'[p] # None
         /\ raced[p] => raced'[p]
         /\ ~raced'[p] => project'[p].award = project[p].award
<1> USE DEF RegisterInv, RegisterTables
<1>1. ASSUME NEW s \in Sessions, CommitUpdate(s)
      PROVE  /\ project[p].status # "absent" => project'[p].status # "absent"
             /\ project[p].number # 0 => project'[p].number # 0
             /\ project[p].root # 0 => project'[p].root # 0
             /\ mobilized[p] # "none" => mobilized'[p] # "none"
             /\ closeout[p] # None => closeout'[p] # None
             /\ raced[p] => raced'[p]
             /\ ~raced'[p] => project'[p].award = project[p].award
  <2>1. PICK u : u = update[s] OBVIOUS
  <2>2. u.at = "write" /\ u \in UpdateStates /\ UpdateOK(u) BY <1>1, <2>1 DEF CommitUpdate
  <2>3. u \in Writes /\ WriteOK(u) BY <2>2, UpdateShapes DEF UpdateOK
  <2>4. PICK o \in Projects : o = u.p BY <2>3 DEF Writes
  <2>5. PICK new : new = Written(u) OBVIOUS
  <2>6. PICK stale \in BOOLEAN : stale = (u.read # Loaded(project[o], u.new)) OBVIOUS
  <2>7. /\ project' = [project EXCEPT ![o] = new] /\ raced' = [raced EXCEPT ![o] = @ \/ stale]
        /\ IF Provisions(u) THEN ProvisionChecklists(o) ELSE UNCHANGED <<mobilized, closeout>>
    BY <1>1, <2>1, <2>4, <2>5, <2>6 DEF CommitUpdate
  <2>8. /\ project[o].number # 0 => new.number # 0
        /\ project[o].root # 0 => new.root # 0
        /\ project[o].status # "absent" => new.status # "absent"
        /\ ~stale => new.award = project[o].award
    <3>1. project[o] \in Rows /\ u.read \in Rows /\ u.new \in ChangeSet BY <2>3 DEF Writes
    <3>2. Target(u) # u.read.status => Target(u) # "absent" BY <3>1 DEF Target, ChangeSet
    <3>3. project[o].number # 0 => new.number # 0 BY <2>2, <2>3, <2>4, <2>5, <3>1, WrittenRow
    <3>4. project[o].root # 0 => new.root # 0 BY <2>2, <2>3, <2>4, <2>5, <3>1, WrittenRow
    <3>5. project[o].status # "absent" => new.status # "absent" BY <2>2, <2>3, <2>4, <2>5, <3>2, WrittenRow
    <3>6. ~stale => new.award = project[o].award BY <2>2, <2>3, <2>4, <2>5, <2>6, UnracedWrite
    <3> QED BY <3>3, <3>4, <3>5, <3>6
  <2>9. (mobilized[p] # "none" => mobilized'[p] # "none") /\ (closeout[p] # None => closeout'[p] # None)
    BY <2>7 DEF ProvisionChecklists
  <2>10. CASE p # o BY <2>7, <2>9, <2>10
  <2>11. CASE p = o
    <3>1. raced'[p] <=> raced[p] \/ stale BY <2>7, <2>11
    <3> QED BY <2>7, <2>8, <2>9, <2>11, <3>1
  <2> QED BY <2>10, <2>11
<1>2. ASSUME NEW o \in Projects, ArchiveProject(o)
      PROVE  /\ project'[p].status # "absent" \/ project'[p].status = project[p].status
             /\ project'[p].number = project[p].number /\ project'[p].root = project[p].root /\ project'[p].award = project[p].award
             /\ UNCHANGED <<mobilized, closeout, raced>>
  <2>1. PICK new : new = [project[o] EXCEPT !.status = "archived"] OBVIOUS
  <2>2. project[o] \in Rows OBVIOUS
  <2>3. new.status = "archived" /\ new.number = project[o].number /\ new.root = project[o].root /\ new.award = project[o].award
    BY <2>1, <2>2 DEF Rows
  <2>4. project' = [project EXCEPT ![o] = new] /\ UNCHANGED <<mobilized, closeout, raced>> BY <1>2, <2>1 DEF ArchiveProject, SetRow
  <2> QED BY <2>3, <2>4
<1>3. ASSUME NEW s \in Sessions, CommitCloseoutItem(s)
      PROVE  /\ UNCHANGED <<project, mobilized>> /\ (raced[p] => raced'[p])
             /\ closeout[p] # None => closeout'[p] # None
  <2>1. PICK u : u = update[s] OBVIOUS
  <2>2. u.at = "item" /\ u \in UpdateStates /\ UpdateOK(u) BY <1>3, <2>1 DEF CommitCloseoutItem
  <2>3. u \in Items /\ ItemOK(u) BY <2>2, UpdateShapes DEF UpdateOK
  <2>4. PICK controls : controls = IF u.done THEN closeout[u.p] \cup {u.c} ELSE closeout[u.p] \ {u.c} OBVIOUS
  <2>5. closeout[u.p] \in SUBSET Controls /\ u.c \in Controls BY <2>3 DEF ItemOK, Items
  <2>6. controls # None
    <3>1. controls \in SUBSET Controls BY <2>4, <2>5
    <3> QED BY <3>1, RegisterAssumption
  <2>7. closeout' = [closeout EXCEPT ![u.p] = controls] /\ UNCHANGED <<project, mobilized>> BY <1>3, <2>1, <2>4 DEF CommitCloseoutItem
  <2>8. PICK beside \in BOOLEAN : raced' = [raced EXCEPT ![u.p] = @ \/ beside] BY <1>3, <2>1 DEF CommitCloseoutItem
  <2>9. raced[p] => raced'[p] BY <2>8
  <2> QED BY <2>6, <2>7, <2>9
<1>4. CASE UNCHANGED <<project, mobilized, closeout, raced>> BY <1>4
<1>5. \/ UNCHANGED <<project, mobilized, closeout, raced>>
      \/ \E s \in Sessions : CommitUpdate(s) \/ CommitCloseoutItem(s)
      \/ \E o \in Projects : ArchiveProject(o)
  <2>1. ASSUME NEW s \in Sessions, NEW o \in Projects, NEW c \in Changes, CreateProject(s, o, c) \/ BeginUpdate(s, o, c)
        PROVE  UNCHANGED <<project, mobilized, closeout, raced>>
    BY <2>1 DEF CreateProject, BeginUpdate
  <2>2. ASSUME NEW s \in Sessions, NEW o \in Projects, NEW c \in Controls, NEW b \in BOOLEAN, BeginCloseoutItem(s, o, c, b)
        PROVE  UNCHANGED <<project, mobilized, closeout, raced>>
    BY <2>2 DEF BeginCloseoutItem
  <2>3. ASSUME NEW s \in Sessions, Allocate(s) \/ NumberTaken(s) PROVE UNCHANGED <<project, mobilized, closeout, raced>>
    BY <2>3 DEF Allocate, NumberTaken
  <2>4. UpdateStep \/ \E o \in Projects : ArchiveProject(o) OBVIOUS
  <2> QED BY <2>1, <2>2, <2>3, <2>4 DEF UpdateStep
<1> QED BY <1>1, <1>2, <1>3, <1>4, <1>5

\* Requests on projects, beside the quotes.
LEMMA ProjectSteps ==
  ASSUME RegisterInv, QuotesInv, ProjectStep
  PROVE  RegisterInv' /\ QuotesInv'
<1>1. ASSUME UpdateStep PROVE RegisterInv' BY <1>1, UpdateSteps
<1>2. ASSUME NEW p \in Projects, ArchiveProject(p) PROVE RegisterInv' BY <1>2, RowSteps DEF RowStep
<1>3. RegisterInv' BY <1>1, <1>2 DEF ProjectStep
<1>4. UNCHANGED <<quote, estimate, contract, view, request, signed>> BY DEF ProjectStep, quoteVars
<1>5. \A o \in Sessions : request[o].at = "award" => project'[request[o].p] = project[request[o].p]
  <2> SUFFICES ASSUME NEW o \in Sessions, request[o].at = "award" PROVE project'[request[o].p] = project[request[o].p] OBVIOUS
  <2>1. request[o].p \in Projects BY RequestShapes DEF QuotesInv, QuoteTables, Awarding
  <2>2. ProjectLocked(request[o].p) BY DEF ProjectLocked
  <2> QED BY <2>1, <2>2 DEF ProjectStep
<1>6. request' \in [Sessions -> RequestStates] /\ \A o \in Sessions : request'[o] \in {request[o], Idle}
  BY <1>4 DEF QuotesInv, QuoteTables
<1>7. \A p \in Projects :
         /\ project[p].status # "absent" => project'[p].status # "absent"
         /\ project[p].number # 0 => project'[p].number # 0
         /\ project[p].root # 0 => project'[p].root # 0
         /\ mobilized[p] # "none" => mobilized'[p] # "none"
         /\ closeout[p] # None => closeout'[p] # None
         /\ raced[p] => raced'[p]
         /\ ~raced'[p] => project'[p].award = project[p].award
  BY UpdatesOnlyAdd DEF ProjectStep
<1>8. QuotesInv' BY <1>4, <1>5, <1>6, <1>7, ProjectsMove
<1> QED BY <1>3, <1>8

-----------------------------------------------------------------------------
\* There are no quotes yet.
LEMMA QuotesStart == QuotesInit => RegisterInv /\ QuotesInv
<1> SUFFICES ASSUME QuotesInit PROVE RegisterInv /\ QuotesInv OBVIOUS
<1>1. RegisterInv BY RegisterStart DEF QuotesInit
<1> USE DEF QuotesInit
<1>2. NoQuote \in QuoteRows /\ NoQuote.status = "absent" BY DEF NoQuote, QuoteRows, Issues
<1>3. Existing = {} BY <1>2 DEF Existing
<1>4. QuoteTables BY <1>2, RequestShapes DEF QuoteTables
<1>5. RowsOK /\ ScreensOK BY <1>3 DEF RowsOK, ScreensOK
<1>6. NumbersUsed
  <2>1. Cardinality(Existing) = 0 BY <1>3, FS_EmptySet
  <2>2. {quote[q].number : q \in Existing} = {} BY <1>3
  <2>3. 1..0 = {} OBVIOUS
  <2> QED BY <2>1, <2>2, <2>3 DEF NumbersUsed
<1>7. \A s \in Sessions : RequestOK(s, request[s]) BY RequestShapes DEF RequestOK
<1>8. RequestsApart BY RequestShapes DEF RequestsApart
<1>9. AcceptedAsSeen /\ IssuedAsApproved /\ AwardIsComplete /\ QuoteKeysUnique
  BY <1>3 DEF AcceptedAsSeen, IssuedAsApproved, AwardIsComplete, QuoteKeysUnique
<1> QED BY <1>1, <1>4, <1>5, <1>6, <1>7, <1>8, <1>9 DEF QuotesInv

\* A step that leaves the projects alone.
LEMMA RegisterRests == RegisterInv /\ UNCHANGED projectsVars => RegisterInv'
<1> QED BY RegisterStep

\* Every step keeps both invariants.
LEMMA QuotesStep == RegisterInv /\ QuotesInv /\ [QuotesNext]_<<projectsVars, quoteVars>> => RegisterInv' /\ QuotesInv'
<1> SUFFICES ASSUME RegisterInv, QuotesInv, [QuotesNext]_<<projectsVars, quoteVars>> PROVE RegisterInv' /\ QuotesInv' OBVIOUS
<1>1. ASSUME NEW s \in Sessions, NEW q \in Quotes,
             \/ \E p \in Projects \cup {None}, t \in Prices : BeginCreateQuote(s, q, p, t)
             \/ \E w \in Workspaces : BeginQuoteEstimate(s, q, w)
      PROVE  RegisterInv' /\ QuotesInv'
  <2>1. UNCHANGED projectsVars BY <1>1 DEF BeginCreateQuote, BeginQuoteEstimate
  <2> QED BY <1>1, <2>1, CreationSteps, RegisterRests
<1>2. ASSUME NEW s \in Sessions, RetryQuote(s) PROVE RegisterInv' /\ QuotesInv'
  <2>1. UNCHANGED projectsVars BY <1>2 DEF RetryQuote
  <2>2. PICK r : r = request[s] /\ r \in RequestStates /\ r.at = "create" BY <1>2 DEF RetryQuote, QuotesInv, QuoteTables
  <2>3. r.q \in Quotes BY <2>2, RequestShapes DEF Creations
  <2> QED BY <1>2, <2>1, <2>3, CreationSteps, RegisterRests
<1>3. ASSUME NEW s \in Sessions, NEW q \in Quotes, BeginAccept(s, q) \/ AcceptFails(s, q) PROVE RegisterInv' /\ QuotesInv'
  <2>1. UNCHANGED projectsVars BY <1>3 DEF BeginAccept, AcceptFails
  <2> QED BY <1>3, <2>1, AcceptanceSteps, RegisterRests
<1>4. ASSUME NEW s \in Sessions, RetryAccept(s) PROVE RegisterInv' /\ QuotesInv'
  <2>1. UNCHANGED projectsVars BY <1>4 DEF RetryAccept
  <2>2. PICK r : r = request[s] /\ r \in RequestStates /\ r.at = "award" BY <1>4 DEF RetryAccept, QuotesInv, QuoteTables
  <2>3. r.q \in Quotes BY <2>2, RequestShapes DEF Awarding
  <2> QED BY <1>4, <2>1, <2>3, AcceptanceSteps, RegisterRests
<1>5. ASSUME NEW s \in Sessions, NEW q \in Quotes,
             \/ \E t \in Prices : UpdateQuote(s, q, t)
             \/ \E c \in Closed : CloseQuote(s, q, c)
             \/ IssueQuote(s, q)
      PROVE  RegisterInv' /\ QuotesInv'
  <2>1. UNCHANGED projectsVars BY <1>5 DEF UpdateQuote, CloseQuote, IssueQuote
  <2> QED BY <1>5, <2>1, EditingSteps, RegisterRests
<1>6. ASSUME NEW s \in Sessions, NEW q \in Quotes, ViewQuote(s, q) PROVE RegisterInv' /\ QuotesInv'
  <2>1. UNCHANGED projectsVars BY <1>6 DEF ViewQuote
  <2> QED BY <1>6, <2>1, ScreenSteps, RegisterRests
<1>7. ASSUME NEW w \in Workspaces, NEW h \in Prices, SaveEstimate(w, h) PROVE RegisterInv' /\ QuotesInv'
  <2>1. UNCHANGED <<projectsVars, quote, contract, view, request, signed>> BY <1>7 DEF SaveEstimate
  <2>2. estimate' \in [Workspaces -> {0} \cup Prices] BY <1>7 DEF SaveEstimate, QuotesInv, QuoteTables
  <2>3. QuotesInv' BY <2>1, <2>2, EstimateSaved
  <2> QED BY <2>1, <2>3, RegisterRests
<1>8. ASSUME UNCHANGED <<projectsVars, quoteVars>> PROVE RegisterInv' /\ QuotesInv'
  <2>1. UNCHANGED <<projectsVars, quote, contract, view, request, signed, estimate>> BY <1>8 DEF quoteVars
  <2>2. estimate' \in [Workspaces -> {0} \cup Prices] BY <2>1 DEF QuotesInv, QuoteTables
  <2>3. QuotesInv' BY <2>1, <2>2, EstimateSaved
  <2> QED BY <2>1, <2>3, RegisterRests
<1>9. ASSUME NEW s \in Sessions, NEW q \in Quotes, RepeatAccept(s, q) PROVE RegisterInv' /\ QuotesInv' BY <1>9, RepeatStep
<1>10. ASSUME NEW s \in Sessions, NEW p \in Projects, CommitQuote(s, p) PROVE RegisterInv' /\ QuotesInv' BY <1>10, CommitQuoteStep
<1>11. ASSUME NEW s \in Sessions, CommitAccept(s) PROVE RegisterInv' /\ QuotesInv' BY <1>11, CommitAcceptStep
<1>12. ASSUME ProjectStep PROVE RegisterInv' /\ QuotesInv' BY <1>12, ProjectSteps
<1> QED BY <1>1, <1>2, <1>3, <1>4, <1>5, <1>6, <1>7, <1>8, <1>9, <1>10, <1>11, <1>12 DEF QuotesNext

\* The inductive invariant of the quotes, with that of the register they award in.
THEOREM QuotesInvariant == QuotesSpec => [](RegisterInv /\ QuotesInv)
<1> QED BY QuotesStart, QuotesStep, PTL DEF QuotesSpec

\* The types follow.
LEMMA QuotesTyped == QuotesInv => QuotesTypeOK
<1> SUFFICES ASSUME QuotesInv PROVE QuotesTypeOK OBVIOUS
<1>1. ASSUME NEW q \in Existing
      PROVE  /\ quote[q].status \in Open \cup Closed \cup {"accepted"}
             /\ quote[q].issue \in Issues /\ quote[q].rev \in Revisions
             /\ quote[q].total \in Prices /\ quote[q].p \in Projects
             /\ quote[q].source \in {None} \cup Workspaces
  BY DEF QuotesInv, QuoteTables, QuoteRows, RowsOK, Existing
<1>2. ASSUME NEW q \in Existing PROVE quote[q].number \in QuoteNumbers
  <2>1. quote[q].number \in {quote[o].number : o \in Existing} OBVIOUS
  <2>2. quote[q].number \in 1..Cardinality(Existing) BY <2>1 DEF QuotesInv, NumbersUsed
  <2> QED BY <2>2, Counted DEF QuoteNumbers
<1> QED BY <1>1, <1>2 DEF QuotesTypeOK, QuotesInv, QuoteTables

\* Whatever requests race or are repeated, an accepted quote has the total its client
\* saw, an issued one is as it was approved, and an award is whole; numbers and
\* estimates are not shared (services/customer_quotes.py).
THEOREM QuotesStayKept == QuotesSpec => []QuotesAreKept
<1>1. QuotesInv => QuotesAreKept BY QuotesTyped DEF QuotesAreKept, QuotesInv
<1> QED BY <1>1, QuotesInvariant, PTL

\* The same beside the quotes, whose acceptances award.
THEOREM AwardsStayControlled == QuotesSpec => []ProjectsAreControlled
<1> QED BY RegisterControls, QuotesInvariant, PTL

\* What a step of the quotes leaves of the number and the workspace of a project.
LEMMA AwardNumberStep ==
  ASSUME RegisterInv, QuotesInv, [QuotesNext]_<<projectsVars, quoteVars>>,
         NEW p \in Projects, project[p].number # 0, ~raced'[p]
  PROVE  project'[p].number = project[p].number /\ (project[p].root # 0 => project'[p].root = project[p].root)
<1>1. ASSUME NEW o \in Projects, NEW row, project' = [project EXCEPT ![o] = row],
             project[o].number # 0 => row.number = project[o].number,
             project[o].root # 0 => row.root = project[o].root
      PROVE  project'[p].number = project[p].number /\ (project[p].root # 0 => project'[p].root = project[p].root)
  BY <1>1 DEF RegisterInv, RegisterTables
<1>2. \A o \in Projects : project[o] \in Rows BY DEF RegisterInv, RegisterTables
<1>3. CASE UNCHANGED project BY <1>3
<1>4. ASSUME NEW s \in Sessions, CommitAccept(s)
      PROVE  project'[p].number = project[p].number /\ (project[p].root # 0 => project'[p].root = project[p].root)
  <2>1. PICK r : r = request[s] OBVIOUS
  <2>2. r.at = "award" /\ r \in RequestStates /\ RequestOK(s, r) BY <1>4, <2>1 DEF CommitAccept, QuotesInv, QuoteTables
  <2>3. r \in Awarding /\ AwardingOK(s, r) BY <2>2, RequestShapes DEF RequestOK
  <2>4. PICK o \in Projects : o = r.p BY <2>3 DEF AwardingOK, QuotesInv, RowsOK
  <2>5. PICK old \in Rows : old = project[o] BY <1>2
  <2>6. PICK row : row = [old EXCEPT !.status = "awarded", !.number = r.number, !.award = r.q, !.root = IF @ = 0 THEN r.number ELSE @] OBVIOUS
  <2>7. project' = [project EXCEPT ![o] = row] BY <1>4, <2>1, <2>4, <2>5, <2>6 DEF CommitAccept
  <2>8. row.number = r.number /\ row.root = IF old.root = 0 THEN r.number ELSE old.root BY <2>6 DEF Rows
  <2>9. old.number \in {0, r.number} BY <2>3, <2>4, <2>5 DEF AwardingOK
  <2> QED BY <1>1, <2>5, <2>7, <2>8, <2>9
<1>5. ASSUME NEW s \in Sessions, NEW o \in Projects, CommitQuote(s, o)
      PROVE  project'[p].number = project[p].number /\ (project[p].root # 0 => project'[p].root = project[p].root)
  <2>1. PICK old \in Rows : old = project[o] BY <1>2
  <2>2. PICK row : row = [old EXCEPT !.status = "opportunity"] OBVIOUS
  <2>3. UNCHANGED project \/ project' = [project EXCEPT ![o] = row] BY <1>5, <2>1, <2>2 DEF CommitQuote
  <2>4. row.number = old.number /\ row.root = old.root BY <2>2 DEF Rows
  <2> QED BY <1>1, <1>3, <2>1, <2>3, <2>4
<1>6. ASSUME NEW s \in Sessions, NEW q \in Quotes, RepeatAccept(s, q)
      PROVE  project'[p].number = project[p].number /\ (project[p].root # 0 => project'[p].root = project[p].root)
  <2>1. PICK o \in Projects : o = quote[q].p BY <1>6 DEF RepeatAccept, QuotesInv, RowsOK
  <2>2. PICK old \in Rows : old = project[o] BY <1>2, <2>1
  <2>3. PICK row : row = [old EXCEPT !.award = q] OBVIOUS
  <2>4. project' = [project EXCEPT ![o] = row] BY <1>6, <2>1, <2>2, <2>3 DEF RepeatAccept
  <2>5. row.number = old.number /\ row.root = old.root BY <2>3 DEF Rows
  <2> QED BY <1>1, <2>2, <2>4, <2>5
<1>7. CASE ProjectStep
  <2>1. ProjectsNext BY <1>7 DEF ProjectStep, ProjectsNext, RowStep
  <2> QED BY <2>1, NumberStep
<1>8. CASE UNCHANGED <<projectsVars, quoteVars>> BY <1>3, <1>8 DEF projectsVars
<1>9. ASSUME NEW s \in Sessions, NEW q \in Quotes,
             \/ \E o \in Projects \cup {None}, t \in Prices : BeginCreateQuote(s, q, o, t)
             \/ \E w \in Workspaces : BeginQuoteEstimate(s, q, w)
             \/ ViewQuote(s, q) \/ \E t \in Prices : UpdateQuote(s, q, t)
             \/ \E c \in Closed : CloseQuote(s, q, c)
             \/ IssueQuote(s, q) \/ BeginAccept(s, q) \/ AcceptFails(s, q)
      PROVE  UNCHANGED project
  <2>1. UNCHANGED projectsVars
    BY <1>9 DEF BeginCreateQuote, BeginQuoteEstimate, ViewQuote, UpdateQuote, CloseQuote, IssueQuote, BeginAccept, AcceptFails
  <2> QED BY <2>1 DEF projectsVars
<1>10. ASSUME NEW s \in Sessions, RetryQuote(s) \/ RetryAccept(s) PROVE UNCHANGED project
  <2>1. UNCHANGED projectsVars BY <1>10 DEF RetryQuote, RetryAccept
  <2> QED BY <2>1 DEF projectsVars
<1>11. ASSUME NEW w \in Workspaces, NEW h \in Prices, SaveEstimate(w, h) PROVE UNCHANGED project
  BY <1>11 DEF SaveEstimate, projectsVars
<1>12. CASE QuotesNext BY <1>3, <1>4, <1>5, <1>6, <1>7, <1>9, <1>10, <1>11, <1>12 DEF QuotesNext
<1> QED BY <1>8, <1>12

\* A job number is permanent beside the quotes too: the award of a project that has a
\* number keeps it, whoever numbered the project first (services/customer_quotes.py).
THEOREM AwardedNumbersArePermanent == QuotesSpec => NumberPermanent
<1>1. RegisterInv /\ QuotesInv /\ [QuotesNext]_<<projectsVars, quoteVars>> =>
        [\A p \in Projects : project[p].number # 0 /\ ~raced'[p] =>
           /\ project'[p].number = project[p].number
           /\ project[p].root # 0 => project'[p].root = project[p].root]_projectsVars
  BY AwardNumberStep
<1> QED BY <1>1, QuotesInvariant, PTL DEF QuotesSpec, NumberPermanent
==============================================================================
