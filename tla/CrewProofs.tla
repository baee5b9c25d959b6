----------------------------- MODULE CrewProofs -----------------------------
(***************************************************************************)
(* Proofs about the crews: the units they drive, the receipts they hand    *)
(* in, the packets they are hired with and the records of the field, for   *)
(* any number of them and of people, and for any of the bounds.  One part  *)
(* per component: its inductive invariant, a lemma per action, the         *)
(* theorems.                                                               *)
(***************************************************************************)
EXTENDS OperatorFleet, Receipts, EmployeeOnboarding, FieldRecords,
        FiniteSetTheorems, SequenceTheorems, TLAPS

-----------------------------------------------------------------------------
(* The fleet: the inductive invariant.                                     *)

UnitRow ==
  [operator: Operators \cup {NoOperator}, status: {"available", "maintenance"}, km: 0..MaxKm]

\* What a request holds at each place of its handler.
Path == {"equipment", "vehicles", "orientation", "qualification", "commit"}
Entries ==
  [at: Path, by: Operators \cup {NoOperator}, on: Units \cup {NoUnit}, km: 0..NoReading,
   read: UnitRow \cup {Unread}, found: BOOLEAN, disturbed: BOOLEAN]
UnitUpdates ==
  [at: {"update"}, by: {NoOperator}, on: Units, column: {"operator"}, value: Operators \cup {NoOperator},
   read: UnitRow, disturbed: BOOLEAN]
  \cup [at: {"update"}, by: {NoOperator}, on: Units, column: {"status"}, value: {"available", "maintenance"},
        read: UnitRow, disturbed: BOOLEAN]
OdometerUpdates ==
  [at: {"odometer"}, by: {NoOperator}, on: Vehicles, km: 0..MaxKm, read: UnitRow, disturbed: BOOLEAN]
EntryStates == {NoEntry} \cup Entries \cup UnitUpdates \cup OdometerUpdates

\* A unit that may be used is assigned to an operator.
HasUnit(w, u) ==
  \E v \in Units : unit[v].operator = w /\ Operational(unit[v].status) /\ u \in {v, NoUnit}

\* What an operator's request has found stays so as long as nobody changes it;
\* the status that the session remembers is that of a vehicle of his.
EntryOK(h) ==
  /\ h \in EntryStates
  /\ h \in Entries => (h.on \in Vehicles /\ h.read \in UnitRow) \/ (h.km = NoReading /\ h.read = Unread)
  /\ h \in Entries /\ h.by \in Operators /\ ~h.disturbed =>
       /\ h.read # Unread /\ unit[h.on].operator = h.by => unit[h.on].status = h.read.status
       /\ h.at # "equipment" => person[h.by].active
       /\ h.at = "vehicles" /\ h.found => HasUnit(h.by, h.on)
       /\ h.at \in {"orientation", "qualification", "commit"} => HasUnit(h.by, h.on)
       /\ h.at \in {"qualification", "commit"} => person[h.by].deployable
       /\ h.at = "commit" => Qualified(h.by)

EntriesOK == entry = [e \in Entrants |-> entry[e]] /\ \A e \in Entrants : EntryOK(entry[e])

FleetInv == FleetTypeOK /\ EntriesAllowed /\ OdometerKept /\ EntriesOK

\* Nothing of an operator's changes in a step.
Steady(w) ==
  /\ person'[w] = person[w]
  /\ \A u \in Units : unit[u].operator = w \/ unit'[u].operator = w =>
       unit'[u].operator = unit[u].operator /\ unit'[u].status = unit[u].status

\* The entries that stay are steady, or take note.
EntriesMove(others) ==
  /\ entry' = [e \in Entrants |-> entry'[e]]
  /\ \A e \in others :
       \/ entry'[e] = NoEntry
       \/ entry[e] # NoEntry /\ entry'[e] = [entry[e] EXCEPT !.disturbed = TRUE]
       \/ entry'[e] = entry[e] /\ (entry[e].by \in Operators => Steady(entry[e].by))

\* The states that an entry may be in are told apart by where it is.
LEMMA EntryShapes ==
  /\ NoEntry \in EntryStates /\ NoEntry \notin Entries /\ NoEntry.at = "idle" /\ NoEntry.by = NoOperator
  /\ \A h \in EntryStates :
       /\ h \in Entries <=> h.at \in Path
       /\ h \in UnitUpdates <=> h.at = "update"
       /\ h \in OdometerUpdates <=> h.at = "odometer"
       /\ h = NoEntry <=> h.at = "idle"
BY DEF EntryStates, NoEntry, Entries, UnitUpdates, OdometerUpdates, Path

\* Taking note changes nothing else.
LEMMA NotedEntry ==
  ASSUME NEW h \in EntryStates \ {NoEntry}
  PROVE  LET n == [h EXCEPT !.disturbed = TRUE] IN
         /\ n \in EntryStates /\ n.disturbed
         /\ h \in Entries => n \in Entries /\ n.on = h.on /\ n.read = h.read /\ n.km = h.km
         /\ n \in Entries => h \in Entries
<1> DEFINE n == [h EXCEPT !.disturbed = TRUE]
<1>1. CASE h \in Entries
  <2>1. n \in Entries BY <1>1 DEF Entries
  <2>2. n.on = h.on /\ n.read = h.read /\ n.km = h.km /\ n.disturbed BY <1>1 DEF Entries
  <2> QED BY <1>1, <2>1, <2>2 DEF EntryStates
<1>2. CASE h \in UnitUpdates
  <2>1. n \in UnitUpdates BY <1>2 DEF UnitUpdates
  <2>2. n.at = "update" /\ n.disturbed BY <1>2, <2>1 DEF UnitUpdates
  <2>3. h \notin Entries BY <1>2 DEF UnitUpdates, Entries, Path
  <2> QED BY <2>1, <2>2, <2>3, EntryShapes DEF EntryStates, Path
<1>3. CASE h \in OdometerUpdates
  <2>1. n \in OdometerUpdates BY <1>3 DEF OdometerUpdates
  <2>2. n.at = "odometer" /\ n.disturbed BY <1>3, <2>1 DEF OdometerUpdates
  <2>3. h \notin Entries BY <1>3 DEF OdometerUpdates, Entries, Path
  <2> QED BY <2>1, <2>2, <2>3, EntryShapes DEF EntryStates, Path
<1> QED BY <1>1, <1>2, <1>3 DEF EntryStates

\* What was found of an operator stays so in a step in which he is steady.
LEMMA EntriesStay ==
  ASSUME EntriesOK, NEW others \in SUBSET Entrants, EntriesMove(others), NEW e \in others
  PROVE  EntryOK(entry[e])'
<1>0. EntryOK(entry[e]) BY DEF EntriesOK
<1>1. CASE entry'[e] = NoEntry BY <1>1, EntryShapes DEF EntryOK
<1>2. CASE entry[e] # NoEntry /\ entry'[e] = [entry[e] EXCEPT !.disturbed = TRUE]
  BY <1>0, <1>2, NotedEntry DEF EntryOK
<1>3. CASE entry'[e] = entry[e] /\ (entry[e].by \in Operators => Steady(entry[e].by))
  <2> PICK h : h = entry[e] OBVIOUS
  <2>0. EntryOK(h) /\ entry'[e] = h /\ (h.by \in Operators => Steady(h.by)) BY <1>0, <1>3
  <2>1. CASE h.by \notin Operators BY <2>0, <2>1 DEF EntryOK
  <2>2. CASE h.by \in Operators
    <3>1. \A u \in Units \cup {NoUnit} : HasUnit(h.by, u) => HasUnit(h.by, u)'
      BY <2>0, <2>2 DEF HasUnit, Steady
    <3>2. h \in Entries /\ h.read # Unread => h.on \in Vehicles /\ h.on \in Units
      BY <2>0 DEF EntryOK, Units
    <3>3. h \in Entries => h.on \in Units \cup {NoUnit} BY DEF Entries
    <3>4. h \in Entries /\ h.read # Unread /\ unit'[h.on].operator = h.by =>
            unit[h.on].operator = h.by /\ unit'[h.on].status = unit[h.on].status
      BY <2>0, <2>2, <3>2 DEF Steady
    <3>5. person'[h.by] = person[h.by] BY <2>0, <2>2 DEF Steady
    <3>6. EntryOK(h)'
      BY <2>0, <3>1, <3>2, <3>3, <3>4, <3>5 DEF EntryOK, Qualified
    <3> QED BY <2>0, <3>6
  <2> QED BY <2>1, <2>2
<1> QED BY <1>1, <1>2, <1>3 DEF EntriesMove

-----------------------------------------------------------------------------
(* The steps of the fleet.                                                 *)

\* What a request is about to do has changed, and nothing else.
LEMMA EntryMoves ==
  ASSUME FleetInv, NEW e \in Entrants, NEW new, entry' = [entry EXCEPT ![e] = new], EntryOK(new),
         UNCHANGED <<unit, person, logs, due, passedBy>>, changes' \in 0..MaxChanges
  PROVE  FleetInv'
<1>1. /\ entry'[e] = new /\ entry' = [d \in Entrants |-> entry'[d]]
      /\ \A d \in Entrants \ {e} : entry'[d] = entry[d]
  BY DEF FleetInv, EntriesOK
<1>2. \A w : Steady(w) BY DEF Steady
<1>3. EntriesMove(Entrants \ {e}) BY <1>1, <1>2 DEF EntriesMove
<1>4. \A d \in Entrants \ {e} : EntryOK(entry[d])' BY <1>3, EntriesStay DEF FleetInv
<1>5. EntryOK(entry[e])'
  <2>1. UNCHANGED <<unit, person>> OBVIOUS
  <2> QED BY <1>1, <2>1 DEF EntryOK, HasUnit, Qualified
<1>6. EntriesOK' BY <1>1, <1>4, <1>5 DEF EntriesOK
<1>7. FleetTypeOK' BY DEF FleetInv, FleetTypeOK
<1>8. EntriesAllowed' /\ OdometerKept' BY DEF FleetInv, EntriesAllowed, OdometerKept
<1> QED BY <1>6, <1>7, <1>8 DEF FleetInv

\* Units that may be limited to are units that somebody has.
LEMMA LimitedUnit ==
  ASSUME NEW S, NEW u, Limited(S, u)
  PROVE  \E v \in S : u \in {v, NoUnit}
BY DEF Limited

\* The next place of a request, and what was found on the way.
LEMMA NextEntry ==
  ASSUME NEW h \in Entries, NEW p \in Path
  PROVE  LET n == [h EXCEPT !.at = p] IN
         /\ n \in Entries /\ n.at = p /\ n.by = h.by /\ n.on = h.on /\ n.km = h.km
         /\ n.read = h.read /\ n.found = h.found /\ n.disturbed = h.disturbed
<1> DEFINE n == [h EXCEPT !.at = p]
<1>1. n \in Entries BY DEF Entries
<1>2. /\ n.at = p /\ n.by = h.by /\ n.on = h.on /\ n.km = h.km
      /\ n.read = h.read /\ n.found = h.found /\ n.disturbed = h.disturbed
  BY DEF Entries
<1> QED BY <1>1, <1>2

\* A request is refused, or goes on with what it has found.
LEMMA RefusedEntry ==
  ASSUME FleetInv, NEW e \in Entrants, Refuse(e), UNCHANGED <<unit, person, logs, changes, due, passedBy>>
  PROVE  FleetInv'
<1>1. EntryOK(NoEntry) BY EntryShapes DEF EntryOK
<1>2. changes' \in 0..MaxChanges BY DEF FleetInv, FleetTypeOK
<1> QED BY <1>1, <1>2, EntryMoves DEF Refuse

\* The machines of an active operator are read, or the request ends.
LEMMA ReadEquipmentStep ==
  ASSUME FleetInv, NEW e \in Entrants, ReadEquipment(e)
  PROVE  FleetInv'
<1> PICK h : h = entry[e] OBVIOUS
<1> DEFINE held == {u \in Machines : unit[u].operator = h.by /\ Operational(unit[u].status)}
           new == [[h EXCEPT !.at = "vehicles"] EXCEPT !.found = Limited(held, h.on)]
<1>1. /\ h.at = "equipment" /\ UNCHANGED <<unit, person, logs, changes, due, passedBy>>
      /\ IF person[h.by].active THEN entry' = [entry EXCEPT ![e] = new] ELSE Refuse(e)
  BY DEF ReadEquipment, Entering
<1>2. EntryOK(h) BY DEF FleetInv, EntriesOK
<1>3. h \in Entries BY <1>1, <1>2, EntryShapes DEF EntryOK, Path
<1>4. CASE ~person[h.by].active BY <1>1, <1>4, RefusedEntry
<1>5. CASE person[h.by].active
  <2>1. PICK f \in BOOLEAN : f = Limited(held, h.on)
    <3> HIDE DEF held
    <3>1. CASE Limited(held, h.on)
      <4>1. Limited(held, h.on) = TRUE BY <3>1 DEF Limited
      <4> QED BY <4>1
    <3>2. CASE ~Limited(held, h.on)
      <4>1. Limited(held, h.on) = FALSE BY <3>2 DEF Limited
      <4> QED BY <4>1
    <3> QED BY <3>1, <3>2
  <2> DEFINE next == [[h EXCEPT !.at = "vehicles"] EXCEPT !.found = f]
  <2>2. new = next BY <2>1
  <2>n. /\ next \in Entries /\ next.at = "vehicles" /\ next.by = h.by /\ next.on = h.on /\ next.km = h.km
        /\ next.read = h.read /\ next.found = f /\ next.disturbed = h.disturbed
    <3> DEFINE there == [h EXCEPT !.at = "vehicles"]
    <3>1. "vehicles" \in Path BY DEF Path
    <3>2. /\ there \in Entries /\ there.at = "vehicles" /\ there.by = h.by /\ there.on = h.on /\ there.km = h.km
          /\ there.read = h.read /\ there.disturbed = h.disturbed
      BY <1>3, <3>1, NextEntry
    <3> HIDE DEF there
    <3>3. [there EXCEPT !.found = f] \in Entries BY <3>2 DEF Entries
    <3>4. LET m == [there EXCEPT !.found = f] IN
          /\ m.at = there.at /\ m.by = there.by /\ m.on = there.on /\ m.km = there.km
          /\ m.read = there.read /\ m.found = f /\ m.disturbed = there.disturbed
      BY <3>2 DEF Entries
    <3> QED BY <3>2, <3>3, <3>4 DEF there
  <2>3. Limited(held, h.on) => HasUnit(h.by, h.on) BY LimitedUnit DEF HasUnit, Units
  <2> HIDE DEF new, held, next
  <2>4. EntryOK(next) BY <1>1, <1>2, <1>3, <1>5, <2>1, <2>n, <2>3 DEF EntryOK, EntryStates
  <2>5. changes' \in 0..MaxChanges BY <1>1 DEF FleetInv, FleetTypeOK
  <2> QED BY <1>1, <1>5, <2>2, <2>4, <2>5, EntryMoves
<1> QED BY <1>4, <1>5
\* The vehicles are those of now, although the status of one is that of before.
LEMMA ReadVehiclesStep ==
  ASSUME FleetInv, NEW e \in Entrants, ReadVehicles(e)
  PROVE  FleetInv'
<1> PICK h : h = entry[e] OBVIOUS
<1> DEFINE status(u) == IF u = h.on /\ h.read # Unread THEN h.read.status ELSE unit[u].status
           held == {u \in Vehicles : unit[u].operator = h.by /\ Operational(status(u))}
           new == [h EXCEPT !.at = "orientation"]
<1>1. /\ h.at = "vehicles" /\ UNCHANGED <<unit, person, logs, changes, due, passedBy>>
      /\ IF h.found \/ Limited(held, h.on) THEN entry' = [entry EXCEPT ![e] = new] ELSE Refuse(e)
  BY DEF ReadVehicles, Entering, NextPlace
<1>2. EntryOK(h) BY DEF FleetInv, EntriesOK
<1>3. h \in Entries BY <1>1, <1>2, EntryShapes DEF EntryOK, Path
<1>4. CASE ~(h.found \/ Limited(held, h.on)) BY <1>1, <1>4, RefusedEntry
<1>5. CASE h.found \/ Limited(held, h.on)
  <2>1. /\ new \in Entries /\ new.at = "orientation" /\ new.by = h.by /\ new.on = h.on /\ new.km = h.km
        /\ new.read = h.read /\ new.disturbed = h.disturbed
    <3>1. "orientation" \in Path BY DEF Path
    <3> QED BY <1>3, <3>1, NextEntry
  <2>2. h.by \in Operators /\ ~h.disturbed => HasUnit(h.by, h.on)
    <3> SUFFICES ASSUME h.by \in Operators, ~h.disturbed, ~h.found PROVE HasUnit(h.by, h.on)
      BY <1>1, <1>2, <1>3 DEF EntryOK
    <3>1. PICK v \in held : h.on \in {v, NoUnit} BY <1>5, LimitedUnit
    <3>2. v \in Vehicles /\ v \in Units /\ unit[v].operator = h.by /\ Operational(status(v)) BY DEF Units
    <3>3. status(v) = unit[v].status BY <1>2, <1>3, <3>2 DEF EntryOK
    <3> QED BY <3>1, <3>2, <3>3 DEF HasUnit
  <2> HIDE DEF new
  <2>3. EntryOK(new) BY <1>1, <1>2, <1>3, <2>1, <2>2 DEF EntryOK, EntryStates
  <2>4. changes' \in 0..MaxChanges BY <1>1 DEF FleetInv, FleetTypeOK
  <2> QED BY <1>1, <1>5, <2>3, <2>4, EntryMoves
<1> QED BY <1>4, <1>5

\* His orientation or his qualification allows the entry, or the request ends.
LEMMA ReadOrientationStep ==
  ASSUME FleetInv, NEW e \in Entrants, ReadOrientation(e) \/ ReadQualification(e)
  PROVE  FleetInv'
<1> PICK h : h = entry[e] OBVIOUS
<1>1. UNCHANGED <<unit, person, logs, changes, due, passedBy>> BY DEF ReadOrientation, ReadQualification
<1>2. EntryOK(h) BY DEF FleetInv, EntriesOK
<1>3. CASE Refuse(e) BY <1>1, <1>3, RefusedEntry
<1>4. ASSUME NEW p \in Path, entry' = [entry EXCEPT ![e] = [h EXCEPT !.at = p]], h.at # "equipment",
             \/ h.at = "orientation" /\ p = "qualification" /\ person[h.by].deployable
             \/ h.at = "qualification" /\ p = "commit" /\ Qualified(h.by)
      PROVE  FleetInv'
  <2> DEFINE new == [h EXCEPT !.at = p]
  <2>1. h \in Entries BY <1>2, <1>4, EntryShapes DEF EntryOK, Path
  <2>2. /\ new \in Entries /\ new.at = p /\ new.by = h.by /\ new.on = h.on /\ new.km = h.km
        /\ new.read = h.read /\ new.disturbed = h.disturbed
    BY <2>1, NextEntry
  <2>3. entry' = [entry EXCEPT ![e] = new] BY <1>4
  <2> HIDE DEF new
  <2>4. EntryOK(new) BY <1>2, <1>4, <2>1, <2>2 DEF EntryOK, EntryStates
  <2>5. changes' \in 0..MaxChanges BY <1>1 DEF FleetInv, FleetTypeOK
  <2> QED BY <1>1, <2>3, <2>4, <2>5, EntryMoves
<1>5. CASE ReadOrientation(e) /\ ~Refuse(e)
  <2>1. /\ h.at = "orientation" /\ person[h.by].deployable
        /\ entry' = [entry EXCEPT ![e] = [h EXCEPT !.at = "qualification"]]
    BY <1>5 DEF ReadOrientation, Entering, NextPlace
  <2> QED BY <2>1, <1>4 DEF Path
<1>6. CASE ReadQualification(e) /\ ~Refuse(e)
  <2>1. /\ h.at = "qualification" /\ Qualified(h.by)
        /\ entry' = [entry EXCEPT ![e] = [h EXCEPT !.at = "commit"]]
    BY <1>6 DEF ReadQualification, Entering, NextPlace
  <2> QED BY <2>1, <1>4 DEF Path
<1> QED BY <1>3, <1>5, <1>6

\* A request begins with the rows that it has read so far.
LEMMA EntryBegins ==
  ASSUME FleetInv, NEW e \in Entrants,
         \/ \E v \in Vehicles, k \in 0..NoReading, w \in Operators \cup {NoOperator} : BeginLog(e, w, v, k)
         \/ \E v \in Vehicles, k \in 0..MaxKm : BeginOdometer(e, v, k)
         \/ \E u \in Units, w \in Operators \cup {NoOperator} : BeginUnitUpdate(e, u, "operator", w)
         \/ \E u \in Units, s \in {"available", "maintenance"} : BeginUnitUpdate(e, u, "status", s)
         \/ \E w \in Operators, u \in Units \cup {NoUnit} : BeginRecord(e, w, u)
  PROVE  FleetInv'
<1>1. unit \in [Units -> UnitRow] /\ changes \in 0..MaxChanges /\ MaxKm \in Nat /\ MaxChanges \in Nat
  BY FleetAssumption DEF FleetInv, FleetTypeOK, UnitRow
<1>2. ASSUME NEW new, EntryOK(new), Begins(e, new), changes' \in 0..MaxChanges PROVE FleetInv'
  BY <1>2, EntryMoves DEF Begins
<1>3. MaxKm + 1 \in 0..NoReading BY <1>1 DEF NoReading
<1>4. MayChange => changes' \in 0..MaxChanges BY <1>1 DEF MayChange
<1>5. ASSUME NEW v \in Vehicles, NEW k \in 0..NoReading, NEW w \in Operators \cup {NoOperator}, BeginLog(e, w, v, k)
      PROVE  FleetInv'
  <2> DEFINE new == [at |-> IF w = NoOperator THEN "commit" ELSE "equipment",
                     by |-> w, on |-> v, km |-> k, read |-> unit[v], found |-> FALSE, disturbed |-> FALSE]
  <2>1. unit[v] \in UnitRow /\ v \in Units BY <1>1 DEF Units
  <2>2. new \in Entries BY <2>1 DEF Entries, Path
  <2>3. /\ new.at = (IF w = NoOperator THEN "commit" ELSE "equipment") /\ new.by = w /\ new.on = v
        /\ new.read = unit[v] /\ ~new.disturbed
    OBVIOUS
  <2> HIDE DEF new
  <2>4. EntryOK(new) BY <2>1, <2>2, <2>3, FleetAssumption DEF EntryOK, EntryStates
  <2>5. Begins(e, new) /\ changes' \in 0..MaxChanges BY <1>1, <1>5 DEF BeginLog, new
  <2> QED BY <1>2, <2>4, <2>5
<1>6. ASSUME NEW v \in Vehicles, NEW k \in 0..MaxKm, BeginOdometer(e, v, k) PROVE FleetInv'
  <2> DEFINE new == [at |-> "odometer", by |-> NoOperator, on |-> v, km |-> k, read |-> unit[v], disturbed |-> FALSE]
  <2>1. unit[v] \in UnitRow BY <1>1 DEF Units
  <2>2. new \in OdometerUpdates BY <2>1 DEF OdometerUpdates
  <2>3. new \notin Entries BY DEF Entries, Path
  <2>4. EntryOK(new) BY <2>2, <2>3 DEF EntryOK, EntryStates
  <2>5. Begins(e, new) /\ changes' \in 0..MaxChanges BY <1>1, <1>6 DEF BeginOdometer
  <2> HIDE DEF new
  <2> QED BY <1>2, <2>4, <2>5
<1>7. ASSUME NEW u \in Units, NEW c, NEW x, BeginUnitUpdate(e, u, c, x),
             \/ c = "operator" /\ x \in Operators \cup {NoOperator}
             \/ c = "status" /\ x \in {"available", "maintenance"}
      PROVE  FleetInv'
  <2> DEFINE new == [at |-> "update", by |-> NoOperator, on |-> u, column |-> c, value |-> x,
                     read |-> unit[u], disturbed |-> FALSE]
  <2>1. unit[u] \in UnitRow BY <1>1
  <2>2. new \in UnitUpdates BY <1>7, <2>1 DEF UnitUpdates
  <2>3. new \notin Entries BY DEF Entries, Path
  <2>4. EntryOK(new) BY <2>2, <2>3 DEF EntryOK, EntryStates
  <2>5. Begins(e, new) /\ changes' \in 0..MaxChanges BY <1>4, <1>7 DEF BeginUnitUpdate
  <2> HIDE DEF new
  <2> QED BY <1>2, <2>4, <2>5
<1>8. ASSUME NEW w \in Operators, NEW u \in Units \cup {NoUnit}, BeginRecord(e, w, u) PROVE FleetInv'
  <2> DEFINE new == [at |-> "equipment", by |-> w, on |-> u, km |-> NoReading, read |-> Unread,
                     found |-> FALSE, disturbed |-> FALSE]
  <2>1. new \in Entries BY <1>1, <1>3 DEF Entries, Path, NoReading
  <2>2. new.at = "equipment" /\ new.km = NoReading /\ new.read = Unread OBVIOUS
  <2>3. Begins(e, new) /\ changes' \in 0..MaxChanges BY <1>1, <1>8 DEF BeginRecord
  <2> HIDE DEF new
  <2>4. EntryOK(new) BY <2>1, <2>2 DEF EntryOK, EntryStates
  <2> QED BY <1>2, <2>3, <2>4
<1> QED BY <1>5, <1>6, <1>7, <1>8
\* Those whose rows change take note.
LEMMA NotedMove ==
  ASSUME FleetInv, NEW ws, NEW others \in SUBSET Entrants, \A e \in others : entry'[e] = Noted(ws)[e],
         entry' = [e \in Entrants |-> entry'[e]], \A w \in Operators \ ws : Steady(w)
  PROVE  EntriesMove(others)
<1> SUFFICES ASSUME NEW e \in others
             PROVE  \/ entry'[e] = NoEntry
                    \/ entry[e] # NoEntry /\ entry'[e] = [entry[e] EXCEPT !.disturbed = TRUE]
                    \/ entry'[e] = entry[e] /\ (entry[e].by \in Operators => Steady(entry[e].by))
  BY DEF EntriesMove
<1>1. CASE entry[e] # NoEntry /\ entry[e].by \in ws BY <1>1 DEF Noted
<1>2. CASE entry[e] = NoEntry BY <1>2 DEF Noted
<1>3. CASE entry[e].by \notin ws BY <1>3 DEF Noted
<1> QED BY <1>1, <1>2, <1>3

\* The office decides about an operator.
LEMMA DecisionStep ==
  ASSUME FleetInv, NEW w \in Operators,
         \/ \E ready \in BOOLEAN : Orient(w, ready)
         \/ \E d \in {"approved", "declined"} : DecideReview(w, d)
  PROVE  FleetInv'
<1>1. /\ entry' = Noted({w}) /\ MayChange /\ UNCHANGED <<unit, logs, due, passedBy>>
      /\ \/ \E ready \in BOOLEAN : person' = [person EXCEPT ![w] = [@ EXCEPT !.deployable = ready]]
         \/ \E d \in {"approved", "declined"} : person' = [person EXCEPT ![w] = [@ EXCEPT !.review = d]]
  BY DEF Orient, DecideReview
<1>2. /\ person \in [Operators -> [active: BOOLEAN, deployable: BOOLEAN, review: {"none", "approved", "declined"}]]
      /\ changes \in 0..MaxChanges
  BY DEF FleetInv, FleetTypeOK
<1>3. person' \in [Operators -> [active: BOOLEAN, deployable: BOOLEAN, review: {"none", "approved", "declined"}]]
      /\ \A x \in Operators \ {w} : person'[x] = person[x]
  BY <1>1, <1>2
<1>4. \A x \in Operators \ {w} : Steady(x) BY <1>1, <1>3 DEF Steady
<1>5. EntriesMove(Entrants)
  <2>1. entry' = [e \in Entrants |-> entry'[e]] BY <1>1 DEF Noted
  <2> QED BY <1>1, <1>4, <2>1, NotedMove
<1>6. EntriesOK'
  <2>1. \A e \in Entrants : EntryOK(entry[e])' BY <1>5, EntriesStay DEF FleetInv
  <2> QED BY <1>5, <2>1 DEF EntriesOK, EntriesMove
<1>7. changes' \in 0..MaxChanges BY <1>1, <1>2, FleetAssumption DEF MayChange
<1>8. FleetTypeOK' BY <1>1, <1>3, <1>7 DEF FleetInv, FleetTypeOK
<1>9. EntriesAllowed' /\ OdometerKept' BY <1>1 DEF FleetInv, EntriesAllowed, OdometerKept
<1> QED BY <1>6, <1>8, <1>9 DEF FleetInv

\* A reading that is committed is written, unless it is what was read.
LEMMA StoredReading ==
  ASSUME FleetInv, NEW h, NEW v \in Vehicles, h.on = v, h.km \in 0..MaxKm, h.read \in UnitRow,
         NEW new, new = Stored(h, "km", h.km)
  PROVE  /\ new \in [Units -> UnitRow]
         /\ \A u \in Units : new[u].operator = unit[u].operator /\ new[u].status = unit[u].status
         /\ \A u \in Units \ {v} : new[u] = unit[u]
         /\ new[v].km = IF h.km = h.read.km THEN unit[v].km ELSE h.km
<1>1. unit \in [Units -> UnitRow] /\ v \in Units BY DEF FleetInv, FleetTypeOK, UnitRow, Units
<1>2. CASE h.km = h.read.km
  <2>1. new = unit BY <1>2 DEF Stored
  <2> QED BY <1>1, <1>2, <2>1
<1>3. CASE h.km # h.read.km
  <2> DEFINE written == [unit[v] EXCEPT !.km = h.km]
  <2>1. new = [unit EXCEPT ![v] = written] BY <1>3 DEF Stored
  <2>2. unit[v] \in UnitRow BY <1>1
  <2>3. /\ written \in UnitRow /\ written.operator = unit[v].operator /\ written.status = unit[v].status
        /\ written.km = h.km
    BY <2>2 DEF UnitRow
  <2> HIDE DEF written
  <2>4. new[v] = written /\ \A u \in Units \ {v} : new[u] = unit[u] BY <1>1, <2>1
  <2>5. new \in [Units -> UnitRow] BY <1>1, <2>1, <2>3
  <2> QED BY <1>3, <2>3, <2>4, <2>5
<1> QED BY <1>2, <1>3

\* Readings change neither who has a unit nor its status.
LEMMA ReadingsAreSteady ==
  ASSUME FleetInv, NEW e \in Entrants, Refuse(e), person' = person,
         \A u \in Units : unit'[u].operator = unit[u].operator /\ unit'[u].status = unit[u].status
  PROVE  EntriesOK'
<1>1. \A w : Steady(w) BY DEF Steady
<1>2. /\ entry'[e] = NoEntry /\ entry' = [d \in Entrants |-> entry'[d]]
      /\ \A d \in Entrants \ {e} : entry'[d] = entry[d]
  BY DEF FleetInv, EntriesOK, Refuse
<1>3. EntriesMove(Entrants) BY <1>1, <1>2 DEF EntriesMove
<1>4. \A d \in Entrants : EntryOK(entry[d])' BY <1>3, EntriesStay DEF FleetInv
<1> QED BY <1>2, <1>4 DEF EntriesOK

\* An entry is committed: it is allowed, unless something changed on the way.
LEMMA CommitEntryStep ==
  ASSUME FleetInv, NEW e \in Entrants, CommitEntry(e)
  PROVE  FleetInv'
<1> PICK h : h = entry[e] OBVIOUS
<1>1. /\ h.at = "commit" /\ Refuse(e) /\ UNCHANGED <<person, changes>>
      /\ logs' = logs \cup {[by |-> h.by, on |-> h.on, disturbed |-> h.disturbed,
                             allowed |-> h.by = NoOperator \/ Allowed(h.by, h.on)]}
      /\ IF h.km = NoReading THEN UNCHANGED <<unit, due, passedBy>>
         ELSE /\ unit' = IF h.km >= h.read.km THEN Stored(h, "km", h.km) ELSE unit
              /\ due' = [due EXCEPT ![h.on] = Larger(@, h.km)]
              /\ passedBy' = Crossed(h)
  BY DEF CommitEntry, Entering
<1>2. EntryOK(h) /\ FleetTypeOK /\ OdometerKept /\ EntriesAllowed BY DEF FleetInv, EntriesOK
<1>3. h \in Entries BY <1>1, <1>2, EntryShapes DEF EntryOK, Path
<1>4. h.by \in Operators \cup {NoOperator} /\ h.km \in 0..NoReading BY <1>3 DEF Entries
<1>5. EntriesAllowed'
  <2>1. ~h.disturbed /\ h.by # NoOperator => Allowed(h.by, h.on)
    BY <1>1, <1>2, <1>3, <1>4 DEF EntryOK, Allowed, HasUnit
  <2> DEFINE log == [by |-> h.by, on |-> h.on, disturbed |-> h.disturbed,
                     allowed |-> h.by = NoOperator \/ Allowed(h.by, h.on)]
  <2>2. ~log.disturbed => log.allowed BY <2>1
  <2>3. logs' = logs \cup {log} BY <1>1
  <2> HIDE DEF log
  <2> QED BY <1>2, <2>2, <2>3 DEF EntriesAllowed
<1>6. CASE h.km = NoReading
  <2>1. UNCHANGED <<unit, due, passedBy>> BY <1>1, <1>6
  <2>2. EntriesOK' BY <1>1, <2>1, ReadingsAreSteady
  <2>3. FleetTypeOK' /\ OdometerKept' BY <1>1, <1>2, <2>1 DEF FleetTypeOK, OdometerKept
  <2> QED BY <1>5, <2>2, <2>3 DEF FleetInv
<1>7. CASE h.km # NoReading
  <2>1. h.on \in Vehicles /\ h.read \in UnitRow BY <1>2, <1>3, <1>7 DEF EntryOK
  <2>2. h.km \in 0..MaxKm /\ MaxKm \in Nat BY <1>4, <1>7, FleetAssumption DEF NoReading
  <2>3. h.read.km \in 0..MaxKm BY <2>1 DEF UnitRow
  <2>4. unit \in [Units -> UnitRow] /\ due \in [Vehicles -> 0..MaxKm] /\ passedBy \subseteq Vehicles
    BY <1>2 DEF FleetTypeOK, UnitRow
  <2>5. /\ unit' \in [Units -> UnitRow]
        /\ \A u \in Units : unit'[u].operator = unit[u].operator /\ unit'[u].status = unit[u].status
        /\ \A u \in Units \ {h.on} : unit'[u] = unit[u]
        /\ unit'[h.on].km = IF h.km > h.read.km THEN h.km ELSE unit[h.on].km
    <3>1. CASE h.km >= h.read.km
      <4>1. unit' = Stored(h, "km", h.km) BY <1>1, <1>7, <3>1
      <4>2. /\ unit' \in [Units -> UnitRow]
            /\ \A u \in Units : unit'[u].operator = unit[u].operator /\ unit'[u].status = unit[u].status
            /\ \A u \in Units \ {h.on} : unit'[u] = unit[u]
            /\ unit'[h.on].km = IF h.km = h.read.km THEN unit[h.on].km ELSE h.km
        BY <2>1, <2>2, <4>1, StoredReading
      <4>3. h.km = h.read.km <=> ~(h.km > h.read.km) BY <2>2, <2>3, <3>1
      <4> QED BY <4>2, <4>3
    <3>2. CASE ~(h.km >= h.read.km)
      <4>1. unit' = unit BY <1>1, <1>7, <3>2
      <4> QED BY <2>2, <2>3, <2>4, <3>2, <4>1
    <3> QED BY <3>1, <3>2
  <2>6. EntriesOK' BY <1>1, <2>5, ReadingsAreSteady
  <2>7. due' = [due EXCEPT ![h.on] = Larger(@, h.km)] /\ passedBy' = Crossed(h) BY <1>1, <1>7
  <2>8. Larger(due[h.on], h.km) \in 0..MaxKm BY <2>1, <2>2, <2>4 DEF Larger
  <2>9. due' \in [Vehicles -> 0..MaxKm] /\ passedBy' \subseteq Vehicles /\ passedBy \subseteq passedBy'
    BY <2>1, <2>4, <2>7, <2>8 DEF Crossed
  <2>10. FleetTypeOK' BY <1>1, <1>2, <2>5, <2>9 DEF FleetTypeOK, UnitRow
  <2>11. OdometerKept'
    <3> SUFFICES ASSUME NEW v \in Vehicles, v \notin passedBy' PROVE unit'[v].km = due'[v]
      BY DEF OdometerKept
    <3>1. v \in Units /\ unit[v].km = due[v] BY <1>2, <2>9 DEF OdometerKept, Units
    <3>2. CASE v # h.on BY <2>4, <2>5, <2>7, <3>1, <3>2
    <3>3. CASE v = h.on
      <4>1. unit[v].km = h.read.km BY <2>7, <3>3 DEF Crossed
      <4>2. due'[v] = Larger(due[v], h.km) BY <2>4, <2>7, <3>3
      <4> QED BY <2>2, <2>3, <2>5, <3>1, <3>3, <4>1, <4>2 DEF Larger
    <3> QED BY <3>2, <3>3
  <2> QED BY <1>5, <2>6, <2>10, <2>11 DEF FleetInv
<1> QED BY <1>6, <1>7

\* A reading of the office.
LEMMA CommitOdometerStep ==
  ASSUME FleetInv, NEW e \in Entrants, CommitOdometer(e)
  PROVE  FleetInv'
<1> PICK h : h = entry[e] OBVIOUS
<1>1. /\ h.at = "odometer" /\ Refuse(e) /\ UNCHANGED <<person, logs, changes>>
      /\ unit' = Stored(h, "km", h.km) /\ due' = [due EXCEPT ![h.on] = h.km] /\ passedBy' = Crossed(h)
  BY DEF CommitOdometer, Entering
<1>2. EntryOK(h) /\ FleetTypeOK /\ OdometerKept /\ EntriesAllowed BY DEF FleetInv, EntriesOK
<1>3. h \in OdometerUpdates BY <1>1, <1>2, EntryShapes DEF EntryOK
<1>4. h.on \in Vehicles /\ h.km \in 0..MaxKm /\ h.read \in UnitRow /\ h.read.km \in 0..MaxKm
  BY <1>3 DEF OdometerUpdates, UnitRow
<1>5. unit \in [Units -> UnitRow] /\ due \in [Vehicles -> 0..MaxKm] /\ passedBy \subseteq Vehicles
  BY <1>2 DEF FleetTypeOK, UnitRow
<1>6. /\ unit' \in [Units -> UnitRow]
      /\ \A u \in Units : unit'[u].operator = unit[u].operator /\ unit'[u].status = unit[u].status
      /\ \A u \in Units \ {h.on} : unit'[u] = unit[u]
      /\ unit'[h.on].km = IF h.km = h.read.km THEN unit[h.on].km ELSE h.km
  BY <1>1, <1>4, StoredReading
<1>7. EntriesOK' BY <1>1, <1>6, ReadingsAreSteady
<1>8. due' \in [Vehicles -> 0..MaxKm] /\ passedBy' \subseteq Vehicles /\ passedBy \subseteq passedBy'
  BY <1>1, <1>4, <1>5 DEF Crossed
<1>9. FleetTypeOK' BY <1>1, <1>2, <1>6, <1>8 DEF FleetTypeOK, UnitRow
<1>10. OdometerKept'
  <2> SUFFICES ASSUME NEW v \in Vehicles, v \notin passedBy' PROVE unit'[v].km = due'[v]
    BY DEF OdometerKept
  <2>1. v \in Units /\ unit[v].km = due[v] BY <1>2, <1>8 DEF OdometerKept, Units
  <2>2. CASE v # h.on BY <1>1, <1>5, <1>6, <2>1, <2>2
  <2>3. CASE v = h.on
    <3>1. unit[v].km = h.read.km BY <1>1, <2>3 DEF Crossed
    <3>2. due'[v] = h.km BY <1>1, <1>5, <2>3
    <3> QED BY <1>6, <2>3, <3>1, <3>2
  <2> QED BY <2>2, <2>3
<1>11. EntriesAllowed' BY <1>1, <1>2 DEF EntriesAllowed
<1> QED BY <1>7, <1>9, <1>10, <1>11 DEF FleetInv
\* A unit gets a new operator or a new status: who had it and who gets it take note.
LEMMA CommitUnitStep ==
  ASSUME FleetInv, NEW e \in Entrants, CommitUnitUpdate(e)
  PROVE  FleetInv'
<1> PICK h : h = entry[e] OBVIOUS
<1> DEFINE ws == {unit[h.on].operator, h.value}
<1>1. /\ h.at = "update" /\ unit' = Stored(h, h.column, h.value)
      /\ entry' = [Noted(ws) EXCEPT ![e] = NoEntry] /\ UNCHANGED <<person, logs, changes, due, passedBy>>
  BY DEF CommitUnitUpdate, Entering
<1>2. EntryOK(h) /\ FleetTypeOK /\ OdometerKept /\ EntriesAllowed BY DEF FleetInv, EntriesOK
<1>3. h \in UnitUpdates BY <1>1, <1>2, EntryShapes DEF EntryOK
<1>4. /\ h.on \in Units
      /\ \/ h.column = "operator" /\ h.value \in Operators \cup {NoOperator}
         \/ h.column = "status" /\ h.value \in {"available", "maintenance"}
  BY <1>3 DEF UnitUpdates
<1>5. unit \in [Units -> UnitRow] BY <1>2 DEF FleetTypeOK, UnitRow
<1>6. /\ unit' \in [Units -> UnitRow]
      /\ \A u \in Units \ {h.on} : unit'[u] = unit[u]
      /\ unit'[h.on].km = unit[h.on].km
      /\ unit'[h.on].operator \in ws
  <2>1. CASE h.value = h.read[h.column]
    <3>1. unit' = unit BY <1>1, <2>1 DEF Stored
    <3> QED BY <1>5, <3>1
  <2>2. CASE h.value # h.read[h.column]
    <3> DEFINE written == [unit[h.on] EXCEPT ![h.column] = h.value]
    <3>1. unit' = [unit EXCEPT ![h.on] = written] BY <1>1, <2>2 DEF Stored
    <3>2. unit[h.on] \in UnitRow BY <1>4, <1>5
    <3>3. written \in UnitRow /\ written.km = unit[h.on].km /\ written.operator \in ws
      <4>1. CASE h.column = "operator" /\ h.value \in Operators \cup {NoOperator}
        <5>1. written = [unit[h.on] EXCEPT !.operator = h.value] BY <4>1
        <5>2. written \in UnitRow BY <3>2, <4>1, <5>1 DEF UnitRow
        <5>3. written.km = unit[h.on].km /\ written.operator = h.value BY <3>2, <5>1 DEF UnitRow
        <5> QED BY <5>2, <5>3
      <4>2. CASE h.column = "status" /\ h.value \in {"available", "maintenance"}
        <5>1. written = [unit[h.on] EXCEPT !.status = h.value] BY <4>2
        <5>2. written \in UnitRow BY <3>2, <4>2, <5>1 DEF UnitRow
        <5>3. written.km = unit[h.on].km /\ written.operator = unit[h.on].operator BY <3>2, <5>1 DEF UnitRow
        <5> QED BY <5>2, <5>3
      <4> QED BY <1>4, <4>1, <4>2
    <3> HIDE DEF written
    <3>4. unit'[h.on] = written /\ \A u \in Units \ {h.on} : unit'[u] = unit[u] BY <1>4, <1>5, <3>1
    <3>5. unit' \in [Units -> UnitRow] BY <1>5, <3>1, <3>3
    <3> QED BY <3>3, <3>4, <3>5
  <2> QED BY <2>1, <2>2
<1>7. \A w \in Operators \ ws : Steady(w) BY <1>1, <1>6 DEF Steady
<1>8. EntriesMove(Entrants \ {e})
  <2>1. entry' = [d \in Entrants |-> entry'[d]] /\ \A d \in Entrants \ {e} : entry'[d] = Noted(ws)[d]
    BY <1>1 DEF Noted
  <2> HIDE DEF ws
  <2> QED BY <1>7, <2>1, NotedMove
<1>9. EntriesOK'
  <2>1. \A d \in Entrants \ {e} : EntryOK(entry[d])' BY <1>8, EntriesStay DEF FleetInv
  <2>2. entry'[e] = NoEntry BY <1>1 DEF Noted
  <2>3. EntryOK(entry[e])' BY <2>2, EntryShapes DEF EntryOK
  <2> QED BY <1>8, <2>1, <2>3 DEF EntriesOK, EntriesMove
<1>10. FleetTypeOK' BY <1>1, <1>2, <1>6 DEF FleetTypeOK, UnitRow
<1>11. OdometerKept'
  <2>1. \A v \in Vehicles : unit'[v].km = unit[v].km BY <1>6 DEF Units
  <2> QED BY <1>1, <1>2, <2>1 DEF OdometerKept
<1>12. EntriesAllowed' BY <1>1, <1>2 DEF EntriesAllowed
<1> QED BY <1>9, <1>10, <1>11, <1>12 DEF FleetInv

\* Every step of the fleet.
LEMMA FleetStep == FleetInv /\ [FleetNext]_fleetVars => FleetInv'
<1> SUFFICES ASSUME FleetInv, [FleetNext]_fleetVars PROVE FleetInv'
  OBVIOUS
<1>1. CASE UNCHANGED fleetVars
  BY <1>1 DEF fleetVars, FleetInv, FleetTypeOK, EntriesAllowed, OdometerKept, EntriesOK, EntryOK, HasUnit, Qualified
<1> QED BY <1>1, DecisionStep, EntryBegins, ReadEquipmentStep, ReadVehiclesStep, ReadOrientationStep,
           CommitEntryStep, CommitUnitStep, CommitOdometerStep DEF FleetNext

\* The tables at the start.
LEMMA FleetStart == FleetInit => FleetInv
<1> SUFFICES ASSUME FleetInit PROVE FleetInv
  OBVIOUS
<1> USE DEF FleetInit
<1>1. FleetTypeOK
  <2>1. 0 \in 0..MaxChanges BY FleetAssumption
  <2>2. person \in [Operators -> [active: BOOLEAN, deployable: BOOLEAN, review: {"none", "approved", "declined"}]]
    OBVIOUS
  <2>3. due \in [Vehicles -> 0..MaxKm] BY DEF Units
  <2> QED BY <2>1, <2>2, <2>3 DEF FleetTypeOK
<1>2. EntriesAllowed /\ OdometerKept BY DEF EntriesAllowed, OdometerKept
<1>3. EntriesOK BY EntryShapes DEF EntriesOK, EntryOK
<1> QED BY <1>1, <1>2, <1>3 DEF FleetInv

\* What the handlers of field_operations.py and equipment.py keep of the fleet.
THEOREM FleetInvariant == FleetSpec => []FleetInv
<1>1. FleetInv /\ [FleetNext]_fleetVars => FleetInv' BY FleetStep
<1> QED BY <1>1, FleetStart, PTL DEF FleetSpec

\* Although the five tables are read one after the other, an undisturbed operator's
\* entry is allowed when it is committed, and an odometer that was not written by
\* two at a time is at its last reading (create_vehicle_log, update_vehicle).
THEOREM FleetIsKept == FleetSpec => []FleetHolds
<1>1. FleetInv => FleetHolds BY DEF FleetInv, FleetHolds
<1> QED BY <1>1, FleetInvariant, PTL

-----------------------------------------------------------------------------
(* Receipts: the inductive invariant.                                      *)

Posted == {"exported", "reconciled"}
Screens == [r: Receipts, version: 0..MaxVersion, reading: Readings]
ReceiptEdits == [at: {"update", "submit", "reconcile", "void"}, r: Receipts, read: ReceiptRow, new: ReceiptRow]
Creations == [r: Receipts, row: ReceiptRow, blind: BOOLEAN]

\* A row that exists says something, and has a version.
Real(row) == row \in ReceiptRow /\ row.status # "absent" /\ row.reading \in Readings /\ row.version # 0

ReceiptTablesOK ==
  /\ receipt \in [Receipts -> ReceiptRow] /\ agreed \in [Receipts -> Readings \cup {0}]
  /\ ledger \in [Receipts -> SUBSET [reading: Readings, version: 1..MaxVersion]]
  /\ overtaken \subseteq Receipts /\ creating \subseteq Creations
  /\ screen \in [Reviewers -> {NoScreen} \cup Screens] /\ edit \in [Reviewers -> {NoEdit} \cup ReceiptEdits]
  /\ \A r \in Receipts : receipt[r].status # "absent" => Real(receipt[r])

\* A version that a screen shows is not one to come, and says one thing.
ScreensOK ==
  \A u \in Reviewers, r \in Receipts : screen[u].r = r =>
    /\ receipt[r].status # "absent"
    /\ r \notin overtaken =>
         /\ screen[u].version <= receipt[r].version
         /\ screen[u].version = receipt[r].version => screen[u].reading = receipt[r].reading

\* A command leaves an approval and a posting as they were.
EditOK(e) ==
  /\ receipt[e.r].status # "absent" /\ e.read.status \notin {"absent", "void"}
  /\ Real(e.new) /\ e.new.version = e.read.version + 1
  /\ e.r \notin overtaken => e.read.version <= receipt[e.r].version
  /\ e.new.status \in Approved =>
       e.read.status \in Approved /\ e.new.reading = e.read.reading /\ e.new.duplicate = e.read.duplicate
  /\ e.new.status \in Posted <=> e.read.status \in Posted

EditsOK == \A u \in Reviewers : edit[u] # NoEdit => EditOK(edit[u])

\* What was agreed and what was posted, until a command's read was stale.
PostingsOK ==
  \A r \in Receipts :
    /\ Cardinality(ledger[r]) <= 1
    /\ r \notin overtaken =>
         /\ ledger[r] # {} => receipt[r].status \in Posted
         /\ receipt[r].status \in Approved => ~receipt[r].duplicate

\* A receipt that is being created is not there yet; it knows of the others of
\* its picture, or is created blindly beside one of them.
CreationsOK ==
  /\ \A c \in creating :
       /\ receipt[c.r].status = "absent" /\ Real(c.row) /\ c.row.status = "draft_extraction"
       /\ ~c.blind /\ ~c.row.duplicate =>
            \A s \in Receipts \ overtaken : s # c.r /\ ImageOf[s] = ImageOf[c.r] => receipt[s].status \in {"absent", "void"}
  /\ \A c, d \in creating : c # d =>
       c.r # d.r /\ (ImageOf[c.r] = ImageOf[d.r] => c.blind \/ d.blind)

Noticed(row) == row.duplicate \/ row.cleared \/ row.status \in {"absent", "void"}

\* The receipt is not known as a duplicate, or a command is to make it so.
Unnoticed(r) ==
  \/ ~Noticed(receipt[r])
  \/ \E u \in Reviewers : /\ edit[u] # NoEdit /\ edit[u].r = r /\ edit[u].read = receipt[r]
                          /\ ~Noticed(edit[u].new)

\* Of two receipts of a picture, one is known as a duplicate, or cleared.
TwinsNoticed ==
  \A r, s \in Receipts \ overtaken : r # s /\ ImageOf[r] = ImageOf[s] => ~Unnoticed(r) \/ ~Unnoticed(s)

ReceiptsInv ==
  /\ ReceiptTablesOK /\ ScreensOK /\ EditsOK /\ PostingsOK /\ PostedAsAgreed /\ CreationsOK /\ TwinsNoticed

-----------------------------------------------------------------------------
\* What a command, a screen and a creation are made of.
LEMMA ReceiptShapes ==
  /\ NoScreen \notin Screens /\ NoScreen.r \notin Receipts /\ NoEdit \notin ReceiptEdits
  /\ \A e \in ReceiptEdits : e.r \in Receipts /\ e.read \in ReceiptRow /\ e.new \in ReceiptRow /\ e # NoEdit
  /\ \A c \in Creations : c.r \in Receipts /\ c.row \in ReceiptRow /\ c.blind \in BOOLEAN
  /\ \A s \in Screens : s.r \in Receipts /\ s.version \in 0..MaxVersion /\ s.reading \in Readings
<1>1. \A s \in Screens : s.r \in Receipts /\ s.version \in 0..MaxVersion /\ s.reading \in Readings
  BY DEF Screens
<1>2. NoScreen.r \notin Receipts BY ReceiptsAssumption DEF NoScreen
<1>3. \A e \in ReceiptEdits : /\ e.at \in {"update", "submit", "reconcile", "void"}
                       /\ e.r \in Receipts /\ e.read \in ReceiptRow /\ e.new \in ReceiptRow
  BY DEF ReceiptEdits
<1>4. NoEdit.at = "idle" BY DEF NoEdit
<1>5. \A c \in Creations : c.r \in Receipts /\ c.row \in ReceiptRow /\ c.blind \in BOOLEAN BY DEF Creations
<1> QED BY <1>1, <1>2, <1>3, <1>4, <1>5

\* A row of a receipt is written, under a new version unless that was stale;
\* commands and screens may end with it.
LEMMA RowWritten ==
  ASSUME ReceiptsInv, NEW r \in Receipts, NEW new, Real(new), receipt[r].status # "absent",
         receipt' = [receipt EXCEPT ![r] = new], creating' = creating,
         overtaken \subseteq overtaken', overtaken' \subseteq Receipts,
         screen' \in [Reviewers -> {NoScreen} \cup Screens], edit' \in [Reviewers -> {NoEdit} \cup ReceiptEdits],
         \A u \in Reviewers : screen'[u] \in {screen[u], NoScreen} /\ edit'[u] \in {edit[u], NoEdit},
         r \notin overtaken' =>
           /\ receipt[r].status # "void" /\ new.version = receipt[r].version + 1
           /\ Noticed(new) \/ Unnoticed(r)
  PROVE  /\ receipt' \in [Receipts -> ReceiptRow] /\ receipt'[r] = new
         /\ \A s \in Receipts \ {r} : receipt'[s] = receipt[s]
         /\ \A s \in Receipts : receipt'[s].status # "absent" => Real(receipt'[s])
         /\ ScreensOK' /\ EditsOK' /\ CreationsOK' /\ TwinsNoticed'
<1>1. ReceiptTablesOK /\ ScreensOK /\ EditsOK /\ CreationsOK /\ TwinsNoticed BY DEF ReceiptsInv
<1>2. /\ receipt' \in [Receipts -> ReceiptRow] /\ receipt'[r] = new
      /\ \A s \in Receipts \ {r} : receipt'[s] = receipt[s]
  BY <1>1 DEF ReceiptTablesOK, Real
<1>3. \A s \in Receipts : receipt'[s].status # "absent" => Real(receipt'[s]) BY <1>1, <1>2 DEF ReceiptTablesOK
<1>4. new.status # "absent" /\ new.version \in Nat BY DEF Real, ReceiptRow
<1>5. \A s \in Receipts : receipt[s].version \in Nat BY <1>1 DEF ReceiptTablesOK, ReceiptRow
<1>6. ScreensOK'
  <2> SUFFICES ASSUME NEW u \in Reviewers, NEW s \in Receipts, screen'[u].r = s
               PROVE  /\ receipt'[s].status # "absent"
                      /\ s \notin overtaken' =>
                           /\ screen'[u].version <= receipt'[s].version
                           /\ screen'[u].version = receipt'[s].version => screen'[u].reading = receipt'[s].reading
    BY DEF ScreensOK
  <2>1. screen'[u] = screen[u] /\ screen[u] \in Screens BY <1>1, ReceiptShapes DEF ReceiptTablesOK
  <2>2. screen[u].version \in Nat BY <2>1, ReceiptShapes
  <2>3. CASE s # r BY <1>1, <1>2, <2>1, <2>3 DEF ScreensOK
  <2>4. CASE s = r
    <3>1. s \notin overtaken' => screen[u].version <= receipt[s].version /\ new.version = receipt[s].version + 1
      BY <1>1, <2>1, <2>4 DEF ScreensOK
    <3> QED BY <1>2, <1>4, <1>5, <2>1, <2>2, <2>4, <3>1
  <2> QED BY <2>3, <2>4
<1>7. EditsOK'
  <2> SUFFICES ASSUME NEW u \in Reviewers, edit'[u] # NoEdit PROVE EditOK(edit[u])'
    BY DEF EditsOK
  <2>1. PICK e \in ReceiptEdits : e = edit[u] /\ edit'[u] = e BY <1>1 DEF ReceiptTablesOK
  <2>2. EditOK(e) BY <1>1, <2>1, ReceiptShapes DEF EditsOK
  <2>3. e.r \in Receipts /\ e.read.version \in Nat BY ReceiptShapes DEF ReceiptRow
  <2>4. receipt'[e.r].status # "absent" BY <1>2, <1>4, <2>2, <2>3 DEF EditOK
  <2>5. e.r \notin overtaken' => e.read.version <= receipt'[e.r].version
    BY <1>2, <1>5, <2>2, <2>3 DEF EditOK
  <2> QED BY <2>1, <2>2, <2>4, <2>5 DEF EditOK
<1>8. CreationsOK'
  <2>1. \A c \in creating : c.r # r /\ c.r \in Receipts BY <1>1, ReceiptShapes DEF CreationsOK, ReceiptTablesOK
  <2>2. ASSUME NEW c \in creating, ~c.blind, ~c.row.duplicate, NEW s \in Receipts \ overtaken', s # c.r,
               ImageOf[s] = ImageOf[c.r]
        PROVE  receipt'[s].status \in {"absent", "void"}
    <3>1. receipt[s].status \in {"absent", "void"} BY <1>1, <2>2 DEF CreationsOK
    <3>2. s # r BY <3>1, <2>2
    <3> QED BY <1>2, <3>1, <3>2
  <2> QED BY <1>1, <1>2, <2>1, <2>2 DEF CreationsOK
<1>9. \A s \in Receipts \ overtaken' : Unnoticed(s)' => Unnoticed(s)
  <2> SUFFICES ASSUME NEW s \in Receipts \ overtaken', Unnoticed(s)' PROVE Unnoticed(s)
    OBVIOUS
  <2>1. CASE s # r
    <3>1. receipt'[s] = receipt[s] BY <1>2, <2>1
    <3> QED BY <3>1 DEF Unnoticed
  <2>2. CASE s = r
    <3>1. ASSUME NEW u \in Reviewers, edit'[u] # NoEdit, edit'[u].r = r, edit'[u].read = new PROVE FALSE
      <4>1. PICK e \in ReceiptEdits : e = edit[u] /\ edit'[u] = e BY <1>1, <3>1 DEF ReceiptTablesOK
      <4>2. e.read.version <= receipt[r].version BY <1>1, <2>2, <3>1, <4>1, ReceiptShapes DEF EditsOK, EditOK
      <4> QED BY <1>5, <2>2, <3>1, <4>1, <4>2
    <3>2. ~Noticed(new) BY <1>2, <2>2, <3>1 DEF Unnoticed
    <3> QED BY <2>2, <3>2
  <2> QED BY <2>1, <2>2
<1>10. TwinsNoticed' BY <1>1, <1>9 DEF TwinsNoticed
<1> QED BY <1>2, <1>3, <1>6, <1>7, <1>8, <1>10

\* Nothing is written; a screen may show a receipt as it is.
LEMMA LoadReceiptStep ==
  ASSUME ReceiptsInv, NEW u \in Reviewers, NEW r \in Receipts, LoadReceipt(u, r)
  PROVE  ReceiptsInv'
<1> DEFINE s == [r |-> r, version |-> receipt[r].version, reading |-> receipt[r].reading]
<1>1. /\ receipt[r].status # "absent" /\ screen' = [screen EXCEPT ![u] = s] /\ s.r = r
      /\ s.version = receipt[r].version /\ s.reading = receipt[r].reading
      /\ UNCHANGED <<receipt, edit, creating, ledger, agreed, overtaken>>
  BY DEF LoadReceipt
<1>2. s \in Screens BY <1>1 DEF ReceiptsInv, ReceiptTablesOK, Real, ReceiptRow, Screens
<1>3. receipt[r].version \in Nat BY DEF ReceiptsInv, ReceiptTablesOK, ReceiptRow
<1> HIDE DEF s
<1>4. ReceiptTablesOK' BY <1>1, <1>2 DEF ReceiptsInv, ReceiptTablesOK
<1>5. ScreensOK'
  <2>1. screen'[u] = s /\ \A v \in Reviewers \ {u} : screen'[v] = screen[v]
    BY <1>1 DEF ReceiptsInv, ReceiptTablesOK
  <2> QED BY <1>1, <1>3, <2>1 DEF ReceiptsInv, ScreensOK
<1> QED BY <1>1, <1>4, <1>5 DEF ReceiptsInv, EditsOK, EditOK, PostingsOK, PostedAsAgreed, CreationsOK, TwinsNoticed, Unnoticed

\* A command has read its row.
LEMMA EditBegins ==
  ASSUME ReceiptsInv, NEW u \in Reviewers, NEW r \in Receipts, NEW e \in ReceiptEdits,
         e.r = r, e.read = receipt[r], edit' = [edit EXCEPT ![u] = e], edit[u] = NoEdit,
         UNCHANGED <<receipt, screen, creating, ledger, agreed, overtaken>>,
         EditOK(e), Noticed(e.new) \/ ~Noticed(receipt[r]) \/ ~Twin(r)
  PROVE  ReceiptsInv'
<1>1. ReceiptTablesOK /\ EditsOK /\ TwinsNoticed BY DEF ReceiptsInv
<1>2. edit'[u] = e /\ \A v \in Reviewers \ {u} : edit'[v] = edit[v] BY <1>1 DEF ReceiptTablesOK
<1>3. ReceiptTablesOK' BY <1>1 DEF ReceiptTablesOK
<1>4. EditsOK'
  <2> SUFFICES ASSUME NEW v \in Reviewers, edit'[v] # NoEdit PROVE EditOK(edit[v])'
    BY DEF EditsOK
  <2>1. EditOK(edit'[v]) BY <1>1, <1>2 DEF EditsOK
  <2> QED BY <2>1 DEF EditOK
<1>5. \A s \in Receipts : s # r => (Unnoticed(s)' => Unnoticed(s))
  <2> SUFFICES ASSUME NEW s \in Receipts, s # r, Unnoticed(s)' PROVE Unnoticed(s)
    OBVIOUS
  <2>1. \A v \in Reviewers : edit'[v] # NoEdit /\ edit'[v].r = s => edit[v] = edit'[v] BY <1>2
  <2> QED BY <2>1 DEF Unnoticed
<1>6. Unnoticed(r)' => Unnoticed(r) \/ ~Twin(r)
  <2> SUFFICES ASSUME Unnoticed(r)', Twin(r) PROVE Unnoticed(r)
    OBVIOUS
  <2>1. ASSUME NEW v \in Reviewers, edit'[v] # NoEdit, edit'[v].r = r, edit'[v].read = receipt[r], ~Noticed(edit'[v].new)
        PROVE  Unnoticed(r)
    <3>1. CASE v = u BY <1>2, <2>1, <3>1 DEF Unnoticed
    <3>2. CASE v # u BY <1>2, <2>1, <3>2 DEF Unnoticed
    <3> QED BY <3>1, <3>2
  <2> QED BY <2>1 DEF Unnoticed
<1>7. ~Twin(r) => \A s \in Receipts : s # r /\ ImageOf[s] = ImageOf[r] => ~Unnoticed(s)
  <2> SUFFICES ASSUME ~Twin(r), NEW s \in Receipts, s # r, ImageOf[s] = ImageOf[r] PROVE ~Unnoticed(s)
    OBVIOUS
  <2>1. receipt[s].status \in {"absent", "void"} BY DEF Twin
  <2>2. \A v \in Reviewers : edit[v] # NoEdit => edit[v].read # receipt[s] BY <1>1, <2>1 DEF EditsOK, EditOK
  <2> QED BY <2>1, <2>2 DEF Unnoticed, Noticed
<1>8. TwinsNoticed' BY <1>1, <1>5, <1>6, <1>7 DEF TwinsNoticed
<1> QED BY <1>3, <1>4, <1>8 DEF ReceiptsInv, ScreensOK, PostingsOK, PostedAsAgreed, CreationsOK

\* What a command has read and what it makes of it.
LEMMA EditRead ==
  ASSUME ReceiptsInv, NEW u \in Reviewers, NEW r \in Receipts, NEW new \in ReceiptRow,
         NEW op \in {"update", "submit", "reconcile", "void"}, BeginEdit(u, op, r, new),
         receipt[r].status \notin {"absent", "void"}, new.status # "absent", new.reading \in Readings,
         new.status \in Approved =>
           receipt[r].status \in Approved /\ new.reading = receipt[r].reading /\ new.duplicate = receipt[r].duplicate,
         new.status \in Posted <=> receipt[r].status \in Posted,
         Noticed(new) \/ ~Noticed(receipt[r]) \/ ~Twin(r)
  PROVE  ReceiptsInv'
<1> DEFINE next == [new EXCEPT !.version = receipt[r].version + 1]
           e == [at |-> op, r |-> r, read |-> receipt[r], new |-> next]
<1>1. /\ receipt[r] \in ReceiptRow /\ receipt[r].version \in 0..MaxVersion /\ receipt[r].version < MaxVersion
      /\ edit[u] = NoEdit /\ edit' = [edit EXCEPT ![u] = e]
      /\ UNCHANGED <<receipt, screen, creating, ledger, agreed, overtaken>>
  BY DEF BeginEdit, NextVersion, ReceiptsInv, ReceiptTablesOK, ReceiptRow
<1>2. receipt[r].version + 1 \in 0..MaxVersion BY <1>1, ReceiptsAssumption
<1>3. /\ next \in ReceiptRow /\ next.version = receipt[r].version + 1 /\ next.status = new.status
      /\ next.reading = new.reading /\ next.duplicate = new.duplicate /\ next.cleared = new.cleared
  BY <1>2 DEF ReceiptRow
<1> HIDE DEF next
<1>4. e \in ReceiptEdits /\ e.r = r /\ e.read = receipt[r] /\ e.new = next BY <1>1, <1>3 DEF ReceiptEdits
<1> HIDE DEF e
<1>5. Real(next) BY <1>1, <1>3 DEF Real
<1>6. EditOK(e) BY <1>1, <1>3, <1>4, <1>5 DEF EditOK
<1>7. Noticed(next) = Noticed(new) BY <1>3 DEF Noticed
<1> QED BY <1>1, <1>4, <1>6, <1>7, EditBegins

\* Correction, submission, reconciliation and voiding, each up to its flush.
LEMMA BeginEditStep ==
  ASSUME ReceiptsInv, NEW u \in Reviewers, NEW r \in Receipts,
         \/ \E d \in Readings, b \in BOOLEAN : BeginCorrection(u, r, d, b)
         \/ BeginSubmission(u, r) \/ BeginReconcile(u, r) \/ BeginVoid(u, r)
  PROVE  ReceiptsInv'
<1>1. /\ receipt[r] \in ReceiptRow /\ ScreensOK
      /\ receipt[r].status # "absent" => receipt[r].reading \in Readings
  BY DEF ReceiptsInv, ReceiptTablesOK, Real
<1>2. ASSUME NEW d \in Readings, NEW b \in BOOLEAN, BeginCorrection(u, r, d, b) PROVE ReceiptsInv'
  <2>1. PICK f \in BOOLEAN : f = (Twin(r) /\ ~b) OBVIOUS
  <2>2. PICK g \in BOOLEAN : g = (Twin(r) /\ b) OBVIOUS
  <2> DEFINE n1 == [receipt[r] EXCEPT !.reading = d]
             n2 == [n1 EXCEPT !.duplicate = f]
             n3 == [n2 EXCEPT !.cleared = g]
  <2>3. receipt[r].status \in Editable /\ BeginEdit(u, "update", r, n3)
    <3>1. n3 = [receipt[r] EXCEPT !.reading = d, !.duplicate = f, !.cleared = g] BY <1>1 DEF ReceiptRow
    <3> QED BY <1>2, <2>1, <2>2, <3>1 DEF BeginCorrection
  <2>4. n1 \in ReceiptRow /\ n1.status = receipt[r].status /\ n1.reading = d BY <1>1 DEF ReceiptRow
  <2> HIDE DEF n1
  <2>5. n2 \in ReceiptRow /\ n2.status = n1.status /\ n2.reading = n1.reading /\ n2.duplicate = f
    BY <2>4 DEF ReceiptRow
  <2> HIDE DEF n2
  <2>6. /\ n3 \in ReceiptRow /\ n3.status = n2.status /\ n3.reading = n2.reading /\ n3.duplicate = n2.duplicate
        /\ n3.cleared = g
    BY <2>5 DEF ReceiptRow
  <2> HIDE DEF n3
  <2>7. Noticed(n3) \/ ~Twin(r) BY <2>1, <2>2, <2>5, <2>6 DEF Noticed
  <2>8. n3.status = receipt[r].status /\ n3.reading \in Readings BY <2>4, <2>5, <2>6
  <2>9. receipt[r].status \notin {"absent", "void"} \cup Approved \cup Posted BY <2>3 DEF Editable, Approved, Posted
  <2> QED BY <2>3, <2>6, <2>7, <2>8, <2>9, EditRead
<1>3. ASSUME NEW op \in {"submit", "reconcile", "void"}, NEW to \in {"needs_review", "reconciled", "void"},
             BeginEdit(u, op, r, [receipt[r] EXCEPT !.status = to]),
             \/ receipt[r].status = "draft_extraction" /\ to = "needs_review"
             \/ receipt[r].status = "exported" /\ to = "reconciled"
             \/ receipt[r].status \notin {"exported", "reconciled", "void"} /\ to = "void"
      PROVE  ReceiptsInv'
  <2> DEFINE new == [receipt[r] EXCEPT !.status = to]
  <2>1. BeginEdit(u, op, r, new) BY <1>3
  <2>2. /\ new \in ReceiptRow /\ new.status = to /\ new.reading = receipt[r].reading
        /\ new.duplicate = receipt[r].duplicate /\ new.cleared = receipt[r].cleared
    BY <1>1 DEF ReceiptRow, Editable, Approved
  <2> HIDE DEF new
  <2>3. receipt[r].status # "absent" BY <1>1, <2>1 DEF BeginEdit, Seen, ScreensOK
  <2>4. Noticed(new) \/ ~Noticed(receipt[r]) BY <1>3, <2>2, <2>3 DEF Noticed
  <2>5. op \in {"update", "submit", "reconcile", "void"} OBVIOUS
  <2> QED BY <1>1, <1>3, <2>1, <2>2, <2>3, <2>4, <2>5, EditRead DEF Approved, Posted
<1>4. CASE BeginSubmission(u, r) BY <1>3, <1>4 DEF BeginSubmission
<1>5. CASE BeginReconcile(u, r) BY <1>3, <1>5 DEF BeginReconcile
<1>6. CASE BeginVoid(u, r) BY <1>3, <1>6 DEF BeginVoid
<1> QED BY <1>2, <1>4, <1>5, <1>6

\* A receipt is about to be created.
LEMMA BeginCreateStep ==
  ASSUME ReceiptsInv, NEW r \in Receipts, NEW d \in Readings, BeginCreate(r, d)
  PROVE  ReceiptsInv'
<1>1. PICK f \in BOOLEAN : f = Twin(r) BY DEF Twin
<1>2. PICK blind \in BOOLEAN : blind = \E c \in creating : ImageOf[c.r] = ImageOf[r] OBVIOUS
<1> DEFINE row == [status |-> "draft_extraction", version |-> 1, reading |-> d, duplicate |-> f, cleared |-> FALSE]
           new == [r |-> r, row |-> row, blind |-> blind]
<1>3. /\ receipt[r] = NoReceipt /\ \A c \in creating : c.r # r
      /\ creating' = creating \cup {new}
      /\ UNCHANGED <<receipt, screen, edit, ledger, agreed, overtaken>>
  BY <1>1, <1>2 DEF BeginCreate
<1>4. Real(row) /\ row.status = "draft_extraction" /\ row.duplicate = f
  BY ReceiptsAssumption DEF Real, ReceiptRow, Editable
<1> HIDE DEF row
<1>5. new \in Creations /\ new.r = r /\ new.row = row /\ new.blind = blind BY <1>4 DEF Creations, Real
<1> HIDE DEF new
<1>6. ReceiptTablesOK' BY <1>3, <1>5 DEF ReceiptsInv, ReceiptTablesOK
<1>7. CreationsOK'
  <2>1. ~f => \A s \in Receipts : s # r /\ ImageOf[s] = ImageOf[r] => receipt[s].status \in {"absent", "void"}
    BY <1>1 DEF Twin
  <2>2. receipt[r].status = "absent" BY <1>3 DEF NoReceipt
  <2>3. \A c \in creating : c # new /\ c.r # r /\ (ImageOf[c.r] = ImageOf[r] => blind) BY <1>2, <1>3, <1>5
  <2> QED BY <1>3, <1>4, <1>5, <2>1, <2>2, <2>3 DEF ReceiptsInv, CreationsOK
<1> QED BY <1>3, <1>6, <1>7 DEF ReceiptsInv, ScreensOK, EditsOK, EditOK, PostingsOK, PostedAsAgreed, TwinsNoticed, Unnoticed

\* A receipt is created.
LEMMA CommitCreateStep ==
  ASSUME ReceiptsInv, NEW c \in creating, CommitCreate(c)
  PROVE  ReceiptsInv'
<1>1. ReceiptTablesOK /\ ScreensOK /\ EditsOK /\ PostingsOK /\ PostedAsAgreed /\ CreationsOK /\ TwinsNoticed
  BY DEF ReceiptsInv
<1>2. PICK r \in Receipts : r = c.r BY <1>1, ReceiptShapes DEF ReceiptTablesOK
<1>3. /\ receipt' = [receipt EXCEPT ![r] = c.row] /\ creating' = creating \ {c}
      /\ overtaken' = (IF c.blind THEN overtaken \cup {r} ELSE overtaken)
      /\ UNCHANGED <<screen, edit, ledger, agreed>>
  BY <1>2 DEF CommitCreate
<1>4. receipt[r].status = "absent" /\ Real(c.row) /\ c.row.status = "draft_extraction"
  BY <1>1, <1>2 DEF CreationsOK
<1>5. /\ receipt' \in [Receipts -> ReceiptRow] /\ receipt'[r] = c.row
      /\ \A s \in Receipts \ {r} : receipt'[s] = receipt[s]
  BY <1>1, <1>3, <1>4 DEF ReceiptTablesOK, Real
<1>6. ReceiptTablesOK' BY <1>1, <1>3, <1>4, <1>5 DEF ReceiptTablesOK
<1>7. \A u \in Reviewers : screen[u].r # r /\ (edit[u] # NoEdit => edit[u].r # r)
  BY <1>1, <1>4 DEF ScreensOK, EditsOK, EditOK
<1>8. ScreensOK' BY <1>1, <1>3, <1>5, <1>7 DEF ScreensOK
<1>9. EditsOK'
  <2> SUFFICES ASSUME NEW u \in Reviewers, edit[u] # NoEdit PROVE EditOK(edit[u])'
    BY <1>3 DEF EditsOK
  <2>1. EditOK(edit[u]) /\ edit[u].r \in Receipts \ {r} BY <1>1, <1>7, ReceiptShapes DEF EditsOK, ReceiptTablesOK
  <2>2. receipt'[edit[u].r] = receipt[edit[u].r] BY <1>5, <2>1
  <2>3. edit'[u] = edit[u] BY <1>3
  <2> QED BY <1>3, <2>1, <2>2, <2>3 DEF EditOK
<1>10. PostingsOK'
  <2>1. r \notin overtaken => ledger[r] = {} BY <1>1, <1>4 DEF PostingsOK, Posted
  <2>2. c.row.status \notin Approved BY <1>4 DEF Approved
  <2> QED BY <1>1, <1>3, <1>5, <2>1, <2>2 DEF PostingsOK
<1>11. PostedAsAgreed'
  <2>2. c.row.status \notin Approved BY <1>4 DEF Approved
  <2> QED BY <1>1, <1>3, <1>5, <2>2 DEF PostedAsAgreed
<1>12. CreationsOK'
  <2>1. \A d \in creating' : /\ d \in creating /\ d # c /\ d.r \in Receipts \ {r}
                             /\ ImageOf[d.r] = ImageOf[r] => d.blind \/ c.blind
    BY <1>1, <1>2, <1>3, ReceiptShapes DEF CreationsOK, ReceiptTablesOK
  <2>2. ASSUME NEW d \in creating', ~d.blind, ~d.row.duplicate, NEW s \in Receipts \ overtaken', s # d.r,
               ImageOf[s] = ImageOf[d.r]
        PROVE  receipt'[s].status \in {"absent", "void"}
    <3>1. CASE s = r BY <1>3, <2>1, <2>2, <3>1
    <3>2. CASE s # r BY <1>1, <1>3, <1>5, <2>1, <2>2, <3>2 DEF CreationsOK
    <3> QED BY <3>1, <3>2
  <2> QED BY <1>1, <1>5, <2>1, <2>2 DEF CreationsOK
<1>13. TwinsNoticed'
  <2>1. \A s \in Receipts : s # r => (Unnoticed(s)' => Unnoticed(s)) BY <1>3, <1>5 DEF Unnoticed
  <2>2. Unnoticed(r)' => ~Noticed(c.row) BY <1>3, <1>5, <1>7 DEF Unnoticed
  <2>3. ASSUME r \notin overtaken', ~Noticed(c.row), NEW s \in Receipts \ overtaken', s # r, ImageOf[s] = ImageOf[r]
        PROVE  ~Unnoticed(s)
    <3>1. receipt[s].status \in {"absent", "void"} BY <1>1, <1>2, <1>3, <2>3 DEF CreationsOK, Noticed
    <3>2. \A v \in Reviewers : edit[v] # NoEdit => edit[v].read # receipt[s] BY <1>1, <3>1 DEF EditsOK, EditOK
    <3> QED BY <3>1, <3>2 DEF Unnoticed, Noticed
  <2> QED BY <1>1, <1>3, <2>1, <2>2, <2>3 DEF TwinsNoticed
<1> QED BY <1>6, <1>8, <1>9, <1>10, <1>11, <1>12, <1>13 DEF ReceiptsInv

\* Of two rows, column by column, one or the other.
LEMMA MixedRow ==
  ASSUME NEW read \in ReceiptRow, NEW new, NEW row, Real(new), Real(row)
  PROVE  LET w == [f \in DOMAIN new |-> IF new[f] = read[f] THEN row[f] ELSE new[f]] IN
         Real(w) /\ (row = read => w = new)
<1> DEFINE w == [f \in DOMAIN new |-> IF new[f] = read[f] THEN row[f] ELSE new[f]]
<1>1. DOMAIN new = {"status", "version", "reading", "duplicate", "cleared"} BY DEF Real, ReceiptRow
<1>2. /\ w.status \in {row.status, new.status} /\ w.version \in {row.version, new.version}
      /\ w.reading \in {row.reading, new.reading} /\ w.duplicate \in {row.duplicate, new.duplicate}
      /\ w.cleared \in {row.cleared, new.cleared}
  BY <1>1
<1>3. w = [status |-> w.status, version |-> w.version, reading |-> w.reading, duplicate |-> w.duplicate,
           cleared |-> w.cleared]
  BY <1>1
<1>4. row = read => w = new
  <2>1. row = read => \A f \in DOMAIN new : w[f] = new[f] OBVIOUS
  <2>2. new = [f \in DOMAIN new |-> new[f]] BY DEF Real, ReceiptRow
  <2> QED BY <2>1, <2>2
<1> HIDE DEF w
<1>5. /\ w.status \in Editable \cup Approved \cup {"void"} /\ w.version \in 1..MaxVersion
      /\ w.reading \in Readings /\ w.duplicate \in BOOLEAN /\ w.cleared \in BOOLEAN
  BY <1>2, ReceiptsAssumption DEF Real, ReceiptRow
<1>6. w \in ReceiptRow
  <2>1. w.version \in 0..MaxVersion BY <1>5
  <2> QED BY <1>3, <1>5, <2>1 DEF ReceiptRow
<1>7. Real(w) BY <1>5, <1>6 DEF Real, Editable, Approved
<1> QED BY <1>4, <1>7 DEF w

\* A command is flushed.
LEMMA FlushEditStep ==
  ASSUME ReceiptsInv, NEW u \in Reviewers, FlushEdit(u)
  PROVE  ReceiptsInv'
<1>1. ReceiptTablesOK /\ ScreensOK /\ EditsOK /\ PostingsOK /\ PostedAsAgreed /\ CreationsOK /\ TwinsNoticed
  BY DEF ReceiptsInv
<1>2. PICK e \in ReceiptEdits : e = edit[u] BY <1>1 DEF FlushEdit, ReceiptTablesOK
<1>3. PICK r \in Receipts : r = e.r BY ReceiptShapes
<1> PICK new : new = [f \in DOMAIN e.new |-> IF e.new[f] = e.read[f] THEN receipt[r][f] ELSE e.new[f]] OBVIOUS
<1>4. /\ receipt' = [receipt EXCEPT ![r] = new]
      /\ overtaken' = (IF receipt[r] # e.read THEN overtaken \cup {r} ELSE overtaken)
      /\ edit' = [edit EXCEPT ![u] = NoEdit] /\ screen' = [screen EXCEPT ![u] = NoScreen]
      /\ UNCHANGED <<creating, ledger, agreed>>
  BY <1>2, <1>3 DEF FlushEdit
<1>5. EditOK(e) BY <1>1, <1>2, ReceiptShapes DEF EditsOK
<1>6. receipt[r].status # "absent" /\ Real(receipt[r]) BY <1>1, <1>3, <1>5 DEF EditOK, ReceiptTablesOK
<1>7. Real(new) /\ (receipt[r] = e.read => new = e.new)
  <2>1. e.read \in ReceiptRow BY ReceiptShapes
  <2> QED BY <1>5, <1>6, <2>1, MixedRow DEF EditOK
<1>8. r \notin overtaken' =>
        /\ receipt[r] = e.read /\ new = e.new /\ receipt[r].status # "void" /\ new.version = receipt[r].version + 1
        /\ Noticed(new) \/ Unnoticed(r)
  <2>1. Noticed(e.new) \/ receipt[r] # e.read \/ Unnoticed(r) BY <1>2, <1>3, ReceiptShapes DEF Unnoticed
  <2> QED BY <1>4, <1>5, <1>7, <2>1 DEF EditOK
<1>9. /\ screen' \in [Reviewers -> {NoScreen} \cup Screens] /\ edit' \in [Reviewers -> {NoEdit} \cup ReceiptEdits]
      /\ \A v \in Reviewers : screen'[v] \in {screen[v], NoScreen} /\ edit'[v] \in {edit[v], NoEdit}
      /\ overtaken \subseteq overtaken' /\ overtaken' \subseteq Receipts
  BY <1>1, <1>4 DEF ReceiptTablesOK
<1>10. /\ receipt' \in [Receipts -> ReceiptRow] /\ receipt'[r] = new
       /\ \A s \in Receipts \ {r} : receipt'[s] = receipt[s]
       /\ \A s \in Receipts : receipt'[s].status # "absent" => Real(receipt'[s])
       /\ ScreensOK' /\ EditsOK' /\ CreationsOK' /\ TwinsNoticed'
  BY <1>4, <1>6, <1>7, <1>8, <1>9, RowWritten
<1>11. ReceiptTablesOK' BY <1>1, <1>4, <1>9, <1>10 DEF ReceiptTablesOK
<1>12. PostingsOK' BY <1>1, <1>4, <1>5, <1>8, <1>9, <1>10 DEF PostingsOK, EditOK
<1>13. PostedAsAgreed' BY <1>1, <1>4, <1>5, <1>8, <1>9, <1>10 DEF PostedAsAgreed, EditOK
<1> QED BY <1>10, <1>11, <1>12, <1>13 DEF ReceiptsInv

\* A row with a new status and the next version.
LEMMA NextRow ==
  ASSUME NEW row, Real(row), row.version < MaxVersion, NEW to \in Approved
  PROVE  LET new == [row EXCEPT !.status = to, !.version = @ + 1] IN
         /\ Real(new) /\ new.status = to /\ new.version = row.version + 1 /\ new.reading = row.reading
         /\ new.duplicate = row.duplicate /\ new.cleared = row.cleared
<1> DEFINE n1 == [row EXCEPT !.status = to]
           n2 == [n1 EXCEPT !.version = @ + 1]
<1>1. /\ n1 \in ReceiptRow /\ n1.status = to /\ n1.version = row.version /\ n1.reading = row.reading
      /\ n1.duplicate = row.duplicate /\ n1.cleared = row.cleared
  BY DEF Real, ReceiptRow
<1>2. n2 = [row EXCEPT !.status = to, !.version = @ + 1] BY DEF Real, ReceiptRow
<1>3. row.version \in 1..MaxVersion /\ row.version + 1 \in 1..MaxVersion /\ row.reading \in Readings
  BY ReceiptsAssumption DEF Real, ReceiptRow
<1> HIDE DEF n1
<1>4. /\ n2 \in ReceiptRow /\ n2.status = n1.status /\ n2.version = n1.version + 1 /\ n2.reading = n1.reading
      /\ n2.duplicate = n1.duplicate /\ n2.cleared = n1.cleared
  BY <1>1, <1>3 DEF ReceiptRow
<1> HIDE DEF n2
<1>5. Real(n2) BY <1>1, <1>3, <1>4 DEF Real, Approved
<1> QED BY <1>1, <1>2, <1>4, <1>5

\* An approval or an export, under the lock of its row.
LEMMA LockedStep ==
  ASSUME ReceiptsInv, NEW u \in Reviewers, NEW r \in Receipts, Approve(u, r) \/ Export(u, r)
  PROVE  ReceiptsInv'
<1>1. ReceiptTablesOK /\ ScreensOK /\ EditsOK /\ PostingsOK /\ PostedAsAgreed /\ CreationsOK /\ TwinsNoticed
  BY DEF ReceiptsInv
<1>2. PICK to \in {"approved", "exported"} :
        /\ receipt' = [receipt EXCEPT ![r] = [receipt[r] EXCEPT !.status = to, !.version = @ + 1]]
        /\ to = "approved" =>
             /\ Approvable(u, r) /\ agreed' = [agreed EXCEPT ![r] = screen[u].reading] /\ ledger' = ledger
        /\ to = "exported" =>
             /\ Exportable(u, r) /\ agreed' = agreed
             /\ ledger' = [ledger EXCEPT ![r] = @ \cup {[reading |-> receipt[r].reading, version |-> receipt[r].version]}]
  BY <1>1 DEF Approve, Export, ReceiptTablesOK, ReceiptRow
<1>3. /\ receipt[r].version < MaxVersion /\ screen' = [screen EXCEPT ![u] = NoScreen]
      /\ UNCHANGED <<edit, creating, overtaken>>
  BY DEF Approve, Export
<1> PICK new : new = [receipt[r] EXCEPT !.status = to, !.version = @ + 1] OBVIOUS
<1>4. /\ receipt[r].status = (IF to = "approved" THEN "needs_review" ELSE "approved")
      /\ screen[u].r = r /\ screen[u].version = receipt[r].version
  BY <1>2 DEF Approvable, Exportable, Seen
<1>5. Real(receipt[r]) /\ receipt[r].status \notin {"absent", "void"} BY <1>1, <1>4 DEF ReceiptTablesOK
<1>6. /\ Real(new) /\ new.status = to /\ new.version = receipt[r].version + 1 /\ new.reading = receipt[r].reading
      /\ new.duplicate = receipt[r].duplicate /\ new.cleared = receipt[r].cleared
  <2>1. to \in Approved BY DEF Approved
  <2> QED BY <1>3, <1>5, <2>1, NextRow
<1>7. Noticed(new) \/ Unnoticed(r) BY <1>5, <1>6 DEF Noticed, Unnoticed
<1>8. screen[u] \in Screens BY <1>1, <1>4, ReceiptShapes DEF ReceiptTablesOK
<1>9. /\ screen' \in [Reviewers -> {NoScreen} \cup Screens] /\ edit' \in [Reviewers -> {NoEdit} \cup ReceiptEdits]
      /\ \A v \in Reviewers : screen'[v] \in {screen[v], NoScreen} /\ edit'[v] \in {edit[v], NoEdit}
      /\ overtaken' \subseteq Receipts
  BY <1>1, <1>3 DEF ReceiptTablesOK
<1>10. /\ receipt' \in [Receipts -> ReceiptRow] /\ receipt'[r] = new
       /\ \A s \in Receipts \ {r} : receipt'[s] = receipt[s]
       /\ \A s \in Receipts : receipt'[s].status # "absent" => Real(receipt'[s])
       /\ ScreensOK' /\ EditsOK' /\ CreationsOK' /\ TwinsNoticed'
  BY <1>2, <1>3, <1>5, <1>6, <1>7, <1>9, RowWritten
<1>11. CASE to = "approved"
  <2>1. /\ agreed' = [agreed EXCEPT ![r] = screen[u].reading] /\ ledger' = ledger
        /\ receipt[r].reading \in Complete /\ ~receipt[r].duplicate
    BY <1>2, <1>11 DEF Approvable
  <2>2. screen[u].reading \in Readings BY <1>8, ReceiptShapes
  <2>3. ReceiptTablesOK' BY <1>1, <1>3, <1>9, <1>10, <2>1, <2>2 DEF ReceiptTablesOK
  <2>4. r \notin overtaken => ledger[r] = {} BY <1>1, <1>4, <1>11 DEF PostingsOK, Posted
  <2>5. r \notin overtaken => screen[u].reading = receipt[r].reading BY <1>1, <1>4 DEF ScreensOK
  <2>6. PostingsOK' BY <1>1, <1>3, <1>6, <1>10, <2>1, <2>4 DEF PostingsOK
  <2>7. agreed'[r] = screen[u].reading /\ \A s \in Receipts \ {r} : agreed'[s] = agreed[s]
    BY <1>1, <2>1 DEF ReceiptTablesOK
  <2>8. PostedAsAgreed' BY <1>1, <1>3, <1>6, <1>10, <2>1, <2>4, <2>5, <2>7, ZenonT(40) DEF PostedAsAgreed
  <2> QED BY <1>10, <2>3, <2>6, <2>8 DEF ReceiptsInv
<1>12. CASE to = "exported"
  <2> DEFINE posting == [reading |-> receipt[r].reading, version |-> receipt[r].version]
  <2>1. ledger[r] = {} /\ agreed' = agreed /\ ledger' = [ledger EXCEPT ![r] = {posting}]
    BY <1>2, <1>12 DEF Exportable
  <2>2. posting \in [reading: Readings, version: 1..MaxVersion] /\ posting.reading = receipt[r].reading
    BY <1>5, ReceiptsAssumption DEF Real, ReceiptRow
  <2> HIDE DEF posting
  <2>3. /\ ledger' \in [Receipts -> SUBSET [reading: Readings, version: 1..MaxVersion]]
        /\ ledger'[r] = {posting} /\ \A s \in Receipts \ {r} : ledger'[s] = ledger[s]
    BY <1>1, <2>1, <2>2 DEF ReceiptTablesOK
  <2>4. ReceiptTablesOK' BY <1>1, <1>3, <1>9, <1>10, <2>1, <2>3 DEF ReceiptTablesOK
  <2>5. receipt[r].status = "approved" BY <1>4, <1>12
  <2>6. Cardinality(ledger'[r]) = 1 BY <2>3, FS_Singleton
  <2>7. ASSUME NEW s \in Receipts PROVE Cardinality(ledger'[s]) <= 1
    <3>1. CASE s = r BY <2>6, <3>1
    <3>2. CASE s # r
      <4>1. ledger'[s] = ledger[s] BY <2>3, <3>2
      <4> QED BY <1>1, <4>1 DEF PostingsOK
    <3> QED BY <3>1, <3>2
  <2>8. r \notin overtaken => ~receipt[r].duplicate BY <1>1, <2>5 DEF PostingsOK, Approved
  <2>9. PostingsOK' BY <1>1, <1>3, <1>6, <1>10, <1>12, <2>3, <2>7, <2>8 DEF PostingsOK, Posted
  <2>10. r \notin overtaken => receipt[r].reading = agreed[r] /\ agreed[r] \in Complete
    BY <1>1, <2>5 DEF PostedAsAgreed, Approved
  <2>11. PostedAsAgreed' BY <1>1, <1>3, <1>6, <1>10, <2>1, <2>2, <2>3, <2>10, ZenonT(40) DEF PostedAsAgreed
  <2> QED BY <1>10, <2>4, <2>9, <2>11 DEF ReceiptsInv
<1> QED BY <1>11, <1>12

\* No receipt.
LEMMA ReceiptsStart == ReceiptsInit => ReceiptsInv
<1> SUFFICES ASSUME ReceiptsInit PROVE ReceiptsInv
  OBVIOUS
<1> USE DEF ReceiptsInit
<1>1. NoReceipt \in ReceiptRow BY ReceiptsAssumption DEF NoReceipt, ReceiptRow
<1>2. NoReceipt.status = "absent" BY DEF NoReceipt
<1>3. ReceiptTablesOK BY <1>1, <1>2 DEF ReceiptTablesOK
<1>4. ScreensOK /\ EditsOK /\ CreationsOK BY ReceiptShapes DEF ScreensOK, EditsOK, CreationsOK
<1>5. PostingsOK BY <1>2, FS_EmptySet DEF PostingsOK, Approved
<1>6. PostedAsAgreed BY <1>2 DEF PostedAsAgreed, Approved
<1>7. TwinsNoticed BY <1>2 DEF TwinsNoticed, Unnoticed, Noticed
<1> QED BY <1>3, <1>4, <1>5, <1>6, <1>7 DEF ReceiptsInv

\* What receipts.py keeps of receipts, commands and creations.
THEOREM ReceiptsInvariant == ReceiptsSpec => []ReceiptsInv
<1>1. ReceiptsInv /\ [ReceiptsNext]_receiptVars => ReceiptsInv'
  <2> SUFFICES ASSUME ReceiptsInv, [ReceiptsNext]_receiptVars PROVE ReceiptsInv'
    OBVIOUS
  <2>1. CASE UNCHANGED receiptVars
    BY <2>1 DEF receiptVars, ReceiptsInv, ReceiptTablesOK, ScreensOK, EditsOK, EditOK, PostingsOK, PostedAsAgreed,
                CreationsOK, TwinsNoticed, Unnoticed
  <2> QED BY <2>1, BeginCreateStep, CommitCreateStep, LoadReceiptStep, BeginEditStep, FlushEditStep, LockedStep
          DEF ReceiptsNext
<1> QED BY <1>1, ReceiptsStart, PTL DEF ReceiptsSpec

\* However commands and creations race, a receipt is posted once and as its
\* approver saw it, nothing void is posted, and of two receipts of a picture
\* one was cleared (approve_receipt, export_receipt, _find_duplicate).
THEOREM ReceiptsStayPosted == ReceiptsSpec => []ReceiptsArePosted
<1>1. ReceiptsInv => ReceiptsArePosted
  <2> SUFFICES ASSUME ReceiptsInv PROVE ReceiptsArePosted
    OBVIOUS
  <2>1. ReceiptsTypeOK BY DEF ReceiptsInv, ReceiptTablesOK, ReceiptsTypeOK
  <2>2. PostedOnce /\ PostedAsAgreed BY DEF ReceiptsInv, PostingsOK, PostedOnce
  <2>3. VoidHasNoPosting BY DEF ReceiptsInv, PostingsOK, VoidHasNoPosting, Posted
  <2>4. DuplicatesAreCleared BY DEF ReceiptsInv, TwinsNoticed, PostingsOK, Unnoticed, Noticed, Approved, DuplicatesAreCleared
  <2> QED BY <2>1, <2>2, <2>3, <2>4 DEF ReceiptsArePosted
<1> QED BY <1>1, ReceiptsInvariant, PTL

-----------------------------------------------------------------------------
(* Onboarding: the inductive invariant.                                    *)

Operations == {"invite", "deliver", "expire", "open", "save", "submit", "revoke", "correct", "approve", "activate"}
Handlers == [at: Operations, o: Records, read: OnboardingRow, new: OnboardingRow]
Signed == {"submitted", "approved", "active"}

OnboardingTablesOK ==
  /\ OnboardingTypeOK /\ outdated \subseteq Records
  /\ handler \in [Calls -> {NoHandler} \cup Handlers]

\* A record that was submitted has a packet; an approved one was reviewed; links
\* are of one record each.
RecordsOK ==
  /\ \A o \in Records :
       /\ record[o].link <= links
       /\ record[o].status \in Signed => record[o].packet # 0
       /\ record[o].status \in {"approved", "active"} => reviewed[o] # 0
       /\ record[o].status \in Signed /\ o \notin outdated => record[o].signed
  /\ \A o, p \in Records : o # p /\ record[o].link = record[p].link => record[o].link = 0

\* What an operation may make of a row.
Plan(op, read, new) ==
  /\ read.status # "absent" /\ new.status # "absent"
  /\ op # "invite" => new.link = read.link /\ (read.revoked => new.revoked)
  /\ op # "activate" => new.employee = read.employee
  /\ op = "activate" => ~read.employee /\ new.employee
  /\ op = "approve" => read.status = "submitted"
  /\ new.packet # read.packet => new.packet # 0
  /\ new.status = "submitted" => new.packet # 0 /\ new.signed
  /\ new.status \in {"approved", "active"} =>
       /\ new.signed = read.signed /\ new.packet = read.packet
       /\ op = (IF new.status = "approved" THEN "approve" ELSE "activate")
       /\ read.status = (IF new.status = "approved" THEN "submitted" ELSE "approved")

\* What has become of the record since, and of the link to be issued.
Pending(h) ==
  /\ record[h.o].status # "absent"
  /\ h.read.packet # 0 => record[h.o].packet # 0
  /\ h.read.status \in Signed => h.read.packet # 0
  /\ h.at = "activate" => reviewed[h.o] # 0
  /\ h.at = "invite" =>
       /\ h.new.link \in 1..links /\ h.new.link \notin dead /\ h.new.link # h.read.link
       /\ \A o \in Records : record[o].link # h.new.link

HandlersOK ==
  /\ \A c \in Calls : handler[c] # NoHandler =>
       Plan(handler[c].at, handler[c].read, handler[c].new) /\ Pending(handler[c])
  /\ \A c, d \in Calls : c # d /\ handler[c] # NoHandler /\ handler[d] # NoHandler
                         /\ handler[c].at = "invite" /\ handler[d].at = "invite" =>
       handler[c].new.link # handler[d].new.link

OnboardingInv ==
  OnboardingTablesOK /\ RecordsOK /\ HandlersOK /\ ApprovedAsReviewed /\ HiredOnce /\ DeadLinksStayDead

-----------------------------------------------------------------------------
\* What a request is made of.
LEMMA HandlerShapes ==
  /\ NoHandler \notin Handlers
  /\ \A h \in Handlers : h.at \in Operations /\ h.o \in Records /\ h.read \in OnboardingRow /\ h.new \in OnboardingRow
<1>1. \A h \in Handlers : h.at \in Operations /\ h.o \in Records /\ h.read \in OnboardingRow /\ h.new \in OnboardingRow
  BY DEF Handlers
<1>2. NoHandler.at \notin Operations BY DEF NoHandler, Operations
<1> QED BY <1>1, <1>2

\* The columns of a row.
LEMMA RowColumns ==
  ASSUME NEW row \in OnboardingRow
  PROVE  /\ row.status \in OnboardingStatuses /\ row.link \in 0..MaxLinks /\ row.packet \in 0..MaxPackets
         /\ row.expired \in BOOLEAN /\ row.revoked \in BOOLEAN /\ row.signed \in BOOLEAN /\ row.employee \in BOOLEAN
BY DEF OnboardingRow

\* A request has read its record; it may have issued a link or a packet.
LEMMA RequestBegins ==
  ASSUME OnboardingInv, NEW c \in Calls, NEW o \in Records, NEW h \in Handlers,
         h.o = o, h.read = record[o], Plan(h.at, h.read, h.new), handler[c] = NoHandler,
         handler' = [handler EXCEPT ![c] = h],
         links' \in links..MaxLinks, packets' \in 0..MaxPackets,
         h.at = "invite" => links' = links + 1 /\ h.new.link = links + 1,
         h.at = "activate" => record[o].status = "approved",
         UNCHANGED <<record, oriented, hired, reviewed, outdated, dead>>
  PROVE  OnboardingInv'
<1>1. OnboardingTablesOK /\ RecordsOK /\ HandlersOK /\ ApprovedAsReviewed /\ HiredOnce /\ DeadLinksStayDead
  BY DEF OnboardingInv
<1>2. links \in Nat /\ links' \in 0..MaxLinks /\ links <= links'
  BY <1>1, OnboardingAssumption DEF OnboardingTablesOK, OnboardingTypeOK
<1>3. handler'[c] = h /\ \A d \in Calls \ {c} : handler'[d] = handler[d] BY <1>1 DEF OnboardingTablesOK
<1>4. OnboardingTablesOK'
  <2>1. 1..links \subseteq 1..links' BY <1>2
  <2> QED BY <1>1, <1>2, <2>1 DEF OnboardingTablesOK, OnboardingTypeOK
<1>5. \A p \in Records : record[p].link \in Nat /\ record[p].link <= links
  BY <1>1, RowColumns DEF OnboardingTablesOK, OnboardingTypeOK, RecordsOK
<1>6. RecordsOK' BY <1>1, <1>2, <1>5 DEF RecordsOK
<1>7. Pending(h)'
  <2>1. h.at = "invite" => \A p \in Records : record[p].link # links + 1 BY <1>2, <1>5
  <2>2. links + 1 \notin dead BY <1>1, <1>2 DEF OnboardingTablesOK, OnboardingTypeOK
  <2>3. h.at = "invite" => links + 1 \in 1..links' BY <1>2
  <2> QED BY <1>1, <2>1, <2>2, <2>3 DEF Pending, RecordsOK, Plan, Signed
<1>8. ASSUME NEW d \in Calls \ {c}, handler[d] # NoHandler
      PROVE  /\ Plan(handler[d].at, handler[d].read, handler[d].new) /\ Pending(handler[d])'
             /\ h.at = "invite" /\ handler[d].at = "invite" => handler[d].new.link # h.new.link
  <2>1. PICK g \in Handlers : g = handler[d] /\ g = handler'[d] BY <1>1, <1>3, <1>8 DEF OnboardingTablesOK
  <2>2. Plan(g.at, g.read, g.new) /\ Pending(g) BY <1>1, <1>8, <2>1 DEF HandlersOK
  <2>3. g.at = "invite" => g.new.link \in 1..links /\ g.new.link \in 1..links' BY <1>2, <2>2 DEF Pending
  <2>4. h.at = "invite" /\ g.at = "invite" => g.new.link # h.new.link BY <1>2, <2>3
  <2> QED BY <2>1, <2>2, <2>3, <2>4 DEF Pending
<1>9. HandlersOK'
  <2>1. \A d \in Calls : handler'[d] # NoHandler =>
          Plan(handler'[d].at, handler'[d].read, handler'[d].new) /\ Pending(handler[d])'
    BY <1>3, <1>7, <1>8 DEF Pending
  <2>2. \A d \in Calls \ {c}, e \in Calls \ {c} : d # e /\ handler'[d] # NoHandler /\ handler'[e] # NoHandler
          /\ handler'[d].at = "invite" /\ handler'[e].at = "invite" => handler'[d].new.link # handler'[e].new.link
    BY <1>1, <1>3 DEF HandlersOK
  <2>3. \A d \in Calls \ {c} : handler'[d] # NoHandler /\ handler'[d].at = "invite" /\ h.at = "invite" =>
          handler'[d].new.link # h.new.link
    BY <1>3, <1>8
  <2> QED BY <1>3, <2>1, <2>2, <2>3 DEF HandlersOK, Pending
<1>10. ApprovedAsReviewed' /\ HiredOnce' /\ DeadLinksStayDead'
  BY <1>1 DEF ApprovedAsReviewed, HiredOnce, DeadLinksStayDead
<1> QED BY <1>4, <1>6, <1>9, <1>10 DEF OnboardingInv

\* The same of a request that sets the status of the row that it read, and may
\* sign it or not, change its packet, close its link or hire.
LEMMA ReadStep ==
  ASSUME OnboardingInv, NEW c \in Calls, NEW o \in Records, NEW op \in Operations, NEW new \in OnboardingRow,
         Read(c, op, o, new), Plan(op, record[o], new),
         links' \in links..MaxLinks, packets' \in 0..MaxPackets,
         op = "invite" => links' = links + 1 /\ new.link = links + 1,
         op = "activate" => record[o].status = "approved"
  PROVE  OnboardingInv'
<1> DEFINE h == [at |-> op, o |-> o, read |-> record[o], new |-> new]
<1>1. record[o] \in OnboardingRow BY DEF OnboardingInv, OnboardingTablesOK, OnboardingTypeOK
<1>2. h \in Handlers /\ h.at = op /\ h.o = o /\ h.read = record[o] /\ h.new = new BY <1>1 DEF Handlers
<1>3. handler[c] = NoHandler /\ handler' = [handler EXCEPT ![c] = h]
      /\ UNCHANGED <<record, oriented, hired, reviewed, outdated, dead>>
  BY DEF Read
<1> HIDE DEF h
<1> QED BY <1>2, <1>3, RequestBegins

\* Nothing but the status of a row is changed.
LEMMA StatusPlan ==
  ASSUME NEW row \in OnboardingRow, NEW s \in OnboardingStatuses \ {"absent", "submitted", "approved", "active"},
         row.status # "absent", NEW op \in Operations \ {"invite", "activate", "approve"}
  PROVE  LET new == [row EXCEPT !.status = s] IN new \in OnboardingRow /\ Plan(op, row, new)
<1> DEFINE new == [row EXCEPT !.status = s]
<1>1. /\ new \in OnboardingRow /\ new.status = s /\ new.link = row.link /\ new.revoked = row.revoked
      /\ new.employee = row.employee /\ new.packet = row.packet
  BY DEF OnboardingRow
<1> HIDE DEF new
<1> QED BY <1>1 DEF Plan, new

\* What the handlers that change nothing but the status have read.
LEMMA StatusStep ==
  ASSUME OnboardingInv, NEW c \in Calls, NEW o \in Records, NEW op \in Operations \ {"invite", "activate", "approve"},
         NEW s \in OnboardingStatuses \ {"absent", "submitted", "approved", "active"},
         Read(c, op, o, [record[o] EXCEPT !.status = s]), UNCHANGED <<links, packets>>
  PROVE  OnboardingInv'
<1>1. record[o] \in OnboardingRow /\ links \in 0..MaxLinks /\ packets \in 0..MaxPackets
  BY DEF OnboardingInv, OnboardingTablesOK, OnboardingTypeOK
<1>2. record[o].status # "absent" BY DEF Read
<1>3. [record[o] EXCEPT !.status = s] \in OnboardingRow /\ Plan(op, record[o], [record[o] EXCEPT !.status = s])
  BY <1>1, <1>2, StatusPlan
<1>4. links' \in links..MaxLinks /\ packets' \in 0..MaxPackets BY <1>1, OnboardingAssumption
<1> PICK new : new = [record[o] EXCEPT !.status = s] OBVIOUS
<1> QED BY <1>3, <1>4, ReadStep

\* Delivery, an expired or an opened link, and corrections.
LEMMA StatusSteps ==
  ASSUME OnboardingInv, NEW c \in Calls, NEW o \in Records,
         \/ BeginDeliver(c, o) \/ BeginCorrections(c, o) \/ \E l \in 1..links : OpenPortal(c, o, l)
  PROVE  OnboardingInv'
<1>1. CASE BeginDeliver(c, o)
  BY <1>1, StatusStep DEF BeginDeliver, Operations, OnboardingStatuses, Invitable
<1>2. CASE BeginCorrections(c, o)
  BY <1>2, StatusStep DEF BeginCorrections, Operations, OnboardingStatuses, Invitable
<1>3. ASSUME NEW l \in 1..links, OpenPortal(c, o, l) PROVE OnboardingInv'
  <2>1. PICK op \in {"expire", "open"}, s \in {"invitation_expired", "invitation_opened"} :
          Read(c, op, o, [record[o] EXCEPT !.status = s])
    BY <1>3 DEF OpenPortal, Portal
  <2>2. UNCHANGED <<links, packets>> BY <1>3 DEF OpenPortal
  <2> QED BY <2>1, <2>2, StatusStep DEF Operations, OnboardingStatuses, Invitable
<1> QED BY <1>1, <1>2, <1>3

\* Approval and activation.
LEMMA ApproveSteps ==
  ASSUME OnboardingInv, NEW c \in Calls, NEW o \in Records, BeginApprove(c, o) \/ BeginActivate(c, o)
  PROVE  OnboardingInv'
<1>1. /\ record[o] \in OnboardingRow /\ links' \in links..MaxLinks /\ packets' \in 0..MaxPackets
  BY OnboardingAssumption
     DEF OnboardingInv, OnboardingTablesOK, OnboardingTypeOK, BeginApprove, BeginActivate
<1>2. CASE BeginApprove(c, o)
  <2> DEFINE new == [record[o] EXCEPT !.status = "approved"]
  <2>1. /\ new \in OnboardingRow /\ new.status = "approved" /\ new.link = record[o].link
        /\ new.revoked = record[o].revoked /\ new.employee = record[o].employee /\ new.packet = record[o].packet
        /\ new.signed = record[o].signed
    BY <1>1 DEF OnboardingRow, OnboardingStatuses, LinkClosed
  <2>2. Read(c, "approve", o, new) /\ record[o].status = "submitted" BY <1>2 DEF BeginApprove
  <2> HIDE DEF new
  <2>3. Plan("approve", record[o], new) BY <2>1, <2>2 DEF Plan
  <2> QED BY <1>1, <2>1, <2>2, <2>3, ReadStep DEF Operations
<1>3. CASE BeginActivate(c, o)
  <2> DEFINE n1 == [record[o] EXCEPT !.status = "active"]
             new == [n1 EXCEPT !.employee = TRUE]
  <2>1. /\ n1 \in OnboardingRow /\ n1.status = "active" /\ n1.link = record[o].link
        /\ n1.revoked = record[o].revoked /\ n1.packet = record[o].packet /\ n1.signed = record[o].signed
    BY <1>1 DEF OnboardingRow, OnboardingStatuses, LinkClosed
  <2>2. new = [record[o] EXCEPT !.status = "active", !.employee = TRUE] BY <1>1 DEF OnboardingRow
  <2>3. Read(c, "activate", o, new) /\ record[o].status = "approved" /\ ~record[o].employee
    BY <1>3, <2>2 DEF BeginActivate
  <2> HIDE DEF n1
  <2>4. /\ new \in OnboardingRow /\ new.status = n1.status /\ new.link = n1.link
        /\ new.revoked = n1.revoked /\ new.packet = n1.packet /\ new.signed = n1.signed /\ new.employee = TRUE
    BY <2>1 DEF OnboardingRow
  <2> HIDE DEF new
  <2>5. Plan("activate", record[o], new) BY <2>1, <2>3, <2>4 DEF Plan
  <2> QED BY <1>1, <2>3, <2>4, <2>5, ReadStep DEF Operations
<1> QED BY <1>2, <1>3

\* A link is issued.
LEMMA InviteStep ==
  ASSUME OnboardingInv, NEW c \in Calls, NEW o \in Records, BeginInvite(c, o)
  PROVE  OnboardingInv'
<1>1. /\ record[o] \in OnboardingRow /\ links \in Nat /\ links < MaxLinks /\ links' = links + 1
      /\ packets' \in 0..MaxPackets /\ record[o].status \in Invitable /\ Read(c, "invite", o, Invited(record[o]))
  BY OnboardingAssumption DEF OnboardingInv, OnboardingTablesOK, OnboardingTypeOK, BeginInvite
<1>2. links + 1 \in 0..MaxLinks /\ links' \in links..MaxLinks BY <1>1, OnboardingAssumption
<1> DEFINE row == record[o]
           n1 == [row EXCEPT !.status = "invitation_ready"]
           n2 == [n1 EXCEPT !.link = links + 1]
           n3 == [n2 EXCEPT !.expired = FALSE]
           new == [n3 EXCEPT !.revoked = FALSE]
<1>3. new = Invited(row) BY <1>1 DEF Invited, OnboardingRow
<1>4. /\ n1 \in OnboardingRow /\ n1.status = "invitation_ready" /\ n1.employee = row.employee /\ n1.packet = row.packet
  BY <1>1 DEF OnboardingRow, OnboardingStatuses, Invitable
<1> HIDE DEF n1
<1>5. /\ n2 \in OnboardingRow /\ n2.status = n1.status /\ n2.employee = n1.employee /\ n2.packet = n1.packet
      /\ n2.link = links + 1
  BY <1>2, <1>4 DEF OnboardingRow
<1> HIDE DEF n2
<1>6. /\ n3 \in OnboardingRow /\ n3.status = n2.status /\ n3.employee = n2.employee /\ n3.packet = n2.packet
      /\ n3.link = n2.link
  BY <1>5 DEF OnboardingRow
<1> HIDE DEF n3
<1>7. /\ new \in OnboardingRow /\ new.status = n3.status /\ new.employee = n3.employee /\ new.packet = n3.packet
      /\ new.link = n3.link
  BY <1>6 DEF OnboardingRow
<1> HIDE DEF new
<1>8. Plan("invite", record[o], new) BY <1>1, <1>4, <1>5, <1>6, <1>7 DEF Plan, Read
<1> QED BY <1>1, <1>2, <1>3, <1>5, <1>6, <1>7, <1>8, ReadStep DEF Operations

\* A packet is saved or submitted, or a record is cancelled.
LEMMA PacketSteps ==
  ASSUME OnboardingInv, NEW c \in Calls, NEW o \in Records,
         BeginRevoke(c, o) \/ \E l \in 1..links : BeginSave(c, o, l) \/ BeginSubmit(c, o, l)
  PROVE  OnboardingInv'
<1>1. /\ record[o] \in OnboardingRow /\ links \in 0..MaxLinks /\ packets \in 0..MaxPackets /\ packets \in Nat
      /\ links' = links
  BY OnboardingAssumption
     DEF OnboardingInv, OnboardingTablesOK, OnboardingTypeOK, BeginRevoke, BeginSave, BeginSubmit
<1>2. links' \in links..MaxLinks BY <1>1, OnboardingAssumption
<1> DEFINE row == record[o]
<1>3. CASE BeginRevoke(c, o)
  <2> DEFINE n1 == [row EXCEPT !.status = "cancelled"]
             new == [n1 EXCEPT !.revoked = TRUE]
  <2>1. new = [row EXCEPT !.status = "cancelled", !.revoked = TRUE] BY <1>1 DEF OnboardingRow
  <2>2. Read(c, "revoke", o, new) /\ packets' = packets BY <1>3, <2>1 DEF BeginRevoke
  <2>3. /\ n1 \in OnboardingRow /\ n1.status = "cancelled" /\ n1.link = row.link /\ n1.employee = row.employee
        /\ n1.packet = row.packet
    BY <1>1 DEF OnboardingRow, OnboardingStatuses, LinkClosed
  <2> HIDE DEF n1
  <2>4. /\ new \in OnboardingRow /\ new.status = n1.status /\ new.link = n1.link /\ new.employee = n1.employee
        /\ new.packet = n1.packet /\ new.revoked = TRUE
    BY <2>3 DEF OnboardingRow
  <2> HIDE DEF new
  <2>5. Plan("revoke", record[o], new) BY <2>2, <2>3, <2>4 DEF Plan, Read
  <2> QED BY <1>1, <1>2, <2>2, <2>4, <2>5, ReadStep DEF Operations
<1>4. ASSUME NEW l \in 1..links, BeginSave(c, o, l) \/ BeginSubmit(c, o, l) PROVE OnboardingInv'
  <2>1. PICK op \in {"save", "submit"}, s \in {"in_progress", "submitted"}, b \in BOOLEAN :
          /\ Read(c, op, o, [row EXCEPT !.status = s, !.packet = packets + 1, !.signed = b])
          /\ s = "submitted" => b = TRUE
          /\ packets < MaxPackets /\ packets' = packets + 1
    <3>1. CASE BeginSave(c, o, l) BY <3>1 DEF BeginSave, Portal, SavedForm
    <3>2. CASE BeginSubmit(c, o, l) BY <3>2 DEF BeginSubmit, Portal, Submitted
    <3> QED BY <1>4, <3>1, <3>2
  <2>2. packets + 1 \in 1..MaxPackets /\ packets + 1 \in 0..MaxPackets BY <1>1, <2>1, OnboardingAssumption
  <2> DEFINE n1 == [row EXCEPT !.status = s]
             n2 == [n1 EXCEPT !.packet = packets + 1]
             new == [n2 EXCEPT !.signed = b]
  <2>3. new = [row EXCEPT !.status = s, !.packet = packets + 1, !.signed = b] BY <1>1 DEF OnboardingRow
  <2>4. /\ n1 \in OnboardingRow /\ n1.status = s /\ n1.link = row.link /\ n1.employee = row.employee
        /\ n1.revoked = row.revoked
    BY <1>1 DEF OnboardingRow, OnboardingStatuses, Invitable
  <2> HIDE DEF n1
  <2>5. /\ n2 \in OnboardingRow /\ n2.status = n1.status /\ n2.link = n1.link /\ n2.employee = n1.employee
        /\ n2.revoked = n1.revoked /\ n2.packet = packets + 1
    BY <2>2, <2>4 DEF OnboardingRow
  <2> HIDE DEF n2
  <2>6. /\ new \in OnboardingRow /\ new.status = n2.status /\ new.link = n2.link /\ new.employee = n2.employee
        /\ new.revoked = n2.revoked /\ new.packet = n2.packet /\ new.signed = b
    BY <2>5 DEF OnboardingRow
  <2>7. Read(c, op, o, new) BY <2>1, <2>3
  <2> HIDE DEF new
  <2>8. packets + 1 # 0 BY <1>1
  <2>9. Plan(op, record[o], new) BY <2>1, <2>4, <2>5, <2>6, <2>7, <2>8 DEF Plan, Read
  <2> QED BY <1>2, <2>1, <2>2, <2>6, <2>7, <2>9, ReadStep DEF Operations
<1> QED BY <1>3, <1>4

\* What a commit makes of a row, column by column.
LEMMA WrittenRow ==
  ASSUME NEW o \in Records, record[o] \in OnboardingRow, NEW read \in OnboardingRow, NEW new \in OnboardingRow
  PROVE  LET w == WrittenColumns(o, read, new) IN
         /\ w \in OnboardingRow /\ (record[o] = read => w = new)
         /\ w.status = (IF new.status = read.status THEN record[o].status ELSE new.status)
         /\ w.link = (IF new.link = read.link THEN record[o].link ELSE new.link)
         /\ w.packet = (IF new.packet = read.packet THEN record[o].packet ELSE new.packet)
         /\ w.revoked = (IF new.revoked = read.revoked THEN record[o].revoked ELSE new.revoked)
         /\ w.employee = (IF new.employee = read.employee THEN record[o].employee ELSE new.employee)
<1> DEFINE w == WrittenColumns(o, read, new)
<1>1. DOMAIN new = {"status", "link", "expired", "revoked", "packet", "signed", "employee"} BY DEF OnboardingRow
<1>2. /\ w.status = (IF new.status = read.status THEN record[o].status ELSE new.status)
      /\ w.link = (IF new.link = read.link THEN record[o].link ELSE new.link)
      /\ w.packet = (IF new.packet = read.packet THEN record[o].packet ELSE new.packet)
      /\ w.revoked = (IF new.revoked = read.revoked THEN record[o].revoked ELSE new.revoked)
      /\ w.employee = (IF new.employee = read.employee THEN record[o].employee ELSE new.employee)
      /\ w.expired \in {record[o].expired, new.expired} /\ w.signed \in {record[o].signed, new.signed}
  BY <1>1 DEF WrittenColumns
<1>3. w = [status |-> w.status, link |-> w.link, expired |-> w.expired, revoked |-> w.revoked,
           packet |-> w.packet, signed |-> w.signed, employee |-> w.employee]
  BY <1>1 DEF WrittenColumns
<1>4. record[o] = read => w = new
  <2>1. record[o] = read => \A f \in DOMAIN new : w[f] = new[f] BY DEF WrittenColumns
  <2>2. new = [f \in DOMAIN new |-> new[f]] BY DEF OnboardingRow
  <2>3. w = [f \in DOMAIN new |-> w[f]] BY DEF WrittenColumns
  <2> QED BY <2>1, <2>2, <2>3
<1> HIDE DEF w
<1>5. /\ w.status \in OnboardingStatuses /\ w.link \in 0..MaxLinks /\ w.packet \in 0..MaxPackets
      /\ w.expired \in BOOLEAN /\ w.revoked \in BOOLEAN /\ w.signed \in BOOLEAN /\ w.employee \in BOOLEAN
  BY <1>2, RowColumns
<1>6. w \in OnboardingRow BY <1>3, <1>5 DEF OnboardingRow
<1> QED BY <1>2, <1>4, <1>6 DEF w

\* A request is committed.
LEMMA CommitRecordStep ==
  ASSUME OnboardingInv, NEW c \in Calls, CommitRecord(c)
  PROVE  OnboardingInv'
<1>1. OnboardingTablesOK /\ OnboardingTypeOK /\ RecordsOK /\ HandlersOK /\ ApprovedAsReviewed /\ HiredOnce /\ DeadLinksStayDead
  BY DEF OnboardingInv, OnboardingTablesOK
<1>2. PICK h \in Handlers : h = handler[c] BY <1>1 DEF CommitRecord, OnboardingTablesOK
<1>3. PICK o \in Records : o = h.o BY HandlerShapes
<1> PICK after : after = WrittenColumns(o, h.read, h.new) OBVIOUS
<1>4. /\ h.at = "activate" => EmailFree(o)
      /\ record' = [record EXCEPT ![o] = after]
      /\ hired' = (IF h.at = "activate" THEN [hired EXCEPT ![EmailOf[o]] = @ \cup {o}] ELSE hired)
      /\ reviewed' = (IF h.at = "approve" THEN [reviewed EXCEPT ![o] = h.read.packet] ELSE reviewed)
      /\ outdated' = (IF record[o] # h.read THEN outdated \cup {o} ELSE outdated)
      /\ dead' = (dead \cup ({record[o].link} \ {after.link}) \cup {l \in {after.link} : after.revoked}) \ {0}
      /\ handler' = [handler EXCEPT ![c] = NoHandler]
      /\ UNCHANGED <<oriented, links, packets>>
  BY <1>2, <1>3 DEF CommitRecord
<1>5. Plan(h.at, h.read, h.new) /\ Pending(h) BY <1>1, <1>2, HandlerShapes DEF HandlersOK
<1>6. record[o] \in OnboardingRow /\ h.read \in OnboardingRow /\ h.new \in OnboardingRow
  BY <1>1, HandlerShapes DEF OnboardingTypeOK
<1>7. /\ after \in OnboardingRow /\ (record[o] = h.read => after = h.new)
      /\ after.status = (IF h.new.status = h.read.status THEN record[o].status ELSE h.new.status)
      /\ after.link = (IF h.new.link = h.read.link THEN record[o].link ELSE h.new.link)
      /\ after.packet = (IF h.new.packet = h.read.packet THEN record[o].packet ELSE h.new.packet)
      /\ after.revoked = (IF h.new.revoked = h.read.revoked THEN record[o].revoked ELSE h.new.revoked)
      /\ after.employee = (IF h.new.employee = h.read.employee THEN record[o].employee ELSE h.new.employee)
  BY <1>6, WrittenRow
<1> HIDE DEF OnboardingRow
<1>8. /\ record' \in [Records -> OnboardingRow] /\ record'[o] = after
      /\ \A p \in Records \ {o} : record'[p] = record[p]
  BY <1>1, <1>4, <1>7 DEF OnboardingTypeOK
<1>9. after.status # "absent" /\ (record[o].packet # 0 => after.packet # 0) /\ (h.at = "approve" => h.read.packet # 0)
  BY <1>3, <1>5, <1>7 DEF Plan, Pending, Signed
<1>10. /\ after.link = record[o].link \/ (h.at = "invite" /\ after.link = h.new.link)
       /\ h.at = "invite" => after.link = h.new.link
       /\ after.link = record[o].link /\ record[o].revoked /\ h.at # "invite" => after.revoked
  <2>1. h.at # "invite" => after.link = record[o].link BY <1>5, <1>7 DEF Plan
  <2>2. h.at = "invite" => after.link = h.new.link BY <1>5, <1>7 DEF Pending
  <2>3. h.at # "invite" /\ record[o].revoked => after.revoked
    <3>1. h.read.revoked \in BOOLEAN /\ h.new.revoked \in BOOLEAN BY <1>6, RowColumns
    <3> QED BY <1>5, <1>7, <3>1 DEF Plan
  <2> QED BY <2>1, <2>2, <2>3
<1>11. after.link \in 0..links /\ after.link \in Nat /\ record[o].link \in 0..links /\ links \in Nat
  <2>1. record[o].link \in Nat /\ record[o].link <= links /\ links \in Nat
    BY <1>1, <1>6, RowColumns DEF OnboardingTypeOK, RecordsOK
  <2> QED BY <1>5, <1>10, <2>1 DEF Pending
<1>12. dead' \subseteq dead \cup {record[o].link, after.link} /\ dead' \subseteq 1..links
  <2>1. dead' \subseteq dead \cup {record[o].link, after.link} /\ 0 \notin dead' BY <1>4
  <2> QED BY <1>1, <1>11, <2>1 DEF OnboardingTypeOK
<1>13. hired' \in [Emails -> SUBSET Records]
  BY <1>1, <1>4 DEF OnboardingTypeOK, Emails
<1>14. reviewed' \in [Records -> 0..MaxPackets] /\ \A p \in Records \ {o} : reviewed'[p] = reviewed[p]
  BY <1>1, <1>4, <1>6, RowColumns DEF OnboardingTypeOK
<1>15. /\ h.at = "approve" => reviewed'[o] = h.read.packet
       /\ h.at # "approve" => reviewed'[o] = reviewed[o]
       /\ reviewed[o] # 0 => reviewed'[o] # 0
  BY <1>1, <1>4, <1>9 DEF OnboardingTypeOK
<1>16. OnboardingTablesOK'
  BY <1>1, <1>4, <1>8, <1>12, <1>13, <1>14 DEF OnboardingTablesOK, OnboardingTypeOK
<1>17. RecordsOK'
  <2>1. after.status \in Signed => after.packet # 0
    BY <1>1, <1>3, <1>5, <1>7, <1>9 DEF RecordsOK, Plan, Pending, Signed
  <2>2. after.status \in {"approved", "active"} => reviewed'[o] # 0
    BY <1>1, <1>3, <1>5, <1>7, <1>9, <1>15 DEF RecordsOK, Plan, Pending
  <2>3. after.status \in Signed /\ o \notin outdated' => after.signed
    BY <1>1, <1>4, <1>5, <1>7 DEF RecordsOK, Plan, Signed
  <2>4. \A p \in Records \ {o} : record[p].link = after.link => record[p].link = 0
    BY <1>1, <1>5, <1>10 DEF RecordsOK, Pending
  <2>5. after.link <= links' BY <1>4, <1>11
  <2>6. \A p \in Records :
          /\ record'[p].link <= links' /\ (record'[p].status \in Signed => record'[p].packet # 0)
          /\ record'[p].status \in {"approved", "active"} => reviewed'[p] # 0
          /\ record'[p].status \in Signed /\ p \notin outdated' => record'[p].signed
    BY <1>1, <1>4, <1>8, <1>14, <2>1, <2>2, <2>3, <2>5 DEF RecordsOK
  <2>7. \A p, q \in Records : p # q /\ record'[p].link = record'[q].link => record'[p].link = 0
    BY <1>1, <1>8, <2>4 DEF RecordsOK
  <2> QED BY <2>6, <2>7 DEF RecordsOK
<1>18. HandlersOK'
  <2>1. \A d \in Calls : handler'[d] # NoHandler => d # c /\ handler'[d] = handler[d]
    BY <1>1, <1>4 DEF OnboardingTablesOK
  <2>2. ASSUME NEW d \in Calls, handler'[d] # NoHandler PROVE Pending(handler[d])'
    <3>1. PICK g \in Handlers : g = handler[d] /\ g = handler'[d] BY <1>1, <2>1, <2>2 DEF OnboardingTablesOK
    <3>2. Pending(g) /\ g.o \in Records BY <1>1, <2>1, <2>2, <3>1, HandlerShapes DEF HandlersOK
    <3>3. record'[g.o].status # "absent" /\ (g.read.packet # 0 => record'[g.o].packet # 0)
      BY <1>8, <1>9, <3>2 DEF Pending
    <3>4. g.at = "activate" => reviewed'[g.o] # 0 BY <1>14, <1>15, <3>2 DEF Pending
    <3>5. ASSUME g.at = "invite"
          PROVE  /\ g.new.link \in 1..links /\ g.new.link \notin dead'
                 /\ \A p \in Records : record'[p].link # g.new.link
      <4>1. g.new.link # after.link
        <5>1. h.at = "invite" => g.new.link # h.new.link BY <1>1, <1>2, <2>1, <2>2, <3>1, <3>5, HandlerShapes DEF HandlersOK
        <5> QED BY <1>10, <3>2, <3>5, <5>1 DEF Pending
      <4> QED BY <1>8, <1>12, <3>2, <3>5, <4>1 DEF Pending
    <3> QED BY <1>4, <3>1, <3>2, <3>3, <3>4, <3>5 DEF Pending
  <2> QED BY <1>1, <2>1, <2>2 DEF HandlersOK
<1>19. ApprovedAsReviewed'
  <2>1. ASSUME after.status \in {"approved", "active"}, o \notin outdated'
        PROVE  after.signed /\ after.packet = reviewed'[o]
    <3>1. record[o] = h.read /\ after = h.new /\ o \notin outdated BY <1>4, <1>7, <2>1
    <3>2. h.new.signed = h.read.signed /\ h.new.packet = h.read.packet BY <1>5, <2>1, <3>1 DEF Plan
    <3>3. CASE h.new.status = "approved"
      <4>1. h.at = "approve" /\ h.read.status = "submitted" BY <1>5, <3>3 DEF Plan
      <4> QED BY <1>1, <1>15, <3>1, <3>2, <4>1 DEF RecordsOK, Signed
    <3>4. CASE h.new.status = "active"
      <4>1. h.at = "activate" /\ h.read.status = "approved" BY <1>5, <3>4 DEF Plan
      <4> QED BY <1>1, <1>15, <3>1, <3>2, <4>1 DEF ApprovedAsReviewed
    <3> QED BY <2>1, <3>1, <3>3, <3>4
  <2> QED BY <1>1, <1>4, <1>8, <1>14, <2>1 DEF ApprovedAsReviewed
<1>20. HiredOnce'
  <2>1. \A p \in Records : reviewed[p] # 0 => reviewed'[p] # 0 BY <1>14, <1>15
  <2>2. h.at # "activate" => after.employee = record[o].employee BY <1>5, <1>7 DEF Plan
  <2>3. CASE h.at # "activate"
    <3>1. \A p \in Records : record'[p].employee = record[p].employee BY <1>8, <2>2, <2>3
    <3>2. hired' = hired BY <1>4, <2>3
    <3>3. \A e \in Emails : hired[e] \subseteq Records BY <1>1 DEF OnboardingTypeOK
    <3> QED BY <1>1, <2>1, <3>1, <3>2, <3>3 DEF HiredOnce
  <2>4. CASE h.at = "activate"
    <3>1. after.employee
      <4>1. h.read.employee \in BOOLEAN /\ h.new.employee \in BOOLEAN BY <1>6, RowColumns
      <4> QED BY <1>5, <1>7, <2>4, <4>1 DEF Plan
    <3>2. reviewed'[o] # 0 BY <1>3, <1>5, <2>1, <2>4 DEF Pending
    <3>3. EmailOf[o] \in Emails /\ hired[EmailOf[o]] = {} BY <1>4, <2>4 DEF EmailFree, Emails
    <3>4. hired'[EmailOf[o]] = {o} /\ \A e \in Emails \ {EmailOf[o]} : hired'[e] = hired[e]
      BY <1>1, <1>4, <2>4, <3>3 DEF OnboardingTypeOK
    <3>5. ASSUME NEW e \in Emails
          PROVE  Cardinality(hired'[e]) <= 1 /\ \A p \in hired'[e] : record'[p].employee /\ reviewed'[p] # 0
      <4>1. CASE e = EmailOf[o]
        <5>1. Cardinality({o}) = 1 BY FS_Singleton
        <5> QED BY <1>8, <3>1, <3>2, <3>4, <4>1, <5>1
      <4>2. CASE e # EmailOf[o]
        <5>1. hired'[e] = hired[e] /\ hired[e] \subseteq Records BY <1>1, <3>4, <4>2 DEF OnboardingTypeOK
        <5>2. Cardinality(hired'[e]) <= 1 BY <1>1, <5>1 DEF HiredOnce
        <5>3. \A p \in hired[e] : record[p].employee /\ reviewed[p] # 0 BY <1>1 DEF HiredOnce
        <5> QED BY <1>8, <2>1, <3>1, <5>1, <5>2, <5>3
      <4> QED BY <4>1, <4>2
    <3>6. ASSUME NEW p \in Records, record'[p].employee PROVE p \in hired'[EmailOf[p]]
      <4>1. EmailOf[p] \in Emails BY DEF Emails
      <4>2. CASE p = o BY <3>4, <4>2
      <4>3. CASE p # o BY <1>1, <1>8, <3>3, <3>4, <3>6, <4>1, <4>3 DEF HiredOnce
      <4> QED BY <4>2, <4>3
    <3> QED BY <3>5, <3>6 DEF HiredOnce
  <2> QED BY <2>3, <2>4
<1>21. DeadLinksStayDead'
  <2> SUFFICES ASSUME NEW p \in Records, record'[p].link \in dead' PROVE record'[p].revoked
    BY DEF DeadLinksStayDead
  <2>1. CASE p = o
    <3>1. after.link \in dead => record[o].revoked /\ h.at # "invite" /\ after.link = record[o].link
      BY <1>1, <1>5, <1>10 DEF DeadLinksStayDead, Pending
    <3>2. after.link \in dead \/ after.revoked BY <1>4, <1>8, <2>1
    <3> QED BY <1>8, <1>10, <2>1, <3>1, <3>2
  <2>2. CASE p # o
    <3>1. record'[p] = record[p] BY <1>8, <2>2
    <3>2. record[p].link # after.link \/ record[p].link = 0 BY <1>1, <1>5, <1>10, <2>2 DEF RecordsOK, Pending
    <3>3. record[p].link # record[o].link \/ record[p].link = 0 BY <1>1, <2>2 DEF RecordsOK
    <3>4. record[p].link \in dead BY <1>4, <3>1, <3>2, <3>3
    <3> QED BY <1>1, <3>1, <3>4 DEF DeadLinksStayDead
  <2> QED BY <2>1, <2>2
<1> QED BY <1>16, <1>17, <1>18, <1>19, <1>20, <1>21 DEF OnboardingInv

\* A request ends without a change, or an orientation is recorded.
LEMMA QuietStep ==
  ASSUME OnboardingInv,
         \/ \E c \in Calls : RequestFails(c)
         \/ \E o \in Records, b \in BOOLEAN : RecordOrientation(o, b)
  PROVE  OnboardingInv'
<1>1. /\ UNCHANGED <<record, hired, links, packets, reviewed, outdated, dead>> /\ oriented' \subseteq Records
      /\ \A c \in Calls : handler'[c] \in {handler[c], NoHandler}
      /\ handler' \in [Calls -> {NoHandler} \cup Handlers]
  BY DEF OnboardingInv, OnboardingTablesOK, OnboardingTypeOK, RequestFails, RecordOrientation
<1>2. OnboardingTablesOK' BY <1>1 DEF OnboardingInv, OnboardingTablesOK, OnboardingTypeOK
<1>3. HandlersOK' BY <1>1 DEF OnboardingInv, HandlersOK, Pending
<1>4. RecordsOK' /\ ApprovedAsReviewed' /\ HiredOnce' /\ DeadLinksStayDead'
  BY <1>1 DEF OnboardingInv, RecordsOK, ApprovedAsReviewed, HiredOnce, DeadLinksStayDead
<1> QED BY <1>2, <1>3, <1>4 DEF OnboardingInv

\* A record is created, or the hour of its link passes.
LEMMA RecordStep ==
  ASSUME OnboardingInv, NEW o \in Records, CreateRecord(o) \/ LinkExpires(o)
  PROVE  OnboardingInv'
<1>1. OnboardingTablesOK /\ OnboardingTypeOK /\ RecordsOK /\ HandlersOK /\ ApprovedAsReviewed /\ HiredOnce /\ DeadLinksStayDead
  BY DEF OnboardingInv, OnboardingTablesOK
<1>2. PICK new \in OnboardingRow :
        /\ record' = [record EXCEPT ![o] = new] /\ new.link = record[o].link /\ new.packet = record[o].packet
        /\ new.revoked = record[o].revoked /\ new.employee = record[o].employee /\ new.signed = record[o].signed
        /\ new.status \in {record[o].status, "draft"}
        /\ record[o].status # "absent" => new.status # "absent"
  <2>1. record[o] \in OnboardingRow BY <1>1 DEF OnboardingTypeOK
  <2>2. CASE CreateRecord(o)
    <3> DEFINE new == [record[o] EXCEPT !.status = "draft"]
    <3>1. /\ new \in OnboardingRow /\ new.link = record[o].link /\ new.packet = record[o].packet
          /\ new.revoked = record[o].revoked /\ new.employee = record[o].employee /\ new.signed = record[o].signed
          /\ new.status = "draft"
      BY <2>1 DEF OnboardingRow, OnboardingStatuses, Invitable
    <3>2. record' = [record EXCEPT ![o] = new] BY <2>2 DEF CreateRecord
    <3> HIDE DEF new
    <3> QED BY <3>1, <3>2
  <2>3. CASE LinkExpires(o)
    <3> DEFINE new == [record[o] EXCEPT !.expired = TRUE]
    <3>1. /\ new \in OnboardingRow /\ new.link = record[o].link /\ new.packet = record[o].packet
          /\ new.revoked = record[o].revoked /\ new.employee = record[o].employee /\ new.signed = record[o].signed
          /\ new.status = record[o].status
      BY <2>1 DEF OnboardingRow
    <3>2. record' = [record EXCEPT ![o] = new] BY <2>3 DEF LinkExpires
    <3> HIDE DEF new
    <3> QED BY <3>1, <3>2
  <2> QED BY <2>2, <2>3
<1>3. UNCHANGED <<oriented, hired, handler, links, packets, reviewed, outdated, dead>>
  BY DEF CreateRecord, LinkExpires
<1>4. /\ record' \in [Records -> OnboardingRow] /\ record'[o] = new
      /\ \A p \in Records \ {o} : record'[p] = record[p]
  BY <1>1, <1>2 DEF OnboardingTypeOK
<1>5. \A p \in Records :
        /\ record'[p].link = record[p].link /\ record'[p].packet = record[p].packet
        /\ record'[p].revoked = record[p].revoked /\ record'[p].employee = record[p].employee
        /\ record'[p].signed = record[p].signed /\ record'[p].status \in {record[p].status, "draft"}
        /\ record[p].status # "absent" => record'[p].status # "absent"
  <2>1. record[o].status # "absent" => new.status # "absent" BY <1>2
  <2>2. new.status \in {record[o].status, "draft"} BY <1>2
  <2> QED BY <1>2, <1>4, <2>1, <2>2
<1>6. OnboardingTablesOK' BY <1>1, <1>3, <1>4 DEF OnboardingTablesOK, OnboardingTypeOK
<1>7. RecordsOK' BY <1>1, <1>3, <1>5 DEF RecordsOK, Signed
<1>8. HandlersOK'
  <2> SUFFICES ASSUME NEW c \in Calls, handler[c] # NoHandler PROVE Pending(handler[c])'
    BY <1>1, <1>3 DEF HandlersOK
  <2>1. PICK g \in Handlers : g = handler[c] /\ g = handler'[c] BY <1>1, <1>3 DEF OnboardingTablesOK
  <2>2. Pending(g) /\ g.o \in Records BY <1>1, <2>1, HandlerShapes DEF HandlersOK
  <2> QED BY <1>3, <1>5, <2>1, <2>2 DEF Pending
<1>9. ApprovedAsReviewed' BY <1>1, <1>3, <1>5 DEF ApprovedAsReviewed
<1>10. HiredOnce'
  <2>1. \A e \in Emails : hired[e] \subseteq Records BY <1>1 DEF OnboardingTypeOK
  <2> QED BY <1>1, <1>3, <1>5, <2>1 DEF HiredOnce
<1>11. DeadLinksStayDead' BY <1>1, <1>3, <1>5 DEF DeadLinksStayDead
<1> QED BY <1>6, <1>7, <1>8, <1>9, <1>10, <1>11 DEF OnboardingInv

\* Nobody is to be hired yet.
LEMMA OnboardingStart == OnboardingInit => OnboardingInv
<1> SUFFICES ASSUME OnboardingInit PROVE OnboardingInv
  OBVIOUS
<1> USE DEF OnboardingInit
<1>1. NoRecord \in OnboardingRow BY OnboardingAssumption DEF NoRecord, OnboardingRow, OnboardingStatuses
<1>2. NoRecord.status = "absent" /\ NoRecord.link = 0 /\ NoRecord.employee = FALSE BY DEF NoRecord
<1>3. OnboardingTablesOK BY <1>1, OnboardingAssumption DEF OnboardingTablesOK, OnboardingTypeOK
<1>4. RecordsOK /\ HandlersOK BY <1>2 DEF RecordsOK, HandlersOK, Signed
<1>5. ApprovedAsReviewed /\ DeadLinksStayDead BY <1>2 DEF ApprovedAsReviewed, DeadLinksStayDead
<1>6. HiredOnce BY <1>2, FS_EmptySet DEF HiredOnce
<1> QED BY <1>3, <1>4, <1>5, <1>6 DEF OnboardingInv

\* What employee_onboarding.py keeps of records, links and requests.
THEOREM OnboardingInvariant == OnboardingSpec => []OnboardingInv
<1>1. OnboardingInv /\ [OnboardingNext]_onboardingVars => OnboardingInv'
  <2> SUFFICES ASSUME OnboardingInv, [OnboardingNext]_onboardingVars PROVE OnboardingInv'
    OBVIOUS
  <2>1. CASE UNCHANGED onboardingVars
    BY <2>1 DEF onboardingVars, OnboardingInv, OnboardingTablesOK, OnboardingTypeOK, RecordsOK, HandlersOK, Pending,
                ApprovedAsReviewed, HiredOnce, DeadLinksStayDead
  <2> QED BY <2>1, StatusSteps, ApproveSteps, InviteStep, PacketSteps, CommitRecordStep, QuietStep, RecordStep
          DEF OnboardingNext
<1> QED BY <1>1, OnboardingStart, PTL DEF OnboardingSpec

\* Whatever requests race or are repeated, an onboarding is approved as its
\* reviewer saw it, hires once, and a link that was replaced or revoked opens
\* nothing again (resolve_token, approve, activate).
THEOREM OnboardingStaysReviewed == OnboardingSpec => []OnboardingIsReviewed
<1>1. OnboardingInv => OnboardingIsReviewed BY DEF OnboardingInv, OnboardingTablesOK, OnboardingIsReviewed
<1> QED BY <1>1, OnboardingInvariant, PTL

-----------------------------------------------------------------------------
(* The records of the field: the inductive invariant.                      *)

FieldStatuses ==
  {"none", "blocked", "draft", "reported", "pending", "practical_pending", "written_retry_required", "recorded",
   "submitted", "released", "under_review", "closed", "ready", "approved", "declined"}
Events ==
  {"under_review", "closed", "blocked", "ready", "attached", "approved", "rejected", "declined", "passed", "not_passed"}
LogEntries == [what: Events, of: Contents \cup {0}]
Details == [content: Contents \cup {0}, log: Seq(LogEntries)]
Signatures == [by: Workers, of: Contents \cup {0}]
FieldRow == [kind: Kinds \cup {"none"}, status: FieldStatuses, details: Details, signatures: SUBSET Signatures]
FieldOps == {"edit", "sign", "release", "move", "attach", "decide_invoice", "decide", "import"}
FieldRequest == [at: FieldOps, r: FieldRows, read: FieldRow, new: FieldRow]

\* What the entry at i of a purchase order's log says, after the one before it.
InvoiceEntry(log, i) ==
  IF i % 2 = 1 THEN log[i].what = "attached" ELSE log[i].what # "attached" /\ log[i].of = log[i - 1].of

\* Every invoice is decided after it was attached; the one attached last is on record.
InvoiceLog(log, content) ==
  /\ \A i \in 1..Len(log) : InvoiceEntry(log, i)
  /\ Len(log) % 2 = 1 => log[Len(log)].of = content

\* An incident's status says how long its log is; a request for time off keeps its
\* decision; a review was approved with the written part passed.
LogOK(kind, status, details) ==
  LET log == details.log IN
  /\ kind = "incident" =>
       \/ status = "reported" /\ log = <<>>
       \/ status = "under_review" /\ Len(log) = 1 /\ log[1].what = "under_review"
       \/ status = "closed" /\ Len(log) = 2 /\ log[2].what = "closed"
  /\ kind = "purchase_order" => InvoiceLog(log, details.content)
  /\ kind = "time_off" /\ status # "pending" => log # <<>> /\ status = log[Len(log)].what
  /\ kind = "milestone" /\ status = "approved" => details.content = 1

RowOK(row) == row \in FieldRow /\ LogOK(row.kind, row.status, row.details)

\* The signatures of an FLHA are on what it says, and it was released with all.
SignedOK(row) ==
  /\ \A s \in row.signatures : s.of = row.details.content
  /\ row.status = "released" =>
       GapOf[row.details.content] = "none" /\ CrewOf[row.details.content] \subseteq Signers(row)

\* What a request makes of what it has read.
EditPlan(h) ==
  /\ h.at = "edit" /\ h.read.kind = "flha" /\ h.new.status # "released"
  /\ h.read.signatures = {}
SignPlan(h) ==
  /\ h.at = "sign" /\ h.new.status = h.read.status /\ h.new.details = h.read.details
  /\ h.read.signatures \subseteq h.new.signatures
  /\ h.read.kind = "flha" => \A s \in h.new.signatures \ h.read.signatures : s.of = h.read.details.content
ReleasePlan(h) ==
  /\ h.at = "release" /\ h.read.kind = "flha" /\ h.new.details = h.read.details
  /\ h.new.status = "released" /\ Releasable(h.read)
MovePlan(h) ==
  /\ h.at = "move" /\ h.read.kind \in {"incident", "safety_permit"}
  /\ h.read.kind = "incident" => /\ h.new.status # h.read.status
                                 /\ Len(h.new.details.log) = Len(h.read.details.log) + 1
InvoicePlan(h) == h.at \in {"attach", "decide_invoice"} /\ h.read.kind = "purchase_order"
DecidePlan(h) ==
  /\ h.at = "decide" /\ h.read.kind \in {"time_off", "milestone"}
  /\ h.read.kind = "time_off" => h.read.status = "pending" /\ h.new.status # "pending"
  /\ h.read.kind = "milestone" =>
       /\ h.new.details.content = h.read.details.content
       /\ h.new.status = "approved" => LastEntry(h.new) = "passed"
ImportPlan(h) ==
  /\ h.at = "import" /\ h.r = 1 /\ h.read = NoRow
  /\ h.new.kind = "completed_work" /\ h.new.details.content \in Contents

RequestOK(h) ==
  /\ RowOK(h.new) /\ RowOK(h.read)
  /\ h.at # "import" =>
       /\ h.read.kind # "none" /\ h.read.kind = field[h.r].kind /\ h.new.kind = h.read.kind
       /\ h.read.kind = "milestone" => h.read.details.content = field[h.r].details.content
  /\ \/ EditPlan(h) \/ SignPlan(h) \/ ReleasePlan(h) \/ MovePlan(h)
     \/ InvoicePlan(h) \/ DecidePlan(h) \/ ImportPlan(h)

FieldTablesOK ==
  /\ field \in [FieldRows -> FieldRow] /\ moves \in [FieldRows -> Nat]
  /\ request \in [Requests -> {NoRequest} \cup FieldRequest]
  /\ imported \subseteq Contents /\ passed \subseteq FieldRows /\ fieldStale \subseteq FieldRows

\* A record, with the histories of its requests.
RecordOK(r) ==
  /\ RowOK(field[r])
  /\ Is(r, "none") => field[r] = NoRow /\ moves[r] = 0
  /\ Is(r, "incident") => moves[r] = Len(field[r].details.log)
  /\ Is(r, "flha") /\ r \notin fieldStale => SignedOK(field[r])
  /\ Is(r, "milestone") /\ field[r].status = "approved" => r \in passed

ImportsOK == \A d \in imported : Is(1, "completed_work") /\ field[1].details.content = d

FieldInv ==
  /\ FieldTablesOK /\ ImportsOK
  /\ \A r \in FieldRows : RecordOK(r)
  /\ \A q \in Requests : request[q] # NoRequest => RequestOK(request[q])

-----------------------------------------------------------------------------
\* What a request is made of.
LEMMA FieldShapes ==
  /\ NoRequest \notin FieldRequest
  /\ \A h \in FieldRequest : h.at \in FieldOps /\ h.r \in FieldRows /\ h.read \in FieldRow /\ h.new \in FieldRow
<1>1. \A h \in FieldRequest : h.at \in FieldOps /\ h.r \in FieldRows /\ h.read \in FieldRow /\ h.new \in FieldRow
  BY DEF FieldRequest
<1>2. NoRequest.at \notin FieldOps BY DEF NoRequest, FieldOps
<1> QED BY <1>1, <1>2

\* A row's columns, and the rest of it when its status, its signatures or what it says changes.
LEMMA FieldColumns ==
  ASSUME NEW row \in FieldRow
  PROVE  /\ row.kind \in Kinds \cup {"none"} /\ row.status \in FieldStatuses
         /\ row.details \in Details /\ row.signatures \in SUBSET Signatures
         /\ row.details.content \in Contents \cup {0} /\ row.details.log \in Seq(LogEntries)
         /\ \A s \in FieldStatuses : LET new == [row EXCEPT !.status = s] IN
              /\ new \in FieldRow /\ new.status = s /\ new.kind = row.kind
              /\ new.details = row.details /\ new.signatures = row.signatures
         /\ \A s \in SUBSET Signatures : LET new == [row EXCEPT !.signatures = s] IN
              /\ new \in FieldRow /\ new.signatures = s /\ new.kind = row.kind
              /\ new.details = row.details /\ new.status = row.status
         /\ \A d \in Details : LET new == [row EXCEPT !.details = d] IN
              /\ new \in FieldRow /\ new.details = d /\ new.kind = row.kind
              /\ new.signatures = row.signatures /\ new.status = row.status
         /\ \A c \in Contents \cup {0} : LET new == [row EXCEPT !.details.content = c] IN
              /\ new \in FieldRow /\ new.details \in Details /\ new.details.content = c
              /\ new.details.log = row.details.log /\ new.kind = row.kind
              /\ new.signatures = row.signatures /\ new.status = row.status
<1>1. /\ row.kind \in Kinds \cup {"none"} /\ row.status \in FieldStatuses
      /\ row.details \in Details /\ row.signatures \in SUBSET Signatures
  BY DEF FieldRow
<1>2. row.details.content \in Contents \cup {0} /\ row.details.log \in Seq(LogEntries) BY <1>1 DEF Details
<1>3. \A d \in Details : LET new == [row EXCEPT !.details = d] IN
        /\ new \in FieldRow /\ new.details = d /\ new.kind = row.kind
        /\ new.signatures = row.signatures /\ new.status = row.status
  BY DEF FieldRow
<1>4. ASSUME NEW c \in Contents \cup {0}
      PROVE  LET new == [row EXCEPT !.details.content = c] IN
             /\ new \in FieldRow /\ new.details \in Details /\ new.details.content = c
             /\ new.details.log = row.details.log /\ new.kind = row.kind
             /\ new.signatures = row.signatures /\ new.status = row.status
  <2> DEFINE d == [row.details EXCEPT !.content = c]
  <2>1. d \in Details /\ d.content = c /\ d.log = row.details.log BY <1>1 DEF Details
  <2>2. [row EXCEPT !.details.content = c] = [row EXCEPT !.details = d] BY DEF FieldRow
  <2> HIDE DEF d
  <2> QED BY <1>3, <2>1, <2>2
<1>5. \A s \in FieldStatuses : LET new == [row EXCEPT !.status = s] IN
        /\ new \in FieldRow /\ new.status = s /\ new.kind = row.kind
        /\ new.details = row.details /\ new.signatures = row.signatures
  BY DEF FieldRow
<1>6. \A s \in SUBSET Signatures : LET new == [row EXCEPT !.signatures = s] IN
        /\ new \in FieldRow /\ new.signatures = s /\ new.kind = row.kind
        /\ new.details = row.details /\ new.status = row.status
  BY DEF FieldRow
<1> QED BY <1>1, <1>2, <1>3, <1>4, <1>5, <1>6

\* A row with one more entry in its log.
LEMMA LoggedRow ==
  ASSUME NEW row \in FieldRow, NEW what \in Events, NEW of \in Contents \cup {0}
  PROVE  LET new == Logged(row, what, of)
             log == new.details.log
             n == Len(row.details.log) IN
         /\ new \in FieldRow /\ new.kind = row.kind /\ new.status = row.status /\ new.signatures = row.signatures
         /\ new.details.content = row.details.content
         /\ n \in Nat /\ Len(log) = n + 1 /\ log[n + 1].what = what /\ log[n + 1].of = of
         /\ \A i \in 1..n : log[i] = row.details.log[i]
<1> DEFINE e == Entry(what, of)
           d == [row.details EXCEPT !.log = Append(@, e)]
<1>1. row.details \in Details /\ row.details.log \in Seq(LogEntries) BY FieldColumns
<1>2. e \in LogEntries /\ e.what = what /\ e.of = of BY DEF Entry, LogEntries
<1> HIDE DEF e
<1>3. /\ Append(row.details.log, e) \in Seq(LogEntries) /\ Len(Append(row.details.log, e)) = Len(row.details.log) + 1
      /\ Append(row.details.log, e)[Len(row.details.log) + 1] = e /\ Len(row.details.log) \in Nat
      /\ \A i \in 1..Len(row.details.log) : Append(row.details.log, e)[i] = row.details.log[i]
  BY <1>1, <1>2
<1>4. d \in Details /\ d.content = row.details.content /\ d.log = Append(row.details.log, e)
  BY <1>1, <1>3 DEF Details
<1>5. Logged(row, what, of) = [row EXCEPT !.details = d] BY DEF Logged, FieldRow, e
<1> HIDE DEF d
<1> QED BY <1>2, <1>3, <1>4, <1>5, FieldColumns

\* A request is begun as planned.
LEMMA FieldRequestBegins ==
  ASSUME FieldInv, NEW q \in Requests, NEW op \in FieldOps, NEW r \in FieldRows, NEW new \in FieldRow,
         BeginRequest(q, op, r, new),
         NEW h, h = [at |-> op, r |-> r, read |-> field[r], new |-> new], RequestOK(h)
  PROVE  FieldInv'
<1>1. h \in FieldRequest BY DEF FieldRequest, FieldInv, FieldTablesOK
<1>2. request' = [request EXCEPT ![q] = h] /\ UNCHANGED <<field, moves, imported, passed, fieldStale>>
  BY DEF BeginRequest
<1>3. FieldTablesOK' BY <1>1, <1>2 DEF FieldInv, FieldTablesOK
<1>4. ASSUME NEW p \in Requests, request'[p] # NoRequest PROVE RequestOK(request[p])'
  <2>1. RequestOK(request'[p]) BY <1>2, <1>4 DEF FieldInv, FieldTablesOK
  <2> QED BY <1>2, <2>1 DEF RequestOK
<1> QED BY <1>2, <1>3, <1>4 DEF FieldInv, ImportsOK, RecordOK, Is

\* What a new record says.
LEMMA OpeningRow ==
  ASSUME NEW kind \in Kinds, NEW content \in Contents \cup {0}
  PROVE  /\ RowOK(Row(kind, content)) /\ Row(kind, content).kind = kind /\ Row(kind, content).signatures = {}
         /\ Row(kind, content).details.content = content /\ Len(Row(kind, content).details.log) = 0
         /\ Row(kind, content).status \notin {"released", "approved"}
<1> DEFINE s == Opening(kind, content)
           d == [content |-> content, log |-> <<>>]
           row == Row(kind, content)
<1>1. /\ s \in FieldStatuses /\ s \notin {"released", "approved"} /\ (kind = "incident" => s = "reported")
      /\ (kind = "time_off" => s = "pending")
  BY DEF Opening, Kinds, FieldStatuses
<1> HIDE DEF s
<1>2. d \in Details /\ d.content = content /\ d.log = <<>> /\ Len(d.log) = 0 BY DEF Details
<1> HIDE DEF d
<1>3. /\ row.kind = kind /\ row.status = s /\ row.details = d /\ row.signatures = {} BY DEF Row, s, d
<1>4. row \in FieldRow BY <1>1, <1>2 DEF Row, FieldRow, s, d
<1> HIDE DEF row
<1>5. LogOK(kind, s, d) BY <1>1, <1>2 DEF LogOK, InvoiceLog
<1> QED BY <1>1, <1>2, <1>3, <1>4, <1>5 DEF RowOK, row

\* A record that was read is as its table has it.
LEMMA ReadRow ==
  ASSUME FieldInv, NEW r \in FieldRows
  PROVE  RowOK(field[r]) /\ field[r] \in FieldRow /\ (Is(r, "none") => field[r] = NoRow)
BY DEF FieldInv, RecordOK, RowOK

\* An edit, a signature or a release of an FLHA, and a signature of another record.
LEMMA FlhaSteps ==
  ASSUME FieldInv, NEW q \in Requests, NEW r \in FieldRows,
         \/ \E d \in Contents : BeginUpdateFlha(q, r, d)
         \/ \E w \in Workers : BeginSign(q, r, w)
         \/ BeginRelease(q, r)
  PROVE  FieldInv'
<1>1. RowOK(field[r]) /\ field[r] \in FieldRow /\ (Is(r, "none") => field[r] = NoRow) BY ReadRow
<1>2. ASSUME NEW c \in Contents, BeginUpdateFlha(q, r, c) PROVE FieldInv'
  <2> DEFINE n1 == [field[r] EXCEPT !.details.content = c]
             new == [n1 EXCEPT !.status = Opening("flha", c)]
             h == [at |-> "edit", r |-> r, read |-> field[r], new |-> new]
  <2>1. Opening("flha", c) \in FieldStatuses /\ Opening("flha", c) # "released" BY DEF Opening, FieldStatuses
  <2>2. new = [field[r] EXCEPT !.details.content = c, !.status = Opening("flha", c)] BY <1>1 DEF FieldRow
  <2>3. /\ Is(r, "flha") /\ field[r].signatures = {} /\ BeginRequest(q, "edit", r, new)
    BY <1>2, <2>2 DEF BeginUpdateFlha
  <2>4. n1 \in FieldRow /\ n1.kind = field[r].kind BY <1>1, FieldColumns
  <2> HIDE DEF n1
  <2>5. new \in FieldRow /\ new.kind = n1.kind /\ new.status # "released" BY <2>1, <2>4, FieldColumns
  <2> HIDE DEF new
  <2>6. RowOK(new) BY <2>3, <2>4, <2>5 DEF RowOK, LogOK, Is
  <2>7. h.at = "edit" /\ h.r = r /\ h.read = field[r] /\ h.new = new OBVIOUS
  <2> HIDE DEF h
  <2>8. EditPlan(h) BY <2>3, <2>5, <2>7 DEF EditPlan, Is
  <2>9. RequestOK(h) BY <1>1, <2>3, <2>4, <2>5, <2>6, <2>7, <2>8 DEF RequestOK, Is
  <2> QED BY <2>3, <2>5, <2>9, FieldRequestBegins DEF FieldOps, h
<1>3. ASSUME NEW w \in Workers, BeginSign(q, r, w) PROVE FieldInv'
  <2> DEFINE s == [by |-> w, of |-> field[r].details.content]
             new == [field[r] EXCEPT !.signatures = @ \cup {s}]
             h == [at |-> "sign", r |-> r, read |-> field[r], new |-> new]
  <2>1. field[r] # NoRow /\ BeginRequest(q, "sign", r, new) BY <1>3 DEF BeginSign
  <2>2. s \in Signatures /\ s.of = field[r].details.content /\ field[r].signatures \in SUBSET Signatures
    BY <1>1, FieldColumns DEF Signatures
  <2> HIDE DEF s
  <2>3. /\ new \in FieldRow /\ new.kind = field[r].kind /\ new.status = field[r].status
        /\ new.details = field[r].details /\ new.signatures = field[r].signatures \cup {s}
    BY <1>1, <2>2, FieldColumns
  <2> HIDE DEF new
  <2>4. RowOK(new) BY <1>1, <2>3 DEF RowOK
  <2>5. h.at = "sign" /\ h.r = r /\ h.read = field[r] /\ h.new = new OBVIOUS
  <2> HIDE DEF h
  <2>6. SignPlan(h) BY <2>2, <2>3, <2>5 DEF SignPlan
  <2>7. field[r].kind # "none" BY <1>1, <2>1 DEF Is
  <2>8. RequestOK(h) BY <1>1, <2>3, <2>4, <2>5, <2>6, <2>7 DEF RequestOK
  <2> QED BY <2>1, <2>3, <2>8, FieldRequestBegins DEF FieldOps, h
<1>4. CASE BeginRelease(q, r)
  <2> DEFINE new == [field[r] EXCEPT !.status = "released"]
             h == [at |-> "release", r |-> r, read |-> field[r], new |-> new]
  <2>1. Is(r, "flha") /\ Releasable(field[r]) /\ BeginRequest(q, "release", r, new) BY <1>4 DEF BeginRelease
  <2>2. /\ new \in FieldRow /\ new.kind = field[r].kind /\ new.status = "released"
        /\ new.details = field[r].details
    <3>1. "released" \in FieldStatuses BY DEF FieldStatuses
    <3> QED BY <1>1, <3>1, FieldColumns
  <2> HIDE DEF new
  <2>3. RowOK(new) BY <2>1, <2>2 DEF RowOK, LogOK, Is
  <2>4. h.at = "release" /\ h.r = r /\ h.read = field[r] /\ h.new = new OBVIOUS
  <2> HIDE DEF h
  <2>5. ReleasePlan(h) BY <2>1, <2>2, <2>4 DEF ReleasePlan, Is
  <2>6. RequestOK(h) BY <1>1, <2>1, <2>2, <2>3, <2>4, <2>5 DEF RequestOK, Is
  <2> QED BY <2>1, <2>2, <2>6, FieldRequestBegins DEF FieldOps, h
<1> QED BY <1>2, <1>3, <1>4

\* The next status of an incident or of a permit.
LEMMA MoveSteps ==
  ASSUME FieldInv, NEW q \in Requests, NEW r \in FieldRows,
         NEW to \in {"under_review", "closed", "blocked", "ready"}, BeginMove(q, r, to)
  PROVE  FieldInv'
<1>1. RowOK(field[r]) /\ field[r] \in FieldRow BY ReadRow
<1> PICK row : row = field[r] OBVIOUS
<1> DEFINE n1 == Logged(row, to, 0)
           new == [n1 EXCEPT !.status = to]
           h == [at |-> "move", r |-> r, read |-> row, new |-> new]
<1>2. to \in Moves(row) /\ BeginRequest(q, "move", r, new) BY DEF BeginMove
<1>3. row.kind \in {"incident", "safety_permit"} /\
      (row.kind = "incident" =>
         \/ row.status = "reported" /\ to = "under_review"
         \/ row.status = "under_review" /\ to = "closed")
  BY <1>2 DEF Moves
<1>4. to \in Events /\ to \in FieldStatuses /\ 0 \in Contents \cup {0} BY DEF Events, FieldStatuses
<1>5. /\ n1 \in FieldRow /\ n1.kind = row.kind /\ n1.details.content = row.details.content
      /\ Len(row.details.log) \in Nat /\ Len(n1.details.log) = Len(row.details.log) + 1
      /\ n1.details.log[Len(row.details.log) + 1].what = to
  BY <1>1, <1>4, LoggedRow, SMTT(30)
<1> HIDE DEF n1
<1>6. new \in FieldRow /\ new.kind = n1.kind /\ new.status = to /\ new.details = n1.details
  BY <1>4, <1>5, FieldColumns
<1> HIDE DEF new
<1>7. RowOK(new)
  <2>1. CASE row.kind = "incident"
    <3>1. LogOK("incident", row.status, row.details) BY <1>1, <2>1 DEF RowOK
    <3>2. CASE to = "under_review"
      <4>1. Len(row.details.log) = 0 BY <1>3, <2>1, <3>1, <3>2 DEF LogOK
      <4> QED BY <1>5, <1>6, <2>1, <3>2, <4>1 DEF RowOK, LogOK
    <3>3. CASE to = "closed"
      <4>1. Len(row.details.log) = 1 BY <1>3, <2>1, <3>1, <3>3 DEF LogOK
      <4> QED BY <1>5, <1>6, <2>1, <3>3, <4>1 DEF RowOK, LogOK
    <3> QED BY <1>3, <2>1, <3>2, <3>3
  <2>2. CASE row.kind = "safety_permit" BY <1>5, <1>6, <2>2 DEF RowOK, LogOK
  <2> QED BY <1>3, <2>1, <2>2
<1>8. h.at = "move" /\ h.r = r /\ h.read = row /\ h.new = new OBVIOUS
<1> HIDE DEF h
<1>9. MovePlan(h) BY <1>3, <1>5, <1>6, <1>8 DEF MovePlan
<1>10. RequestOK(h) BY <1>1, <1>3, <1>5, <1>6, <1>7, <1>8, <1>9 DEF RequestOK
<1> QED BY <1>2, <1>6, <1>10, FieldRequestBegins DEF FieldOps, h

\* Odd and even.
LEMMA Parity ==
  ASSUME NEW n \in Nat
  PROVE  /\ n % 2 \in {0, 1} /\ ((n + 1) % 2 = 1 <=> n % 2 = 0) /\ ((n + 1) % 2 = 0 <=> n % 2 = 1)
         /\ n % 2 = 1 => n \in 1..n
<1>1. n % 2 \in {0, 1} /\ ((n + 1) % 2 = 1 <=> n % 2 = 0) /\ ((n + 1) % 2 = 0 <=> n % 2 = 1) OBVIOUS
<1>2. 0 % 2 = 0 OBVIOUS
<1>3. ASSUME n % 2 = 1 PROVE n \in 1..n
  <2>1. n # 0 BY <1>2, <1>3
  <2> QED BY <2>1
<1> QED BY <1>1, <1>3

\* The entries of a log stay right when one is added to it.
LEMMA InvoiceEntries ==
  ASSUME NEW n \in Nat, NEW old, NEW log, \A i \in 1..n : InvoiceEntry(old, i) /\ log[i] = old[i],
         InvoiceEntry(log, n + 1)
  PROVE  \A i \in 1..(n + 1) : InvoiceEntry(log, i)
<1> SUFFICES ASSUME NEW i \in 1..(n + 1), i # n + 1 PROVE InvoiceEntry(log, i) OBVIOUS
<1>1. i \in 1..n /\ log[i] = old[i] /\ InvoiceEntry(old, i) OBVIOUS
<1>2. CASE i % 2 = 1 BY <1>1, <1>2 DEF InvoiceEntry
<1>3. CASE i % 2 # 1
  <2>1. i # 1 BY <1>3
  <2>2. i - 1 \in 1..n BY <1>1, <2>1
  <2> QED BY <1>1, <1>3, <2>2 DEF InvoiceEntry
<1> QED BY <1>2, <1>3

\* An invoice is attached, or the attached one is decided.
LEMMA InvoiceSteps ==
  ASSUME FieldInv, NEW q \in Requests, NEW r \in FieldRows,
         \/ \E d \in Contents : BeginAttach(q, r, d)
         \/ \E d \in {"approved", "rejected"} : BeginInvoiceDecision(q, r, d)
  PROVE  FieldInv'
<1>1. RowOK(field[r]) /\ field[r] \in FieldRow BY ReadRow
<1>2. PICK row : row = field[r] OBVIOUS
<1>3. PICK old : old = row.details.log OBVIOUS
<1>4. PICK n : n = Len(old) OBVIOUS
<1>5. row.kind = "purchase_order" BY <1>2 DEF BeginAttach, BeginInvoiceDecision, Is
<1>6. old \in Seq(LogEntries) /\ row.details.content \in Contents \cup {0} BY <1>1, <1>2, <1>3, FieldColumns
<1>7. n \in Nat /\ (n = 0 <=> old = <<>>) BY <1>4, <1>6
<1>8. LogOK("purchase_order", row.status, row.details) BY <1>1, <1>2, <1>5 DEF RowOK
<1>9. \A i \in 1..n : InvoiceEntry(old, i) BY <1>3, <1>4, <1>8 DEF LogOK, InvoiceLog
<1>10. n % 2 = 1 => old[n].of = row.details.content BY <1>3, <1>4, <1>8 DEF LogOK, InvoiceLog
<1>11. LastEntry(row) = "attached" <=> n % 2 = 1
  <2>1. CASE n = 0 BY <1>3, <1>7, <2>1 DEF LastEntry
  <2>2. CASE n # 0
    <3>1. n \in 1..n /\ old # <<>> BY <1>7, <2>2
    <3>2. LastEntry(row) = old[n].what BY <1>3, <1>4, <3>1 DEF LastEntry
    <3>3. InvoiceEntry(old, n) BY <1>9, <3>1
    <3> QED BY <3>2, <3>3 DEF InvoiceEntry
  <2> QED BY <2>1, <2>2
<1>12. ASSUME NEW op \in {"attach", "decide_invoice"}, NEW new \in FieldRow, new.kind = row.kind,
             BeginRequest(q, op, r, new),
             Len(new.details.log) = n + 1, \A i \in 1..n : new.details.log[i] = old[i],
             InvoiceEntry(new.details.log, n + 1),
             (n + 1) % 2 = 1 => new.details.log[n + 1].of = new.details.content
      PROVE  FieldInv'
  <2> DEFINE h == [at |-> op, r |-> r, read |-> row, new |-> new]
  <2>1. h.at = op /\ h.r = r /\ h.read = row /\ h.new = new OBVIOUS
  <2> HIDE DEF h
  <2>2. InvoicePlan(h) BY <1>5, <2>1 DEF InvoicePlan
  <2>3. \A i \in 1..(n + 1) : InvoiceEntry(new.details.log, i)
    <3> PICK log : log = new.details.log OBVIOUS
    <3>1. \A i \in 1..n : InvoiceEntry(old, i) /\ log[i] = old[i] BY <1>9, <1>12
    <3>2. InvoiceEntry(log, n + 1) BY <1>12
    <3>3. \A i \in 1..(n + 1) : InvoiceEntry(log, i) BY <1>7, <3>1, <3>2, InvoiceEntries
    <3> QED BY <3>3
  <2>4. LogOK("purchase_order", new.status, new.details) BY <1>12, <2>3 DEF LogOK, InvoiceLog
  <2>5. RowOK(new) BY <1>5, <1>12, <2>4 DEF RowOK
  <2>6. RequestOK(h) BY <1>1, <1>2, <1>5, <1>12, <2>1, <2>2, <2>5 DEF RequestOK
  <2> QED BY <1>2, <1>12, <2>6, FieldRequestBegins DEF FieldOps, h
<1>13. ASSUME NEW c \in Contents, BeginAttach(q, r, c) PROVE FieldInv'
  <2> DEFINE n1 == Logged(row, "attached", c)
             new == [n1 EXCEPT !.details.content = c]
  <2>1. LastEntry(row) # "attached" /\ BeginRequest(q, "attach", r, new) BY <1>2, <1>13 DEF BeginAttach
  <2>2. (n + 1) % 2 = 1 BY <1>7, <1>11, <2>1, Parity
  <2>3. "attached" \in Events /\ c \in Contents \cup {0} BY DEF Events
  <2>4. /\ n1 \in FieldRow /\ n1.kind = row.kind /\ Len(n1.details.log) = n + 1
        /\ n1.details.log[n + 1].what = "attached" /\ n1.details.log[n + 1].of = c
        /\ \A i \in 1..n : n1.details.log[i] = old[i]
    <3>1. row \in FieldRow BY <1>1, <1>2
    <3>2. n1 \in FieldRow /\ n1.kind = row.kind BY <2>3, <3>1, LoggedRow, ZenonT(40)
    <3>3. Len(n1.details.log) = Len(row.details.log) + 1 BY <2>3, <3>1, LoggedRow, ZenonT(40)
    <3>4. /\ n1.details.log[Len(row.details.log) + 1].what = "attached"
          /\ n1.details.log[Len(row.details.log) + 1].of = c
      BY <2>3, <3>1, LoggedRow, ZenonT(40)
    <3>5. \A i \in 1..Len(row.details.log) : n1.details.log[i] = row.details.log[i]
      BY <2>3, <3>1, LoggedRow, ZenonT(40)
    <3> QED BY <1>3, <1>4, <3>2, <3>3, <3>4, <3>5
  <2> HIDE DEF n1
  <2>5. /\ new \in FieldRow /\ new.kind = n1.kind /\ new.details.log = n1.details.log /\ new.details.content = c
    BY <2>3, <2>4, FieldColumns
  <2> HIDE DEF new
  <2>6. InvoiceEntry(new.details.log, n + 1) BY <2>2, <2>4, <2>5 DEF InvoiceEntry
  <2> QED BY <1>12, <2>1, <2>4, <2>5, <2>6
<1>14. ASSUME NEW c \in {"approved", "rejected"}, BeginInvoiceDecision(q, r, c) PROVE FieldInv'
  <2> DEFINE new == Logged(row, c, row.details.content)
  <2>1. n % 2 = 1 /\ BeginRequest(q, "decide_invoice", r, new) BY <1>11, <1>2, <1>14 DEF BeginInvoiceDecision
  <2>2. (n + 1) % 2 = 0 BY <1>7, <2>1, Parity
  <2>3. c \in Events /\ c # "attached" BY DEF Events
  <2>4. /\ new \in FieldRow /\ new.kind = row.kind /\ Len(new.details.log) = n + 1
        /\ new.details.log[n + 1].what = c /\ new.details.log[n + 1].of = row.details.content
        /\ \A i \in 1..n : new.details.log[i] = old[i]
    <3>1. row \in FieldRow BY <1>1, <1>2
    <3>2. new \in FieldRow /\ new.kind = row.kind BY <1>6, <2>3, <3>1, LoggedRow, ZenonT(40)
    <3>3. Len(new.details.log) = Len(row.details.log) + 1 BY <1>6, <2>3, <3>1, LoggedRow, ZenonT(40)
    <3>4. new.details.log[Len(row.details.log) + 1].what = c /\ new.details.log[Len(row.details.log) + 1].of = row.details.content
      <4> PICK x \in Contents \cup {0} : x = row.details.content BY <1>6
      <4>1. LET e == Logged(row, c, x).details.log[Len(row.details.log) + 1] IN e.what = c /\ e.of = x
        BY <2>3, <3>1, LoggedRow, ZenonT(40)
      <4> QED BY <4>1
    <3>5. \A i \in 1..Len(row.details.log) : new.details.log[i] = row.details.log[i]
      BY <1>6, <2>3, <3>1, LoggedRow, ZenonT(40)
    <3> QED BY <1>3, <1>4, <3>2, <3>3, <3>4, <3>5
  <2> HIDE DEF new
  <2>5. n \in 1..n /\ (n + 1) - 1 = n BY <1>7, <2>1, Parity
  <2>6. new.details.log[n] = old[n] BY <2>4, <2>5
  <2>7. (n + 1) % 2 # 1 BY <2>2
  <2>8. old[n].of = row.details.content BY <1>10, <2>1
  <2>9. new.details.log[n + 1].of = new.details.log[(n + 1) - 1].of BY <2>4, <2>5, <2>6, <2>8
  <2>10. InvoiceEntry(new.details.log, n + 1) BY <2>3, <2>4, <2>7, <2>9 DEF InvoiceEntry
  <2> QED BY <1>12, <2>1, <2>4, <2>7, <2>10
<1> QED BY <1>13, <1>14

\* A request for time off or a review is decided.
LEMMA DecideSteps ==
  ASSUME FieldInv, NEW q \in Requests, NEW r \in FieldRows, NEW d \in {"approved", "declined"},
         BeginTimeOff(q, r, d) \/ \E p \in {"passed", "not_passed"} : BeginMilestone(q, r, d, p)
  PROVE  FieldInv'
<1>1. RowOK(field[r]) /\ field[r] \in FieldRow BY ReadRow
<1> PICK row : row = field[r] OBVIOUS
<1>2. PICK what \in {"approved", "declined", "passed", "not_passed"} :
        /\ BeginRequest(q, "decide", r, [Logged(row, what, 0) EXCEPT !.status = d])
        /\ \/ row.kind = "time_off" /\ row.status = "pending" /\ what = d
           \/ row.kind = "milestone" /\ (d = "approved" => what = "passed" /\ row.details.content = 1)
  BY DEF BeginTimeOff, BeginMilestone, Is
<1> DEFINE n1 == Logged(row, what, 0)
           new == [n1 EXCEPT !.status = d]
           h == [at |-> "decide", r |-> r, read |-> row, new |-> new]
<1>3. what \in Events /\ d \in FieldStatuses /\ 0 \in Contents \cup {0} BY DEF Events, FieldStatuses
<1>4. /\ n1 \in FieldRow /\ n1.kind = row.kind /\ n1.details.content = row.details.content
      /\ Len(row.details.log) \in Nat /\ Len(n1.details.log) = Len(row.details.log) + 1
      /\ n1.details.log[Len(row.details.log) + 1].what = what
  BY <1>1, <1>3, LoggedRow, SMTT(30)
<1>5. BeginRequest(q, "decide", r, new) BY <1>2
<1> HIDE DEF n1
<1>6. new \in FieldRow /\ new.kind = n1.kind /\ new.status = d /\ new.details = n1.details
  BY <1>3, <1>4, FieldColumns
<1> HIDE DEF new
<1>7. new.details.log # <<>> /\ new.details.log[Len(new.details.log)].what = what
  <2>1. new.details.log \in Seq(LogEntries) BY <1>6, FieldColumns
  <2> QED BY <1>4, <1>6, <2>1
<1>8. LastEntry(new) = what BY <1>7 DEF LastEntry
<1>9. RowOK(new) BY <1>2, <1>4, <1>6, <1>7 DEF RowOK, LogOK
<1>10. h.at = "decide" /\ h.r = r /\ h.read = row /\ h.new = new OBVIOUS
<1> HIDE DEF h
<1>11. DecidePlan(h) BY <1>2, <1>4, <1>6, <1>8, <1>10 DEF DecidePlan
<1>12. RequestOK(h) BY <1>1, <1>2, <1>4, <1>6, <1>9, <1>10, <1>11 DEF RequestOK
<1> QED BY <1>5, <1>6, <1>12, FieldRequestBegins DEF FieldOps, h

\* A line is imported, up to its insert.
LEMMA BeginImportStep ==
  ASSUME FieldInv, NEW q \in Requests, NEW d \in Contents, BeginImport(q, d)
  PROVE  FieldInv'
<1> DEFINE new == Row("completed_work", d)
           h == [at |-> "import", r |-> 1, read |-> NoRow, new |-> new]
<1>1. field[1] = NoRow /\ BeginRequest(q, "import", 1, new) /\ 1 \in FieldRows BY DEF BeginImport, FieldRows
<1>2. RowOK(NoRow) BY <1>1, ReadRow
<1>3. "completed_work" \in Kinds /\ d \in Contents \cup {0} BY DEF Kinds
<1>4. RowOK(new) /\ new.kind = "completed_work" /\ new.details.content = d BY <1>3, OpeningRow
<1> HIDE DEF new
<1>5. h.at = "import" /\ h.r = 1 /\ h.read = NoRow /\ h.new = new OBVIOUS
<1> HIDE DEF h
<1>6. ImportPlan(h) BY <1>4, <1>5 DEF ImportPlan
<1>7. RequestOK(h) BY <1>2, <1>4, <1>5, <1>6 DEF RequestOK
<1> QED BY <1>1, <1>4, <1>7, FieldRequestBegins DEF FieldOps, RowOK, h

\* The columns that a request writes back.
LEMMA ColumnsWritten ==
  ASSUME NEW h, field[h.r] \in FieldRow, h.new \in FieldRow, NEW w, w = WrittenBack(h)
  PROVE  /\ w \in FieldRow /\ w.kind = field[h.r].kind
         /\ w.status = IF h.new.status = h.read.status THEN field[h.r].status ELSE h.new.status
         /\ w.details = IF h.at = "sign" /\ h.read.kind # "flha" THEN field[h.r].details ELSE h.new.details
         /\ w.signatures = IF h.at = "sign" THEN h.new.signatures ELSE field[h.r].signatures
<1>1. PICK row \in FieldRow : row = field[h.r] OBVIOUS
<1>2. PICK st : st = IF h.new.status = h.read.status THEN row.status ELSE h.new.status OBVIOUS
<1>3. PICK d : d = IF h.at = "sign" /\ h.read.kind # "flha" THEN row.details ELSE h.new.details OBVIOUS
<1>4. PICK sig : sig = IF h.at = "sign" THEN h.new.signatures ELSE row.signatures OBVIOUS
<1>5. st \in FieldStatuses /\ d \in Details /\ sig \in SUBSET Signatures
  BY <1>2, <1>3, <1>4, FieldColumns
<1> DEFINE r1 == [row EXCEPT !.status = st]
           r2 == [r1 EXCEPT !.details = d]
           r3 == [r2 EXCEPT !.signatures = sig]
<1>6. r1 \in FieldRow /\ r1.status = st /\ r1.kind = row.kind BY <1>5, FieldColumns
<1>7. w = r3
  <2>1. w = [row EXCEPT !.status = st, !.details = d, !.signatures = sig]
    BY <1>1, <1>2, <1>3, <1>4 DEF WrittenBack, FieldRow
  <2> QED BY <2>1 DEF FieldRow
<1> HIDE DEF r1
<1>8. r2 \in FieldRow /\ r2.details = d /\ r2.status = st /\ r2.kind = row.kind BY <1>5, <1>6, FieldColumns
<1> HIDE DEF r2
<1>9. r3 \in FieldRow /\ r3.signatures = sig /\ r3.details = d /\ r3.status = st /\ r3.kind = row.kind
  <2>1. r2 \in FieldRow /\ sig \in SUBSET Signatures BY <1>5, <1>8
  <2>2. r3 \in FieldRow /\ r3.signatures = sig /\ r3.details = r2.details /\ r3.status = r2.status /\ r3.kind = r2.kind
    BY <2>1 DEF FieldRow
  <2> QED BY <1>8, <2>2
<1> HIDE DEF r3
<1> QED BY <1>1, <1>2, <1>3, <1>4, <1>7, <1>9

\* What a request h leaves in the record row: what it was keeps true, in w.
Kept(h, row, w) ==
  /\ w.kind = "milestone" => w.details.content = row.details.content
  /\ w.kind = "completed_work" => w.details = row.details
  /\ w.kind = "incident" =>
       Len(w.details.log) = IF h.at = "move" THEN Len(row.details.log) + 1 ELSE Len(row.details.log)
  /\ w.kind = "flha" /\ row = h.read /\ SignedOK(row) => SignedOK(w)
  /\ w.kind = "milestone" /\ w.status = "approved" =>
       \/ row.status = "approved"
       \/ h.at = "decide" /\ h.new.status = "approved" /\ LastEntry(h.new) = "passed"

\* A request that changes a record keeps to it.
LEMMA WrittenRecord ==
  ASSUME FieldInv, NEW q \in Requests, NEW h, h = request[q], h # NoRequest, MayCommit(h), h.at # "import",
         NEW row, row = field[h.r], NEW w, w = WrittenBack(h)
  PROVE  RowOK(w) /\ w.kind = row.kind /\ w.kind # "none" /\ Kept(h, row, w)
<1>1. h \in FieldRequest /\ h.r \in FieldRows BY FieldShapes DEF FieldInv, FieldTablesOK
<1>2. RowOK(row) /\ row \in FieldRow BY <1>1, ReadRow
<1>3. /\ RowOK(h.new) /\ RowOK(h.read) /\ h.read.kind # "none" /\ h.read.kind = row.kind /\ h.new.kind = row.kind
      /\ row.kind = "milestone" => h.read.details.content = row.details.content
  BY DEF FieldInv, RequestOK
<1>4. EditPlan(h) \/ SignPlan(h) \/ ReleasePlan(h) \/ MovePlan(h) \/ InvoicePlan(h) \/ DecidePlan(h)
  BY DEF FieldInv, RequestOK, ImportPlan
<1>5. /\ w \in FieldRow /\ w.kind = row.kind
      /\ w.status = IF h.new.status = h.read.status THEN row.status ELSE h.new.status
      /\ w.details = IF h.at = "sign" /\ h.read.kind # "flha" THEN row.details ELSE h.new.details
      /\ w.signatures = IF h.at = "sign" THEN h.new.signatures ELSE row.signatures
  BY <1>1, <1>2, ColumnsWritten DEF FieldRequest
<1>6. /\ LogOK(row.kind, row.status, row.details) /\ LogOK(row.kind, h.new.status, h.new.details)
      /\ LogOK(row.kind, h.read.status, h.read.details)
  BY <1>2, <1>3 DEF RowOK
<1> SUFFICES LogOK(w.kind, w.status, w.details) /\ Kept(h, row, w) BY <1>1, <1>3, <1>5 DEF RowOK
<1> USE DEF Kept
<1>7. CASE EditPlan(h)
  <2>1. w.kind = "flha" /\ LogOK(w.kind, w.status, w.details) BY <1>3, <1>5, <1>7 DEF EditPlan, LogOK
  <2>2. ASSUME row = h.read PROVE w.signatures = {} /\ w.status # "released" BY <1>5, <1>7, <2>2 DEF EditPlan
  <2> QED BY <2>1, <2>2 DEF SignedOK
<1>8. CASE SignPlan(h)
  <2>1. w.status = row.status /\ w.signatures = h.new.signatures BY <1>5, <1>8 DEF SignPlan
  <2>2. CASE row.kind = "flha"
    <3>1. LogOK(w.kind, w.status, w.details) BY <1>5, <2>2 DEF LogOK
    <3>2. ASSUME row = h.read, SignedOK(row) PROVE SignedOK(w)
      <4>1. w.details = row.details BY <1>3, <1>5, <1>8, <2>2, <3>2 DEF SignPlan
      <4>2. \A s \in w.signatures : s.of = w.details.content
        BY <1>3, <1>8, <2>1, <2>2, <3>2, <4>1 DEF SignPlan, SignedOK
      <4>3. Signers(row) \subseteq Signers(w) BY <1>8, <2>1, <3>2 DEF SignPlan, Signers
      <4> QED BY <2>1, <3>2, <4>1, <4>2, <4>3 DEF SignedOK
    <3> QED BY <1>5, <2>2, <3>1, <3>2
  <2>3. CASE row.kind # "flha"
    <3>1. w.details = row.details /\ h.at # "move" BY <1>3, <1>5, <1>8, <2>3 DEF SignPlan
    <3> QED BY <1>5, <1>6, <2>1, <2>3, <3>1
  <2> QED BY <2>2, <2>3
<1>9. CASE ReleasePlan(h)
  <2>1. w.kind = "flha" /\ LogOK(w.kind, w.status, w.details) BY <1>3, <1>5, <1>9 DEF ReleasePlan, LogOK
  <2>2. ASSUME row = h.read, SignedOK(row) PROVE SignedOK(w)
    <3>1. w.details = row.details /\ w.signatures = row.signatures BY <1>5, <1>9, <2>2 DEF ReleasePlan
    <3>2. Signers(w) = Signers(row) BY <3>1 DEF Signers
    <3> QED BY <1>9, <2>2, <3>1, <3>2 DEF ReleasePlan, Releasable, SignedOK
  <2> QED BY <2>1, <2>2
<1>10. CASE MovePlan(h)
  <2>1. row.status = h.read.status /\ h.at = "move" /\ w.details = h.new.details
    BY <1>5, <1>10 DEF MovePlan, MayCommit
  <2>2. CASE row.kind = "incident"
    <3>1. w.status = h.new.status BY <1>3, <1>5, <1>10, <2>2 DEF MovePlan
    <3>2. Len(row.details.log) = Len(h.read.details.log)
      <4>1. row.details.log \in Seq(LogEntries) /\ h.read.details.log \in Seq(LogEntries)
        BY <1>2, <1>3, FieldColumns DEF RowOK
      <4>2. Len(<<>>) = 0 OBVIOUS
      <4> QED BY <1>6, <2>1, <2>2, <4>1, <4>2 DEF LogOK
    <3>3. Len(h.new.details.log) = Len(h.read.details.log) + 1 BY <1>3, <1>10, <2>2 DEF MovePlan
    <3> QED BY <1>5, <1>6, <2>1, <2>2, <3>1, <3>2, <3>3
  <2>3. CASE row.kind = "safety_permit"
    <3>1. LogOK(w.kind, w.status, w.details) BY <1>5, <2>3 DEF LogOK
    <3> QED BY <1>5, <2>3, <3>1
  <2> QED BY <1>3, <1>10, <2>2, <2>3 DEF MovePlan
<1>11. CASE InvoicePlan(h)
  <2>1. w.kind = "purchase_order" /\ w.details = h.new.details BY <1>3, <1>5, <1>11 DEF InvoicePlan
  <2>2. LogOK(w.kind, w.status, w.details) BY <1>5, <1>6, <2>1 DEF LogOK
  <2> QED BY <2>1, <2>2
<1>12. CASE DecidePlan(h)
  <2>1. h.at = "decide" /\ w.details = h.new.details BY <1>5, <1>12 DEF DecidePlan
  <2>2. CASE row.kind = "time_off"
    <3>1. w.status = h.new.status BY <1>3, <1>5, <1>12, <2>2 DEF DecidePlan
    <3> QED BY <1>5, <1>6, <2>1, <2>2, <3>1
  <2>3. CASE row.kind = "milestone"
    <3>1. w.details.content = row.details.content BY <1>3, <1>12, <2>1, <2>3 DEF DecidePlan
    <3>2. w.status \in {row.status, h.new.status} BY <1>5
    <3>3. LogOK(w.kind, w.status, w.details)
      <4>1. CASE w.status = row.status BY <1>5, <1>6, <2>3, <3>1, <4>1 DEF LogOK
      <4>2. CASE w.status = h.new.status BY <1>5, <1>6, <2>1, <2>3, <4>2 DEF LogOK
      <4> QED BY <3>2, <4>1, <4>2
    <3>4. h.new.status = "approved" => LastEntry(h.new) = "passed" BY <1>3, <1>12, <2>3 DEF DecidePlan
    <3> QED BY <1>5, <2>1, <2>3, <3>1, <3>2, <3>3, <3>4
  <2> QED BY <1>3, <1>12, <2>2, <2>3 DEF DecidePlan
<1> QED BY <1>4, <1>7, <1>8, <1>9, <1>10, <1>11, <1>12

\* A record is made where there was none.
LEMMA RecordMade ==
  ASSUME FieldInv, NEW r \in FieldRows, field[r] = NoRow, NEW kind \in Kinds, NEW c \in Contents \cup {0},
         field' = [field EXCEPT ![r] = Row(kind, c)],
         UNCHANGED <<request, moves, imported, passed, fieldStale>>
  PROVE  FieldInv'
<1> DEFINE row == Row(kind, c)
<1>1. /\ RowOK(row) /\ row.kind = kind /\ row.signatures = {} /\ Len(row.details.log) = 0
      /\ row.status \notin {"released", "approved"}
  BY OpeningRow
<1> HIDE DEF row
<1>2. NoRow.kind = "none" /\ kind # "none" BY DEF NoRow, Kinds
<1>3. /\ field' \in [FieldRows -> FieldRow] /\ field'[r] = row
      /\ \A s \in FieldRows \ {r} : field'[s] = field[s]
  BY <1>1 DEF FieldInv, FieldTablesOK, RowOK, row
<1>4. FieldTablesOK' BY <1>3 DEF FieldInv, FieldTablesOK
<1>5. ImportsOK'
  <2>1. CASE r = 1
    <3>1. imported = {} BY <1>2, <2>1 DEF FieldInv, ImportsOK, Is
    <3> QED BY <3>1 DEF ImportsOK
  <2>2. CASE r # 1
    <3>1. field'[1] = field[1] BY <1>3, <2>2 DEF FieldRows
    <3> QED BY <3>1 DEF FieldInv, ImportsOK, Is
  <2> QED BY <2>1, <2>2
<1>6. ASSUME NEW s \in FieldRows PROVE RecordOK(s)'
  <2>1. CASE s = r
    <3>1. moves[r] = 0 BY <1>2 DEF FieldInv, RecordOK, Is
    <3>2. SignedOK(row) BY <1>1 DEF SignedOK
    <3> QED BY <1>1, <1>2, <1>3, <2>1, <3>1, <3>2 DEF RecordOK, Is
  <2>2. CASE s # r
    <3>1. field'[s] = field[s] BY <1>3, <2>2
    <3> QED BY <3>1 DEF FieldInv, RecordOK, Is
  <2> QED BY <2>1, <2>2
<1>7. ASSUME NEW q \in Requests, request[q] # NoRequest PROVE RequestOK(request[q])'
  <2>1. RequestOK(request[q]) BY <1>7 DEF FieldInv
  <2>2. request[q].at # "import" => request[q].r # r BY <1>2, <2>1 DEF RequestOK
  <2>3. request[q].r \in FieldRows BY <1>7, FieldShapes DEF FieldInv, FieldTablesOK
  <2>4. request[q].at # "import" => field'[request[q].r] = field[request[q].r] BY <1>3, <2>2, <2>3
  <2> QED BY <2>1, <2>4 DEF RequestOK
<1> QED BY <1>4, <1>5, <1>6, <1>7 DEF FieldInv

\* A new record, and the re-assessment of an FLHA.
LEMMA CreationSteps ==
  ASSUME FieldInv, FieldAssumption, NEW d \in Contents,
         (\E kind \in Kinds : CreateFieldRecord(kind, d)) \/ ReassessFlha(d)
  PROVE  FieldInv'
<1>1. ASSUME NEW kind \in Kinds, CreateFieldRecord(kind, d) PROVE FieldInv'
  <2> PICK c \in Contents \cup {0} : c = IF kind = "purchase_order" THEN 0 ELSE d OBVIOUS
  <2>1. /\ field[1] = NoRow /\ field' = [field EXCEPT ![1] = Row(kind, c)]
        /\ UNCHANGED <<request, moves, imported, passed, fieldStale>>
    BY <1>1 DEF CreateFieldRecord
  <2>2. 1 \in FieldRows BY DEF FieldRows
  <2> QED BY <2>1, <2>2, RecordMade
<1>2. CASE ReassessFlha(d)
  <2>1. /\ field[2] = NoRow /\ field' = [field EXCEPT ![2] = Row("flha", d)]
        /\ UNCHANGED <<request, moves, imported, passed, fieldStale>>
    BY <1>2 DEF ReassessFlha
  <2>2. 2 \in FieldRows /\ "flha" \in Kinds /\ d \in Contents \cup {0} BY DEF FieldRows, Kinds
  <2> QED BY <2>1, <2>2, RecordMade
<1> QED BY <1>1, <1>2

\* A request ends without a change of its record.
LEMMA ImportAnswers ==
  ASSUME FieldInv,
         NEW asked, request' = asked,
         asked \in [Requests -> {NoRequest} \cup FieldRequest],
         \A q \in Requests : asked[q] \in {NoRequest, request[q]},
         NEW found, imported' = found,
         \A d \in found \ imported : d \in Contents /\ Is(1, "completed_work") /\ field[1].details.content = d,
         UNCHANGED <<field, moves, passed, fieldStale>>
  PROVE  FieldInv'
<1>1. FieldTablesOK' BY DEF FieldInv, FieldTablesOK
<1>2. ImportsOK' BY DEF FieldInv, ImportsOK, Is
<1>3. ASSUME NEW q \in Requests, request'[q] # NoRequest PROVE RequestOK(request[q])'
  <2>1. request'[q] = request[q] /\ RequestOK(request[q]) BY <1>3 DEF FieldInv
  <2> QED BY <2>1 DEF RequestOK
<1> QED BY <1>1, <1>2, <1>3 DEF FieldInv, RecordOK, Is

\* The line is found on record, by another import or after a conflict.
LEMMA ImportSteps ==
  ASSUME FieldInv, (\E d \in Contents : ImportAgain(d)) \/ (\E q \in Requests : Conflict(q))
  PROVE  FieldInv'
<1>1. ASSUME NEW d \in Contents, ImportAgain(d) PROVE FieldInv'
  <2>1. field[1] = Row("completed_work", d) BY <1>1 DEF ImportAgain
  <2>2. "completed_work" \in Kinds /\ d \in Contents \cup {0} BY DEF Kinds
  <2>3. Is(1, "completed_work") /\ field[1].details.content = d BY <2>1, <2>2, OpeningRow DEF Is
  <2>4. PICK asked : asked = request OBVIOUS
  <2>5. PICK found : found = imported \cup {d} OBVIOUS
  <2>6. asked \in [Requests -> {NoRequest} \cup FieldRequest] BY <2>4 DEF FieldInv, FieldTablesOK
  <2> QED BY <1>1, <2>3, <2>4, <2>5, <2>6, ImportAnswers DEF ImportAgain
<1>2. ASSUME NEW q \in Requests, Conflict(q) PROVE FieldInv'
  <2>1. PICK h : h = request[q] OBVIOUS
  <2>2. h # NoRequest /\ RequestOK(h) BY <1>2, <2>1 DEF Conflict, FieldInv
  <2>3. PICK asked : asked = [request EXCEPT ![q] = NoRequest] OBVIOUS
  <2>4. /\ asked \in [Requests -> {NoRequest} \cup FieldRequest]
        /\ \A p \in Requests : asked[p] \in {NoRequest, request[p]}
    BY <2>3 DEF FieldInv, FieldTablesOK
  <2>5. PICK found : found = IF h.at = "import" /\ SameLine(h.r, h.new)
                             THEN imported \cup {h.new.details.content} ELSE imported
    OBVIOUS
  <2>6. \A d \in found \ imported : d \in Contents /\ Is(1, "completed_work") /\ field[1].details.content = d
    <3>1. CASE h.at = "import" /\ SameLine(h.r, h.new)
      <4>1. ImportPlan(h)
        BY <2>2, <3>1 DEF RequestOK, EditPlan, SignPlan, ReleasePlan, MovePlan, InvoicePlan, DecidePlan
      <4> QED BY <2>5, <3>1, <4>1 DEF ImportPlan, SameLine, Is
    <3> QED BY <2>5, <3>1
  <2>7. request' = asked /\ imported' = found /\ UNCHANGED <<field, moves, passed, fieldStale>>
    BY <1>2, <2>1, <2>3, <2>5 DEF Conflict
  <2> QED BY <2>4, <2>6, <2>7, ImportAnswers
<1> QED BY <1>1, <1>2

\* A request commits: the records, the requests of the others, and the imports.
LEMMA CommitFieldStep ==
  ASSUME FieldInv, NEW q \in Requests, CommitField(q)
  PROVE  FieldInv'
<1> PICK h : h = request[q] OBVIOUS
<1>1. h # NoRequest /\ h \in FieldRequest /\ MayCommit(h) /\ RequestOK(h)
  BY DEF CommitField, FieldInv, FieldTablesOK
<1>2. PICK after : after = IF h.at = "import" THEN h.new ELSE WrittenBack(h) OBVIOUS
<1>3. h.r \in FieldRows /\ h.read \in FieldRow /\ h.new \in FieldRow BY <1>1, FieldShapes
<1>4. PICK row \in FieldRow : row = field[h.r] BY <1>3 DEF FieldInv, FieldTablesOK
<1>5. /\ field' = [field EXCEPT ![h.r] = after]
      /\ moves' = IF h.at = "move" THEN [moves EXCEPT ![h.r] = @ + 1] ELSE moves
      /\ imported' = IF h.at = "import" THEN imported \cup {h.new.details.content} ELSE imported
      /\ passed' = IF h.at = "decide" /\ h.new.status = "approved" /\ LastEntry(h.new) = "passed"
                   THEN passed \cup {h.r} ELSE passed
      /\ fieldStale' = IF row # h.read THEN fieldStale \cup {h.r} ELSE fieldStale
      /\ request' = [request EXCEPT ![q] = NoRequest]
  BY <1>2, <1>4 DEF CommitField
<1>6. h.at = "import" => ImportPlan(h) /\ row = NoRow /\ row.kind = "none"
  BY <1>1, <1>4 DEF RequestOK, EditPlan, SignPlan, ReleasePlan, MovePlan, InvoicePlan, DecidePlan, MayCommit, NoRow
<1>7. h.at # "import" => RowOK(after) /\ after.kind = row.kind /\ after.kind # "none" /\ Kept(h, row, after)
  <2> SUFFICES ASSUME h.at # "import" PROVE RowOK(after) /\ after.kind = row.kind /\ after.kind # "none" /\ Kept(h, row, after)
    OBVIOUS
  <2>1. after = WrittenBack(h) BY <1>2
  <2> QED BY <1>1, <1>4, <2>1, WrittenRecord
<1>8. RowOK(after) BY <1>1, <1>2, <1>7 DEF RequestOK
<1>9. /\ field' \in [FieldRows -> FieldRow] /\ field'[h.r] = after
      /\ \A s \in FieldRows \ {h.r} : field'[s] = field[s]
  BY <1>3, <1>5, <1>8 DEF FieldInv, FieldTablesOK, RowOK
<1>10. /\ moves' \in [FieldRows -> Nat] /\ \A s \in FieldRows \ {h.r} : moves'[s] = moves[s]
       /\ moves'[h.r] = IF h.at = "move" THEN moves[h.r] + 1 ELSE moves[h.r]
  BY <1>3, <1>5 DEF FieldInv, FieldTablesOK
<1>11. FieldTablesOK'
  <2>1. imported' \subseteq Contents BY <1>5, <1>6 DEF FieldInv, FieldTablesOK, ImportPlan
  <2>2. passed' \subseteq FieldRows /\ fieldStale' \subseteq FieldRows BY <1>3, <1>5 DEF FieldInv, FieldTablesOK
  <2>3. request' \in [Requests -> {NoRequest} \cup FieldRequest] BY <1>5 DEF FieldInv, FieldTablesOK
  <2> QED BY <1>9, <1>10, <2>1, <2>2, <2>3 DEF FieldTablesOK
<1>12. ImportsOK'
  <2>1. CASE h.at = "import"
    <3>1. h.r = 1 /\ after = h.new /\ h.new.kind = "completed_work" BY <1>2, <1>6, <2>1 DEF ImportPlan
    <3>2. imported = {} BY <1>4, <1>6, <2>1, <3>1 DEF FieldInv, ImportsOK, Is
    <3> QED BY <1>5, <1>9, <2>1, <3>1, <3>2 DEF ImportsOK, Is
  <2>2. CASE h.at # "import" /\ h.r = 1
    BY <1>4, <1>5, <1>7, <1>9, <2>2 DEF FieldInv, ImportsOK, Is, Kept
  <2>3. CASE h.at # "import" /\ h.r # 1
    <3>1. field'[1] = field[1] BY <1>9, <2>3 DEF FieldRows
    <3> QED BY <1>5, <2>3, <3>1 DEF FieldInv, ImportsOK, Is
  <2> QED BY <2>1, <2>2, <2>3
<1>13. ASSUME NEW s \in FieldRows PROVE RecordOK(s)'
  <2>1. RecordOK(s) BY DEF FieldInv
  <2>2. CASE s # h.r
    <3>1. field'[s] = field[s] /\ moves'[s] = moves[s] BY <1>9, <1>10, <2>2
    <3>2. (s \in passed => s \in passed') /\ (s \in fieldStale => s \in fieldStale') BY <1>5
    <3> QED BY <2>1, <3>1, <3>2 DEF RecordOK, Is
  <2>3. CASE s = h.r /\ h.at = "import"
    <3>1. after.kind = "completed_work" BY <1>2, <1>6, <2>3 DEF ImportPlan
    <3> QED BY <1>8, <1>9, <2>3, <3>1 DEF RecordOK, Is
  <2>4. CASE s = h.r /\ h.at # "import"
    <3>1. field'[s] = after /\ field[s] = row BY <1>4, <1>9, <2>4
    <3>2. after.kind = "incident" => moves'[s] = Len(after.details.log)
      BY <1>7, <1>10, <2>1, <2>4, <3>1 DEF RecordOK, Is, Kept
    <3>3. after.kind = "flha" /\ s \notin fieldStale' => SignedOK(after)
      BY <1>5, <1>7, <2>1, <2>4, <3>1 DEF RecordOK, Is, Kept
    <3>4. after.kind = "milestone" /\ after.status = "approved" => s \in passed'
      BY <1>5, <1>7, <2>1, <2>4, <3>1 DEF RecordOK, Is, Kept
    <3> QED BY <1>7, <1>8, <2>4, <3>1, <3>2, <3>3, <3>4 DEF RecordOK, Is
  <2> QED BY <2>2, <2>3, <2>4
<1>14. ASSUME NEW p \in Requests, request'[p] # NoRequest PROVE RequestOK(request[p])'
  <2>1. request'[p] = request[p] /\ request[p] # NoRequest BY <1>5, <1>14 DEF FieldInv, FieldTablesOK
  <2>2. PICK o \in FieldRequest : o = request[p] BY <2>1 DEF FieldInv, FieldTablesOK
  <2>3. RequestOK(o) BY <2>1, <2>2 DEF FieldInv
  <2>4. o.at # "import" =>
          /\ o.read.kind = field'[o.r].kind
          /\ o.read.kind = "milestone" => o.read.details.content = field'[o.r].details.content
    <3>1. CASE o.r # h.r
      <4>1. field'[o.r] = field[o.r] BY <1>9, <2>2, <3>1, FieldShapes
      <4> QED BY <2>3, <4>1 DEF RequestOK
    <3>2. CASE o.r = h.r
      <4>1. o.at # "import" => h.at # "import" BY <1>4, <1>6, <2>3, <3>2 DEF RequestOK
      <4> QED BY <1>4, <1>7, <1>9, <2>3, <3>2, <4>1 DEF RequestOK, Kept
    <3> QED BY <3>1, <3>2
  <2>5. RequestOK(o)' BY <2>3, <2>4 DEF RequestOK
  <2> QED BY <2>1, <2>2, <2>5
<1> QED BY <1>11, <1>12, <1>13, <1>14 DEF FieldInv

\* No record, no request.
LEMMA FieldStart == ASSUME FieldInit PROVE FieldInv
<1>1. NoRow \in FieldRow /\ NoRow.kind = "none"
  <2>1. NoRow.details \in Details BY DEF NoRow, Details
  <2> QED BY <2>1 DEF NoRow, FieldRow, FieldStatuses
<1>2. \A r \in FieldRows : field[r] = NoRow /\ moves[r] = 0 BY DEF FieldInit
<1>3. FieldTablesOK BY <1>1 DEF FieldInit, FieldTablesOK
<1>4. LogOK("none", NoRow.status, NoRow.details) BY DEF LogOK
<1>5. \A r \in FieldRows : RecordOK(r) BY <1>1, <1>2, <1>4 DEF RecordOK, RowOK, Is
<1> QED BY <1>3, <1>5 DEF FieldInit, FieldInv, ImportsOK

\* The invariant of the field's records, for every crew and every content.
THEOREM FieldInvariant == FieldSpec => []FieldInv
<1>1. FieldInit => FieldInv BY FieldStart
<1>2. FieldInv /\ [FieldNext]_fieldVars => FieldInv'
  <2> SUFFICES ASSUME FieldInv, [FieldNext]_fieldVars PROVE FieldInv' OBVIOUS
  <2>1. CASE \E k \in Kinds, d \in Contents : CreateFieldRecord(k, d)
    BY <2>1, FieldAssumption, CreationSteps
  <2>2. ASSUME NEW d \in Contents, ReassessFlha(d) PROVE FieldInv' BY <2>2, FieldAssumption, CreationSteps
  <2>3. ASSUME NEW d \in Contents, ImportAgain(d) PROVE FieldInv' BY <2>3, ImportSteps
  <2>4. ASSUME NEW q \in Requests, CommitField(q) PROVE FieldInv' BY <2>4, CommitFieldStep
  <2>5. ASSUME NEW q \in Requests, Conflict(q) PROVE FieldInv' BY <2>5, ImportSteps
  <2>6. ASSUME NEW q \in Requests, NEW d \in Contents, BeginImport(q, d) PROVE FieldInv' BY <2>6, BeginImportStep
  <2>7. ASSUME NEW q \in Requests, NEW r \in FieldRows,
               \/ \E d \in Contents : BeginUpdateFlha(q, r, d)
               \/ \E w \in Workers : BeginSign(q, r, w)
               \/ BeginRelease(q, r)
        PROVE  FieldInv'
    BY <2>7, FlhaSteps
  <2>8. ASSUME NEW q \in Requests, NEW r \in FieldRows,
               NEW to \in {"under_review", "closed", "blocked", "ready"}, BeginMove(q, r, to)
        PROVE  FieldInv'
    BY <2>8, MoveSteps
  <2>9. ASSUME NEW q \in Requests, NEW r \in FieldRows,
               \/ \E d \in Contents : BeginAttach(q, r, d)
               \/ \E d \in {"approved", "rejected"} : BeginInvoiceDecision(q, r, d)
        PROVE  FieldInv'
    BY <2>9, InvoiceSteps
  <2>10. ASSUME NEW q \in Requests, NEW r \in FieldRows, NEW d \in {"approved", "declined"},
                BeginTimeOff(q, r, d) \/ \E p \in {"passed", "not_passed"} : BeginMilestone(q, r, d, p)
         PROVE  FieldInv'
    BY <2>10, DecideSteps
  <2>11. CASE UNCHANGED fieldVars
    BY <2>11 DEF fieldVars, FieldInv, FieldTablesOK, ImportsOK, RecordOK, RequestOK, Is
  <2> QED BY <2>1, <2>2, <2>3, <2>4, <2>5, <2>6, <2>7, <2>8, <2>9, <2>10, <2>11 DEF FieldNext
<1> QED BY <1>1, <1>2, PTL DEF FieldSpec

\* What the invariant says of one record.
LEMMA RecordHolds ==
  ASSUME FieldInv, NEW r \in FieldRows
  PROVE  /\ field[r].kind \in Kinds \cup {"none"} /\ field[r].details.content \in Contents \cup {0}
         /\ Signers(field[r]) \subseteq Workers
         /\ Is(r, "incident") =>
              /\ field[r].status \in {"reported", "under_review", "closed"}
              /\ Len(field[r].details.log) = moves[r]
              /\ field[r].status = IF moves[r] = 0 THEN "reported" ELSE LastEntry(field[r])
         /\ Is(r, "purchase_order") =>
              \A i \in DOMAIN field[r].details.log : InvoiceEntry(field[r].details.log, i)
         /\ Is(r, "time_off") /\ field[r].status # "pending" => field[r].status = LastEntry(field[r])
<1>1. PICK row \in FieldRow : row = field[r] BY DEF FieldInv, FieldTablesOK
<1>2. RecordOK(r) /\ LogOK(row.kind, row.status, row.details) BY <1>1 DEF FieldInv, RecordOK, RowOK
<1>3. /\ row.kind \in Kinds \cup {"none"} /\ row.details.content \in Contents \cup {0}
      /\ row.signatures \in SUBSET Signatures /\ row.details.log \in Seq(LogEntries)
  BY FieldColumns
<1>4. Signers(row) \subseteq Workers BY <1>3 DEF Signers, Signatures
<1>5. ASSUME row.kind = "incident"
      PROVE  /\ row.status \in {"reported", "under_review", "closed"} /\ Len(row.details.log) = moves[r]
             /\ row.status = IF moves[r] = 0 THEN "reported" ELSE LastEntry(row)
  <2>1. moves[r] = Len(row.details.log) BY <1>1, <1>2, <1>5 DEF RecordOK, Is
  <2>2. Len(<<>>) = 0 OBVIOUS
  <2>3. CASE row.status = "reported" /\ row.details.log = <<>> BY <2>1, <2>2, <2>3
  <2>4. CASE row.details.log # <<>> /\ Len(row.details.log) \in {1, 2} /\ row.details.log[Len(row.details.log)].what = row.status
             /\ row.status \in {"under_review", "closed"}
    BY <2>1, <2>4 DEF LastEntry
  <2>5. row.details.log # <<>> \/ row.details.log = <<>> OBVIOUS
  <2> QED BY <1>2, <1>5, <2>2, <2>3, <2>4 DEF LogOK
<1>6. ASSUME row.kind = "purchase_order"
      PROVE  \A i \in DOMAIN row.details.log : InvoiceEntry(row.details.log, i)
  <2>1. DOMAIN row.details.log = 1..Len(row.details.log) BY <1>3
  <2>2. InvoiceLog(row.details.log, row.details.content) BY <1>2, <1>6 DEF LogOK
  <2> QED BY <2>1, <2>2 DEF InvoiceLog
<1>7. row.kind = "time_off" /\ row.status # "pending" => row.status = LastEntry(row)
  BY <1>2 DEF LogOK, LastEntry
<1> QED BY <1>1, <1>3, <1>4, <1>5, <1>6, <1>7 DEF Is

\* The field's records, whatever requests race or are repeated: what is released was
\* signed, what is decided is what was attached, an incident's log has every change
\* that was answered, a line is imported once, and a qualification was earned.
THEOREM FieldRecordsAreKept == FieldSpec => []FieldRecordsHold
<1>1. FieldInv => FieldRecordsHold
  <2> SUFFICES ASSUME FieldInv PROVE FieldRecordsHold OBVIOUS
  <2>1. FieldTypeOK
    <3>1. \A q \in Requests : request[q] # NoRequest => request[q].r \in FieldRows
      BY FieldShapes DEF FieldInv, FieldTablesOK
    <3> QED BY <3>1, RecordHolds DEF FieldTypeOK, FieldInv, FieldTablesOK, Is
  <2>2. ReleasedAsSigned
    <3> SUFFICES ASSUME NEW r \in FieldRows \ fieldStale, Is(r, "flha"), field[r].status = "released",
                        NEW w \in CrewOf[field[r].details.content]
                 PROVE  [by |-> w, of |-> field[r].details.content] \in field[r].signatures
      BY DEF ReleasedAsSigned, FieldInv, RecordOK, SignedOK
    <3>1. PICK row \in FieldRow : row = field[r] BY DEF FieldInv, FieldTablesOK
    <3>2. SignedOK(row) BY <3>1 DEF FieldInv, RecordOK
    <3>3. PICK s \in row.signatures : s.by = w BY <3>1, <3>2 DEF SignedOK, Signers
    <3>4. s.of = row.details.content /\ s \in Signatures BY <3>2, FieldColumns DEF SignedOK
    <3>5. s = [by |-> w, of |-> row.details.content] BY <3>3, <3>4 DEF Signatures
    <3> QED BY <3>1, <3>5
  <2>3. IncidentFullyLogged BY RecordHolds DEF IncidentFullyLogged
  <2>4. InvoiceDecidedAsAttached BY RecordHolds DEF InvoiceDecidedAsAttached, InvoiceEntry
  <2>5. ImportedOnce BY DEF FieldInv, ImportsOK, ImportedOnce
  <2>6. DecisionsAgree
    <3>1. ASSUME NEW r \in FieldRows, Is(r, "milestone"), field[r].status = "approved"
          PROVE  field[r].details.content = 1 /\ r \in passed
      BY <3>1 DEF FieldInv, RecordOK, RowOK, LogOK, Is
    <3> QED BY <3>1, RecordHolds DEF DecisionsAgree
  <2> QED BY <2>1, <2>2, <2>3, <2>4, <2>5, <2>6 DEF FieldRecordsHold
<1> QED BY <1>1, FieldInvariant, PTL

=============================================================================
