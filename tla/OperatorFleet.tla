---------------------------- MODULE OperatorFleet ----------------------------
(***************************************************************************)
(* Vehicles and equipment with their operators (field_operations.py and    *)
(* equipment.py).  What an operator enters (a vehicle's log, operator's    *)
(* time, an inspection, a photo or a haul) is accepted while he is an      *)
(* active employee, an operational unit is assigned to him, his            *)
(* orientation is ready and a review has qualified him.  Those are rows of *)
(* five tables, which a request reads one after the other, without a lock, *)
(* before it inserts its entry.                                            *)
(***************************************************************************)
EXTENDS Naturals, FiniteSets

CONSTANTS
  Operators,
  Vehicles, Machines,   \* the units: vehicles have an odometer
  Entrants,             \* requests that may run at the same time
  NoOperator,
  MaxKm, MaxLogs, MaxChanges

ASSUME FleetAssumption ==
  /\ Vehicles \cap Machines = {} /\ NoOperator \notin Operators
  /\ MaxKm \in Nat /\ MaxLogs \in Nat /\ MaxChanges \in Nat

VARIABLES
  unit,       \* the rows of vehicles and equipment
  person,     \* each operator: employee, onboarding's deployment status, review
  entry,      \* what the requests are about to enter or to change
  logs,       \* the entries on record, and whether they were allowed when committed
  changes,    \* counts what the bounds bound
  due,        \* history: what the odometer of each vehicle should be at
  passedBy    \* history: vehicles whose odometer was written by two at a time

fleetVars == <<unit, person, entry, logs, changes, due, passedBy>>

Units == Vehicles \cup Machines
NoEntry == [at |-> "idle", by |-> NoOperator, disturbed |-> FALSE]
NoUnit == "none"     \* the operator's time is about no unit
NoReading == MaxKm + 1

\* A vehicle that the session has not read.
Unread == [operator |-> NoOperator, status |-> "unread", km |-> NoReading]

\* The fleet as it was entered, and who drives it.  Nothing changes the status of
\* an employee afterwards.
FleetInit ==
  /\ unit \in [Units -> [operator: Operators \cup {NoOperator}, status: {"available", "maintenance"},
                         km: 0..MaxKm]]
  /\ person \in [Operators -> [active: BOOLEAN, deployable: BOOLEAN, review: {"none", "approved"}]]
  /\ \A u \in Units : unit[u].operator # NoOperator => person[unit[u].operator].active
  /\ \A u \in Machines : unit[u].km = 0
  /\ entry = [e \in Entrants |-> NoEntry]
  /\ logs = {}
  /\ changes = 0
  /\ due = [v \in Vehicles |-> unit[v].km]
  /\ passedBy = {}

Entering(e, place) == entry[e].at = place
NextPlace(e, place) == entry' = [entry EXCEPT ![e].at = place]
Refuse(e) == entry' = [entry EXCEPT ![e] = NoEntry]
Larger(k, l) == IF k >= l THEN k ELSE l

-----------------------------------------------------------------------------
\* What an operator may use.

\* _resource_is_operational
Operational(status) == status = "available"

\* Mutant of Limited: any assignment will do for every unit.
AnyUnit(assignments, u) == assignments # {}

\* The entry is about one of the units, or it is time.
Limited(assignments, u) == IF u = NoUnit THEN assignments # {} ELSE u \in assignments

Qualified(w) == person[w].review = "approved"

-----------------------------------------------------------------------------
\* The office changes what operators may use; the entries that are open take
\* note of it (history).

Noted(ws) ==
  [e \in Entrants |->
    IF entry[e] # NoEntry /\ entry[e].by \in ws THEN [entry[e] EXCEPT !.disturbed = TRUE] ELSE entry[e]]

MayChange == changes < MaxChanges /\ changes' = changes + 1

\* The newest orientation of a scope decides.
Orient(w, ready) ==
  /\ ready # person[w].deployable
  /\ person' = [person EXCEPT ![w].deployable = ready]
  /\ MayChange /\ entry' = Noted({w})
  /\ UNCHANGED <<unit, logs, due, passedBy>>

\* decide_milestone, of a review that may have been decided before.
DecideReview(w, decision) ==
  /\ decision # person[w].review
  /\ person' = [person EXCEPT ![w].review = decision]
  /\ MayChange /\ entry' = Noted({w})
  /\ UNCHANGED <<unit, logs, due, passedBy>>

-----------------------------------------------------------------------------
\* The requests

Begins(e, new) ==
  /\ entry[e] = NoEntry /\ Cardinality(logs) < MaxLogs
  /\ entry' = [entry EXCEPT ![e] = new]
  /\ UNCHANGED <<unit, person, logs, due, passedBy>>

\* create_vehicle_log, by the operator or by the office, which is not asked for
\* anything.  The session keeps the vehicle as it is read here.
BeginLog(e, w, v, k) ==
  /\ Begins(e, [at |-> IF w = NoOperator THEN "commit" ELSE "equipment",
                by |-> w, on |-> v, km |-> k, read |-> unit[v], found |-> FALSE, disturbed |-> FALSE])
  /\ UNCHANGED changes

\* create_time_entry of an operator's time; create_field_record of an inspection,
\* a photo or a haul.
BeginRecord(e, w, u) ==
  /\ Begins(e, [at |-> "equipment", by |-> w, on |-> u, km |-> NoReading, read |-> Unread,
                found |-> FALSE, disturbed |-> FALSE])
  /\ UNCHANGED changes

\* update_vehicle, update_equipment: a new operator, who must be active, or a new
\* status.
BeginUnitUpdate(e, u, column, value) ==
  /\ column = "operator" /\ value # NoOperator => person[value].active
  /\ Begins(e, [at |-> "update", by |-> NoOperator, on |-> u, column |-> column, value |-> value,
                read |-> unit[u], disturbed |-> FALSE])
  /\ MayChange

\* update_vehicle, with a reading
BeginOdometer(e, v, k) ==
  /\ Begins(e, [at |-> "odometer", by |-> NoOperator, on |-> v, km |-> k, read |-> unit[v],
                disturbed |-> FALSE])
  /\ UNCHANGED changes

\* operator_access_for_employee: is he active; the equipment assigned to him.
ReadEquipment(e) ==
  LET h == entry[e]
      held == {u \in Machines : unit[u].operator = h.by /\ Operational(unit[u].status)} IN
  /\ Entering(e, "equipment")
  /\ IF person[h.by].active
     THEN entry' = [entry EXCEPT ![e].at = "vehicles", ![e].found = Limited(held, h.on)]
     ELSE Refuse(e)
  /\ UNCHANGED <<unit, person, logs, changes, due, passedBy>>

\* The vehicles assigned to him: the status of one that the session has read
\* before is that of then.
ReadVehicles(e) ==
  LET h == entry[e]
      status(u) == IF u = h.on /\ h.read # Unread THEN h.read.status ELSE unit[u].status
      held == {u \in Vehicles : unit[u].operator = h.by /\ Operational(status(u))} IN
  /\ Entering(e, "vehicles")
  /\ IF h.found \/ Limited(held, h.on) THEN NextPlace(e, "orientation") ELSE Refuse(e)
  /\ UNCHANGED <<unit, person, logs, changes, due, passedBy>>

ReadOrientation(e) ==
  /\ Entering(e, "orientation")
  /\ IF person[entry[e].by].deployable THEN NextPlace(e, "qualification") ELSE Refuse(e)
  /\ UNCHANGED <<unit, person, logs, changes, due, passedBy>>

ReadQualification(e) ==
  /\ Entering(e, "qualification")
  /\ IF Qualified(entry[e].by) THEN NextPlace(e, "commit") ELSE Refuse(e)
  /\ UNCHANGED <<unit, person, logs, changes, due, passedBy>>

\* A column that is as it was read is not written.
Stored(h, column, value) ==
  IF value = h.read[column] THEN unit ELSE [unit EXCEPT ![h.on] = [@ EXCEPT ![column] = value]]

Crossed(h) == IF unit[h.on].km # h.read.km THEN passedBy \cup {h.on} ELSE passedBy

\* What the tables say of an entry when they are all read at once.
Allowed(w, u) ==
  /\ person[w].active /\ person[w].deployable /\ Qualified(w)
  /\ \E v \in Units : unit[v].operator = w /\ Operational(unit[v].status) /\ u \in {v, NoUnit}

\* The odometer goes on to a reading that is not below what was read.
CommitEntry(e) ==
  LET h == entry[e] IN
  /\ Entering(e, "commit")
  /\ logs' = logs \cup {[by |-> h.by, on |-> h.on, disturbed |-> h.disturbed,
                         allowed |-> h.by = NoOperator \/ Allowed(h.by, h.on)]}
  /\ IF h.km = NoReading THEN UNCHANGED <<unit, due, passedBy>>
     ELSE /\ unit' = IF h.km >= h.read.km THEN Stored(h, "km", h.km) ELSE unit
          /\ due' = [due EXCEPT ![h.on] = Larger(@, h.km)]
          /\ passedBy' = Crossed(h)
  /\ Refuse(e)
  /\ UNCHANGED <<person, changes>>

CommitUnitUpdate(e) ==
  LET h == entry[e] IN
  /\ Entering(e, "update")
  /\ unit' = Stored(h, h.column, h.value)
  /\ entry' = [Noted({unit[h.on].operator, h.value}) EXCEPT ![e] = NoEntry]
  /\ UNCHANGED <<person, logs, changes, due, passedBy>>

CommitOdometer(e) ==
  LET h == entry[e] IN
  /\ Entering(e, "odometer")
  /\ unit' = Stored(h, "km", h.km)
  /\ due' = [due EXCEPT ![h.on] = h.km]
  /\ passedBy' = Crossed(h)
  /\ Refuse(e)
  /\ UNCHANGED <<person, logs, changes>>

FleetNext ==
  \/ \E w \in Operators :
       \/ \E ready \in BOOLEAN : Orient(w, ready)
       \/ \E d \in {"approved", "declined"} : DecideReview(w, d)
  \/ \E e \in Entrants :
       \/ \E v \in Vehicles :
            \/ \E k \in 0..NoReading, w \in Operators \cup {NoOperator} : BeginLog(e, w, v, k)
            \/ \E k \in 0..MaxKm : BeginOdometer(e, v, k)
       \/ \E u \in Units :
            \/ \E w \in Operators \cup {NoOperator} : BeginUnitUpdate(e, u, "operator", w)
            \/ \E s \in {"available", "maintenance"} : BeginUnitUpdate(e, u, "status", s)
       \/ \E w \in Operators, u \in Units \cup {NoUnit} : BeginRecord(e, w, u)
       \/ ReadEquipment(e) \/ ReadVehicles(e) \/ ReadOrientation(e) \/ ReadQualification(e)
       \/ CommitEntry(e) \/ CommitUnitUpdate(e) \/ CommitOdometer(e)

FleetSpec == FleetInit /\ [][FleetNext]_fleetVars

-----------------------------------------------------------------------------
\* The values of the tables.
FleetTypeOK ==
  /\ unit \in [Units -> [operator: Operators \cup {NoOperator}, status: {"available", "maintenance"},
                         km: 0..MaxKm]]
  /\ person \in [Operators -> [active: BOOLEAN, deployable: BOOLEAN,
                               review: {"none", "approved", "declined"}]]
  /\ changes \in 0..MaxChanges /\ due \in [Vehicles -> 0..MaxKm] /\ passedBy \subseteq Vehicles

\* Although the five tables are read one after the other: unless something of the
\* operator's changed after his request had begun, what is on record of him was
\* allowed when it was committed, and is about a unit of his.
EntriesAllowed == \A l \in logs : ~l.disturbed => l.allowed

\* The odometer of a vehicle is at the last reading of the office, or at the
\* highest entered after it, unless a reading was entered beside another.
OdometerKept == \A v \in Vehicles \ passedBy : unit[v].km = due[v]

\* What operators and the office enter about the fleet.
FleetHolds == FleetTypeOK /\ EntriesAllowed /\ OdometerKept
=============================================================================
