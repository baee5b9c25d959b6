------------------------------- MODULE MCAward -------------------------------
(* A small instance of Projects and of CustomerQuotes, which extends it.  A *)
(* behaviour has one subject: "projects" runs the project register alone,   *)
(* with its launches and closeouts, "quotes" runs the quotes with the       *)
(* requests on projects that they compete with.                             *)
EXTENDS CustomerQuotes

CONSTANTS
  Other,        \* a project that only competes for job numbers
  Second,       \* a quote that only competes for its number and its estimate
  Estimator     \* the session that creates it
VARIABLE subject

Change(s, n, m) == [status |-> s, number |-> n, metadata |-> m]
MCChanges == {Change("opportunity", 0, FALSE), Change("awarded", 0, FALSE),
              Change("awarded", 1, FALSE), Change("awarded", 2, FALSE), Change("completed", 0, FALSE),
              Change(None, 0, TRUE)}
MCDocumentOf == [d \in Documents |-> CHOOSE p \in Projects : p # Other]

MCInit == subject \in {"projects", "quotes"} /\ QuotesInit

MCNext ==
  /\ \/ subject = "projects" /\ ProjectsNext /\ UNCHANGED quoteVars
     \/ subject = "quotes" /\ QuotesNext
  /\ UNCHANGED subject

MCSpec == MCInit /\ [][MCNext]_<<projectsVars, quoteVars, subject>>

\* The manager creates the project and makes any change; the other session
\* awards a project or sends back metadata.  What is raced, deleted or
\* archived is looked at in its simple states.
SmallRegister ==
  /\ project[Other].launch = None /\ ~project[Other].deleted /\ ~raced[Other]
  /\ project[Other].status \in {"absent", "awarded"}
  /\ mobilized[Other] # "complete" /\ closeout[Other] \in {None, {}}
  /\ ~postedBlocked[Other]
  /\ \A p \in Projects :
       /\ raced[p] => project[p].launch = None /\ ~project[p].deleted
       /\ raced[p] \/ project[p].deleted \/ project[p].status = "archived" =>
            mobilized[p] # "complete" /\ closeout[p] \in {None, {}}
  /\ \A s \in Sessions : update[s] # Idle /\ update[s].at # "item" =>
       IF s \in Managers
       THEN update[s].p # Other /\ (update[s].read = NoRow => update[s].new.number = 0)
       ELSE /\ update[s].new \in {Change("awarded", 0, FALSE), Change(None, 0, TRUE)}
            /\ project[update[s].p].status = "absent" => update[s].p = Other

SmallQuotes ==
  /\ quote[Second].rev <= 1 /\ quote[Second].total # 1
  /\ quote[Second].status \in {"absent", "draft"} /\ quote[Second].issue = "draft"
  /\ updates <= 1
  /\ \A s \in Sessions : update[s] # Idle =>
       /\ s \notin Managers /\ update[s].at # "item"
       /\ update[s].new = Change("awarded", 0, FALSE)
  /\ \A s \in Managers : view[s] # None => view[s].q # Second
  /\ updates > 0 \/ project[Other].status # "absent" \/ update[Estimator] # Idle =>
       request[Estimator] = Idle /\ quote[Second].status = "absent"
  /\ project[Other].status # "archived"
  /\ \A p \in Projects : ~raced[p] /\ closeout[p] \in {None, {}}
  /\ \A s \in Sessions : request[s].at = "create" => (request[s].q = Second) = (s = Estimator)
  /\ \A w \in Workspaces : Existing # {} => estimate[w] # 0
  /\ \A q \in Quotes :
       /\ quote[q].status # "expired"
       /\ quote[q].source = None => quote[q].total # 1 \/ quote[q].rev > 1

MCSmall == IF subject = "projects" THEN SmallRegister ELSE SmallQuotes
==============================================================================
