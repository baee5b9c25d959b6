---------------------------- MODULE WorkflowDrafts ----------------------------
(***************************************************************************)
(* Durable drafts: the browser hook useWorkflowDraft, which keeps a form   *)
(* in local storage and saves it over a network that loses requests and    *)
(* answers, and the server's drafts with their revisions.  All tabs belong *)
(* to one account, on the same workflow.                                   *)
(***************************************************************************)
EXTENDS Naturals, Sequences, SequencesExt, FiniteSets

CONSTANTS
  Tabs,            \* pages that run the hook
  Profiles,        \* local storages
  BrowserOf,       \* the browser of each tab
  MaxEdits,        \* bound on the edits of all tabs
  MaxDrafts,       \* bound on the drafts of the server
  MaxOpens         \* bound on the pages that are opened again

ASSUME DraftsAssumption ==
  /\ BrowserOf \in [Tabs -> Profiles]
  /\ {MaxEdits, MaxDrafts, MaxOpens} \subseteq Nat

VARIABLES
  page,        \* the state of the hook in each tab
  buffer,      \* the recovery buffer of each browser; 0 is empty
  drafts,      \* the server's rows, in order of creation
  strays,      \* requests of pages that are gone
  opens,       \* counts what MaxOpens bounds
  edits,       \* history: the last edit made, and what each edit was made from
  last,        \* history: the last edit of each tab that is still to be kept
  saved,       \* history: the payloads that reached the server
  trampled,    \* history: payloads replaced by one that was not made from them
  displaced    \* history: work put or cleared out of a buffer by a page that had not seen it

draftVars == <<page, buffer, drafts, strays, opens, edits, last, saved, trampled, displaced>>

NotCalling == [at |-> "none"]

\* The page as it starts: the draft in its address is all that it knows.
NewPage(url) == [form |-> 0, ready |-> FALSE, timer |-> FALSE, chain |-> <<>>, call |-> NotCalling,
                 closing |-> NotCalling, id |-> 0, revision |-> 0, url |-> url, status |-> "idle"]

DraftsInit ==
  /\ page = [t \in Tabs |-> NewPage(0)]
  /\ buffer = [b \in Profiles |-> 0]
  /\ drafts = <<>>
  /\ strays = {}
  /\ opens = 0
  /\ edits = <<>>
  /\ last = [t \in Tabs |-> 0]
  /\ saved = {}
  /\ trampled = {}
  /\ displaced = {}

\* What an edit was made from, the edit itself included.
MadeFrom(n) == IF n = 0 THEN {0} ELSE edits[n] \cup {n, 0}

Set(t, p) == page' = [page EXCEPT ![t] = p]

\* The buffer of a browser is given to a form, or cleared when it is closed.
Displaces(b, form) == displaced' = displaced \cup (MadeFrom(buffer[b]) \ MadeFrom(form))

----------------------------------------------------------------------------
\* The server

Unknown == 0

\* Mutant of Unchanged: any row with the identity is updated.
UnchangedAny(id, revision) == TRUE

\* UPDATE ... WHERE status = 'active' AND revision = the expected one
Unchanged(id, revision) == drafts[id].status = "active" /\ drafts[id].revision = revision

\* What create_workflow_draft or update_workflow_draft answers.
Answer(call) ==
  IF call.id = Unknown THEN [result |-> "saved", id |-> Len(drafts) + 1, revision |-> 1]
  ELSE IF Unchanged(call.id, call.revision)
  THEN [result |-> "saved", id |-> call.id, revision |-> drafts[call.id].revision + 1]
  ELSE [result |-> IF drafts[call.id].status = "active" THEN "conflict" ELSE "offline"]

\* create_workflow_draft, update_workflow_draft and its refusal
Serve(call) ==
  \/ /\ call.id = Unknown /\ Len(drafts) < MaxDrafts
     /\ drafts' = Append(drafts, [status |-> "active", revision |-> 1, payload |-> call.payload])
     /\ saved' = saved \cup {call.payload}
     /\ UNCHANGED trampled
  \/ /\ call.id # Unknown /\ Unchanged(call.id, call.revision)
     /\ drafts' = [drafts EXCEPT ![call.id].revision = @ + 1, ![call.id].payload = call.payload]
     /\ saved' = saved \cup {call.payload}
     /\ trampled' = trampled \cup ({drafts[call.id].payload} \ MadeFrom(call.payload))
  \/ /\ call.id # Unknown /\ ~Unchanged(call.id, call.revision)
     /\ UNCHANGED <<drafts, saved, trampled>>

ServeSave(t) ==
  /\ page[t].call.at = "sent"
  /\ Serve(page[t].call)
  /\ Set(t, [page[t] EXCEPT !.call = [at |-> "answered", answer |-> Answer(page[t].call)]])
  /\ UNCHANGED <<buffer, strays, opens, edits, last, displaced>>

\* A request arrives whose page is gone.
ServeStray(call) ==
  /\ Serve(call)
  /\ strays' = strays \ {call}
  /\ UNCHANGED <<page, buffer, opens, edits, last, displaced>>

\* transition_workflow_draft, to completed or cancelled
ServeClose(t) ==
  /\ page[t].closing.at = "sent"
  /\ LET p == page[t]
         Answered(r) == Set(t, [p EXCEPT !.closing = [at |-> "answered", result |-> r]])
     IN \/ /\ Unchanged(p.id, p.closing.revision)
           /\ drafts' = [drafts EXCEPT ![p.id].revision = @ + 1, ![p.id].status = "closed"]
           /\ Answered("saved")
        \/ /\ ~Unchanged(p.id, p.closing.revision)
           /\ Answered(IF drafts[p.id].status = "active" THEN "conflict" ELSE "offline")
           /\ UNCHANGED drafts
  /\ UNCHANGED <<buffer, strays, opens, edits, last, saved, trampled, displaced>>

----------------------------------------------------------------------------
\* The hook

\* The effect of a changed form: it is put in the recovery buffer and the
\* timer starts again.  Nothing happens while the form is empty or not ready.
Buffered(t, p) ==
  LET b == BrowserOf[t] IN
  IF p.ready /\ p.form # 0
  THEN /\ Set(t, [p EXCEPT !.timer = TRUE])
       /\ buffer' = [buffer EXCEPT ![b] = p.form]
       /\ Displaces(b, p.form)
  ELSE Set(t, p) /\ UNCHANGED <<buffer, displaced>>

\* The page is ready: the draft of its address or the buffer is restored.
Initialize(t) ==
  /\ ~page[t].ready /\ page[t].status = "idle"
  /\ LET p == page[t]  b == BrowserOf[t] IN
     \/ /\ p.url # 0 /\ drafts[p.url].status = "active"
        /\ Buffered(t, [p EXCEPT !.form = drafts[p.url].payload, !.id = p.url,
                                 !.revision = drafts[p.url].revision,
                                 !.status = "saved", !.ready = TRUE])
     \/ /\ p.url # 0 /\ drafts[p.url].status # "active"
        /\ Set(t, [p EXCEPT !.status = "loading"])
        /\ UNCHANGED <<buffer, displaced>>
     \/ /\ p.url # 0                    \* the draft could not be loaded
        /\ Buffered(t, [p EXCEPT !.url = 0, !.status = "offline", !.ready = TRUE])
     \/ /\ p.url = 0
        /\ Buffered(t, [p EXCEPT !.form = buffer[b], !.ready = TRUE,
                                 !.status = IF buffer[b] = 0 THEN @ ELSE "recovery"])
  /\ UNCHANGED <<drafts, strays, opens, edits, last, saved, trampled>>

\* A close whose wait is over goes on before anything else runs in its page.
Resuming(t) == page[t].closing = [at |-> "waiting", behind |-> 0]

Edit(t) ==
  /\ page[t].ready /\ ~Resuming(t) /\ Len(edits) < MaxEdits
  /\ LET n == Len(edits) + 1 IN
     /\ edits' = Append(edits, MadeFrom(page[t].form))
     /\ last' = [last EXCEPT ![t] = n]
     /\ LET b == BrowserOf[t] IN
        /\ Set(t, [page[t] EXCEPT !.form = n, !.timer = TRUE])
        /\ buffer' = [buffer EXCEPT ![b] = n]
        /\ Displaces(b, page[t].form)
  /\ UNCHANGED <<drafts, strays, opens, saved, trampled>>

\* 750 ms after the last edit its snapshot joins the chain of saves.
TimerFires(t) ==
  /\ page[t].timer /\ ~Resuming(t)
  /\ Set(t, [page[t] EXCEPT !.timer = FALSE, !.chain = Append(@, page[t].form)])
  /\ UNCHANGED <<buffer, drafts, strays, opens, edits, last, saved, trampled, displaced>>

\* The next save of the chain takes the draft and its revision as they are.
SendSave(t) ==
  /\ page[t].chain # <<>> /\ page[t].call = NotCalling /\ ~Resuming(t)
  /\ Set(t, [page[t] EXCEPT !.status = "saving",
               !.call = [at |-> "sent", id |-> page[t].id, revision |-> page[t].revision,
                         payload |-> Head(page[t].chain)]])
  /\ UNCHANGED <<buffer, drafts, strays, opens, edits, last, saved, trampled, displaced>>

\* The network loses the request or its answer.
LoseCall(t) ==
  /\ page[t].call.at \in {"sent", "answered"}
  /\ page[t].call # [at |-> "answered", answer |-> [result |-> "offline"]]
  /\ Set(t, [page[t] EXCEPT !.call = [at |-> "answered", answer |-> [result |-> "offline"]]])
  /\ UNCHANGED <<buffer, drafts, strays, opens, edits, last, saved, trampled, displaced>>

\* The buffer holds what was saved.
Reached(t, payload) == buffer[BrowserOf[t]] = payload

\* The end of one save of the chain.
ReceiveSave(t) ==
  /\ page[t].call.at = "answered"
  /\ LET p == page[t]
         a == p.call.answer
         waits == p.closing.at = "waiting"
         done == [p EXCEPT !.call = NotCalling, !.chain = Tail(@),
                           !.closing = IF waits THEN [at |-> "waiting", behind |-> @.behind - 1] ELSE @]
     IN \/ /\ a.result = "saved"
           /\ Set(t, [done EXCEPT !.id = a.id, !.revision = a.revision, !.url = a.id, !.status = "saved"])
           /\ buffer' = [buffer EXCEPT ![BrowserOf[t]] = IF Reached(t, Head(p.chain)) THEN 0 ELSE @]
        \/ /\ a.result # "saved"
           /\ Set(t, [done EXCEPT !.status = a.result])
           /\ UNCHANGED buffer
  /\ UNCHANGED <<drafts, strays, opens, edits, last, saved, trampled, displaced>>

\* completeDraft and cancelDraft: the timer is cleared and the saves that were
\* in the chain are waited for.
BeginClose(t) ==
  /\ page[t].ready /\ page[t].form # 0 /\ page[t].closing = NotCalling
  /\ Set(t, [page[t] EXCEPT !.timer = FALSE,
                            !.closing = [at |-> "waiting", behind |-> Len(page[t].chain)]])
  /\ UNCHANGED <<buffer, drafts, strays, opens, edits, last, saved, trampled, displaced>>

\* What its form was made from is no longer to be kept.
Closed(t) ==
  LET b == BrowserOf[t]  form == page[t].form IN
  /\ Set(t, [page[t] EXCEPT !.closing = NotCalling, !.id = 0, !.revision = 0, !.url = 0, !.status = "idle"])
  /\ buffer' = [buffer EXCEPT ![b] = 0]
  /\ Displaces(b, form)
  /\ last' = [u \in Tabs |-> IF BrowserOf[u] = b /\ last[u] \in MadeFrom(form) THEN 0 ELSE last[u]]

SendClose(t) ==
  /\ Resuming(t)
  /\ \/ /\ page[t].id # 0
        /\ Set(t, [page[t] EXCEPT !.closing = [at |-> "sent", revision |-> page[t].revision]])
        /\ UNCHANGED <<buffer, last, displaced>>
     \/ page[t].id = 0 /\ Closed(t)
  /\ UNCHANGED <<drafts, strays, opens, edits, saved, trampled>>

\* The close or its answer is lost, refused or done.
ReceiveClose(t) ==
  /\ page[t].closing.at \in {"sent", "answered"}
  /\ \/ page[t].closing = [at |-> "answered", result |-> "saved"] /\ Closed(t)
     \/ /\ Set(t, [page[t] EXCEPT !.closing = NotCalling,
               !.status = IF page[t].closing = [at |-> "answered", result |-> "conflict"]
                          THEN "conflict" ELSE "offline"])
        /\ UNCHANGED <<buffer, last, displaced>>
  /\ UNCHANGED <<drafts, strays, opens, edits, saved, trampled>>

\* The page is refreshed, left for another, or opened from the list of drafts
\* to resume; a request under way may still arrive.
OpenPage(t, url) ==
  /\ opens < MaxOpens /\ opens' = opens + 1
  /\ url \in {page[t].url, 0} \cup {d \in DOMAIN drafts : drafts[d].status = "active"}
  /\ Set(t, NewPage(url))
  /\ strays' = IF page[t].call.at = "sent" THEN strays \cup {page[t].call} ELSE strays
  /\ UNCHANGED <<buffer, drafts, edits, last, saved, trampled, displaced>>

DraftsNext ==
  \/ \E t \in Tabs :
       \/ Initialize(t) \/ Edit(t) \/ TimerFires(t) \/ SendSave(t) \/ ServeSave(t) \/ LoseCall(t)
       \/ ReceiveSave(t) \/ BeginClose(t) \/ SendClose(t) \/ ServeClose(t) \/ ReceiveClose(t)
       \/ \E url \in 0..MaxDrafts : OpenPage(t, url)
  \/ \E call \in strays : ServeStray(call)

DraftsSpec == DraftsInit /\ [][DraftsNext]_draftVars

----------------------------------------------------------------------------
\* Types; what a page knows of a draft exists, and what is sent is the head of
\* its chain of saves.
DraftsTypeOK ==
  /\ \A d \in DOMAIN drafts :
       /\ drafts[d].status \in {"active", "closed"}
       /\ drafts[d].payload \in saved /\ saved \subseteq 1..Len(edits)
  /\ \A t \in Tabs : page[t].id \in DOMAIN drafts => page[t].revision \in 1..drafts[page[t].id].revision
  /\ \A t \in Tabs : page[t].id # 0 => page[t].id \in DOMAIN drafts
  /\ \A t \in Tabs : page[t].call # NotCalling => page[t].chain # <<>>
  /\ \A t \in Tabs : page[t].closing.at = "waiting" => page[t].closing.behind \in 0..Len(page[t].chain)

\* A save never replaces work that it was not made from
\* (docs/durable-workflow-drafts.md:20).
NoBlindSave == trampled = {}

\* A tab that says saved, with no save to come, shows what was saved.
SavedIsSaved ==
  \A t \in Tabs :
    page[t].status = "saved" /\ ~page[t].timer /\ page[t].chain = <<>> /\ page[t].closing = NotCalling
      => page[t].form \in saved

\* Until a form that was made from it is closed, an edit is saved or in the
\* recovery buffer, itself or in what was made from it, however often pages are
\* refreshed, unless a page of the same browser that had not seen it put its own
\* form over it or closed.
WorkSurvives ==
  \A t \in Tabs : last[t] # 0 /\ last[t] \notin displaced =>
    \E n \in saved \cup {buffer[BrowserOf[t]]} : last[t] \in MadeFrom(n)

\* A completed or cancelled draft never changes again.
ClosedStaysClosed ==
  [][\A d \in DOMAIN drafts : drafts[d].status = "closed" => drafts'[d] = drafts[d]]_draftVars

\* Drafts over a lossy network, in several tabs: no save replaces work it did
\* not see, what is shown as saved is saved, and edits survive outside of a
\* buffer that another payload was put over.
DraftsAreSafe == DraftsTypeOK /\ NoBlindSave /\ SavedIsSaved /\ WorkSurvives

==============================================================================
