--------------------------- MODULE GoogleCalendar ---------------------------
(***************************************************************************)
(* One manager's connection to Google Calendar                             *)
(* (api/v1/routes/google_calendar.py, services/google_calendar.py).  Each  *)
(* handler reads the connection without a lock, talks to Google and then   *)
(* writes back what it changed; several of them may be under way.  A token *)
(* is named by the grant it belongs to.                                    *)
(***************************************************************************)
EXTENDS Naturals, FiniteSets

CONSTANTS
  Visits,         \* concurrent requests of the manager
  OAuthStates,
  MaxConsents,      \* bound on the consents given at Google
  MaxLosses       \* bound on the calls to Google that fail

ASSUME CalendarAssumption == {MaxConsents, MaxLosses} \subseteq Nat

VARIABLES
  link,       \* the manager's row of google_calendar_connections
  oauth,      \* google_calendar_oauth_states, and the code each was granted
  visit,      \* the requests under way
  live,       \* Google: the grants that are valid
  consents,   \* Google: the grants ever made
  losses,     \* counts what MaxLosses bounds
  interleaved,    \* history: a row was written that another request had read
  forgotten   \* history: grants whose last token was dropped while they were live

calendarVars == <<link, oauth, visit, live, consents, losses, interleaved, forgotten>>

NoGrant == 0
Consents == 1..MaxConsents
NoLink == [status |-> "absent", access |-> NoGrant, fresh |-> FALSE, refresh |-> NoGrant]
NoVisit == [at |-> "idle"]

CalendarInit ==
  /\ link = NoLink
  /\ oauth = [s \in OAuthStates |-> [status |-> "absent", code |-> NoGrant]]
  /\ visit = [v \in Visits |-> NoVisit]
  /\ live = {}
  /\ consents = 0
  /\ losses = 0
  /\ interleaved = FALSE
  /\ forgotten = {}

\* Requests that hold a copy of the row.
Readers == {v \in Visits : visit[v].at \in {"exchange", "connect", "refresh", "renew", "expire", "revoke", "clear"}}
GoOn(v, state) == visit' = [visit EXCEPT ![v] = state]
Overlaps(v) == interleaved' = (interleaved \/ Readers \ {v} # {})

\* Mutant of FlushLink: the row is written as a whole.
FlushLinkRow(seen, new) == new

\* A flush writes the columns that differ from what was read.  A token is
\* encrypted anew each time, so that one that is set always differs.
FlushLink(seen, new) ==
  [c \in DOMAIN link |->
     IF new[c] # seen[c] \/ (c # "status" /\ new.access # NoGrant) THEN new[c] ELSE link[c]]

Write(v, new) ==
  /\ link' = IF visit[v].seen = NoLink THEN new ELSE FlushLink(visit[v].seen, new)
  /\ Overlaps(v)
  /\ GoOn(v, NoVisit)

\* A grant whose token leaves the row while Google honours it.
Forgets == forgotten' = forgotten \cup (({link.refresh} \cap live) \ {link'.refresh})

----------------------------------------------------------------------------
\* Connecting

\* start_google_calendar_oauth
StartCalendarOAuth(s) ==
  /\ oauth[s].status = "absent"
  /\ oauth' = [oauth EXCEPT ![s].status = "started"]
  /\ UNCHANGED <<link, visit, live, consents, losses, interleaved, forgotten>>

\* The manager consents at Google, for a calendar that is connected already or
\* for another one.
Consent(s) ==
  /\ oauth[s] = [status |-> "started", code |-> NoGrant]
  /\ \/ consents < MaxConsents /\ consents' = consents + 1 /\ live' = live \cup {consents'}
        /\ oauth' = [oauth EXCEPT ![s].code = consents']
     \/ \E g \in live : oauth' = [oauth EXCEPT ![s].code = g] /\ UNCHANGED <<live, consents>>
  /\ UNCHANGED <<link, visit, losses, interleaved, forgotten>>

\* google_calendar_oauth_callback: an unused state that has not expired.
BeginCallback(v, s) ==
  /\ visit[v] = NoVisit /\ oauth[s].status = "started"
  /\ GoOn(v, [at |-> "consume", state |-> s])
  /\ UNCHANGED <<link, oauth, live, consents, losses, interleaved, forgotten>>

\* used_at is committed; without a code the consent was denied.
UseState(v) ==
  /\ visit[v].at = "consume"
  /\ oauth' = [oauth EXCEPT ![visit[v].state].status = "used"]
  /\ IF oauth[visit[v].state].code = NoGrant
     THEN GoOn(v, NoVisit)
     ELSE GoOn(v, [at |-> "exchange", state |-> visit[v].state, seen |-> link])
  /\ UNCHANGED <<link, live, consents, losses, interleaved, forgotten>>

\* Google takes a code once.  Without a new refresh token the one on record is
\* kept; without either the connection is left as it was.
Exchange(v) ==
  /\ visit[v].at = "exchange"
  /\ LET s == visit[v].state  g == oauth[s].code IN
     /\ g \in live /\ oauth' = [oauth EXCEPT ![s].code = NoGrant]
     /\ \E r \in {g, visit[v].seen.refresh} :
          IF r = NoGrant THEN GoOn(v, NoVisit)
          ELSE GoOn(v, [at |-> "connect", seen |-> visit[v].seen,
                      new |-> [status |-> "connected", access |-> g, fresh |-> TRUE, refresh |-> r]])
  /\ UNCHANGED <<link, live, consents, losses, interleaved, forgotten>>

ExchangeRefused(v) ==
  /\ visit[v].at = "exchange"
  /\ \/ oauth[visit[v].state].code \notin live /\ UNCHANGED losses
     \/ losses < MaxLosses /\ losses' = losses + 1
  /\ GoOn(v, NoVisit)
  /\ UNCHANGED <<link, oauth, live, consents, interleaved, forgotten>>

\* The tokens are stored.  A first row is inserted, once for each manager.
Connect(v) ==
  /\ visit[v].at = "connect"
  /\ visit[v].seen = NoLink => link = NoLink
  /\ Write(v, visit[v].new)
  /\ UNCHANGED <<oauth, live, consents, losses, forgotten>>

ConnectClashes(v) ==
  /\ visit[v].at = "connect" /\ visit[v].seen = NoLink /\ link # NoLink
  /\ GoOn(v, NoVisit)
  /\ UNCHANGED <<link, oauth, live, consents, losses, interleaved, forgotten>>

----------------------------------------------------------------------------
\* The calendar's events: list, create, update, cancel and conflicts differ in
\* what they ask of Google, not in what they do to the connection.

\* A token that is good for another minute is used as it is.
BeginUse(v) ==
  /\ visit[v] = NoVisit /\ link.status = "connected"
  /\ \/ /\ link.access # NoGrant /\ link.fresh
        /\ GoOn(v, [at |-> "call"])
     \/ /\ link.access = NoGrant \/ ~link.fresh
        /\ GoOn(v, [at |-> IF link.refresh = NoGrant THEN "expire" ELSE "refresh", seen |-> link])
  /\ UNCHANGED <<link, oauth, live, consents, losses, interleaved, forgotten>>

\* refresh_access_token: Google answers, refuses the grant, or is not reached.
RefreshAccess(v) ==
  /\ visit[v].at = "refresh"
  /\ \/ /\ visit[v].seen.refresh \in live /\ UNCHANGED losses
        /\ GoOn(v, [visit[v] EXCEPT !.at = "renew"])
     \/ /\ visit[v].seen.refresh \notin live /\ UNCHANGED losses
        /\ GoOn(v, [visit[v] EXCEPT !.at = "expire"])
     \/ /\ losses < MaxLosses /\ losses' = losses + 1
        /\ GoOn(v, NoVisit)
  /\ UNCHANGED <<link, oauth, live, consents, interleaved, forgotten>>

\* The renewed access token, and the refresh token that renewed it.
SaveAccess(v) ==
  /\ visit[v].at = "renew"
  /\ link' = FlushLink(visit[v].seen, [status |-> "connected", access |-> visit[v].seen.refresh,
                                   fresh |-> TRUE, refresh |-> visit[v].seen.refresh])
  /\ Overlaps(v)
  /\ GoOn(v, [at |-> "call"])
  /\ Forgets
  /\ UNCHANGED <<oauth, live, consents, losses>>

\* Reconnect Google Calendar.
Expire(v) ==
  /\ visit[v].at = "expire"
  /\ Write(v, [NoLink EXCEPT !.status = "disconnected"])
  /\ Forgets
  /\ UNCHANGED <<oauth, live, consents, losses>>

\* The request to the calendar, whose failure leaves the tokens alone.
CallCalendar(v) ==
  /\ visit[v].at = "call"
  /\ GoOn(v, NoVisit)
  /\ UNCHANGED <<link, oauth, live, consents, losses, interleaved, forgotten>>

----------------------------------------------------------------------------
\* Disconnecting

\* disconnect_google_calendar: without a refresh token there is nothing to revoke.
BeginDisconnect(v) ==
  /\ visit[v] = NoVisit /\ link # NoLink
  /\ GoOn(v, [at |-> IF link.refresh = NoGrant THEN "clear" ELSE "revoke", seen |-> link])
  /\ UNCHANGED <<link, oauth, live, consents, losses, interleaved, forgotten>>

\* Mutant of RevokeFails: the credentials are cleared although Google did not answer.
RevokeFailsUnnoticed(v) ==
  /\ losses < MaxLosses /\ losses' = losses + 1
  /\ GoOn(v, [visit[v] EXCEPT !.at = "clear"])
  /\ UNCHANGED live

\* Google is not reached, or its answer is not: the credentials stay.
RevokeFails(v) ==
  /\ losses < MaxLosses /\ losses' = losses + 1
  /\ GoOn(v, NoVisit)
  /\ live' \in {live, live \ {visit[v].seen.refresh}}

\* A token that is no longer valid is answered with 400 and counts as revoked.
RevokeGrant(v) ==
  /\ visit[v].at = "revoke"
  /\ \/ /\ live' = live \ {visit[v].seen.refresh} /\ UNCHANGED losses
        /\ GoOn(v, [visit[v] EXCEPT !.at = "clear"])
     \/ RevokeFails(v)
  /\ UNCHANGED <<link, oauth, consents, interleaved, forgotten>>

ClearCredentials(v) ==
  /\ visit[v].at = "clear"
  /\ Write(v, [NoLink EXCEPT !.status = "disconnected"])
  /\ Forgets
  /\ UNCHANGED <<oauth, live, consents, losses>>

----------------------------------------------------------------------------
\* Time passes, and the manager removes the application at Google.
AccessExpires ==
  /\ link.fresh /\ link' = [link EXCEPT !.fresh = FALSE]
  /\ UNCHANGED <<oauth, visit, live, consents, losses, interleaved, forgotten>>

StateExpires(s) ==
  /\ oauth[s].status = "started" /\ oauth' = [oauth EXCEPT ![s].status = "used"]
  /\ UNCHANGED <<link, visit, live, consents, losses, interleaved, forgotten>>

GrantRemoved ==
  /\ \E g \in live : live' = live \ {g}
  /\ UNCHANGED <<link, oauth, visit, consents, losses, interleaved, forgotten>>

VisitStep(v) ==
  \/ \E s \in OAuthStates : BeginCallback(v, s)
  \/ UseState(v) \/ Exchange(v) \/ ExchangeRefused(v) \/ Connect(v) \/ ConnectClashes(v)
  \/ BeginUse(v) \/ RefreshAccess(v) \/ SaveAccess(v) \/ Expire(v) \/ CallCalendar(v)
  \/ BeginDisconnect(v) \/ RevokeGrant(v) \/ ClearCredentials(v)

CalendarNext ==
  \/ \E v \in Visits : VisitStep(v)
  \/ \E s \in OAuthStates : StartCalendarOAuth(s) \/ Consent(s) \/ StateExpires(s)
  \/ AccessExpires \/ GrantRemoved

CalendarSpec == CalendarInit /\ [][CalendarNext]_calendarVars

----------------------------------------------------------------------------
\* The row and the states have the values that the handlers give them.
CalendarTypeOK ==
  /\ link \in [status: {"absent", "connected", "disconnected"}, access: Consents \cup {NoGrant},
               fresh: BOOLEAN, refresh: Consents \cup {NoGrant}]
  /\ oauth \in [OAuthStates -> [status: {"absent", "started", "used"}, code: Consents \cup {NoGrant}]]
  /\ live \subseteq Consents /\ forgotten \subseteq Consents

\* Unless a request writes a row that another one has read, the row is called
\* connected exactly while there is a refresh token, and no token is dropped
\* whose grant Google still honours, a callback that replaces it excepted:
\* disconnecting revokes first, and an answer that is lost keeps the credentials.
CalendarHolds ==
  /\ CalendarTypeOK
  /\ ~interleaved => /\ link.status = "connected" <=> link.refresh # NoGrant
                 /\ forgotten = {}

\* However requests overlap, a row that was disconnected is connected again by a
\* callback only, never by a late renewal of the old access token.
OnlyCallbackConnects ==
  [][link.status = "disconnected" /\ link'.status = "connected" =>
       \E v \in Visits : visit[v].at = "connect" /\ visit'[v] = NoVisit]_calendarVars
=============================================================================
