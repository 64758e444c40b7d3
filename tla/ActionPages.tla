------------------------------ MODULE ActionPages -----------------------------
(***************************************************************************)
(* A page of the dashboard that shows a row and lets its user act on it:   *)
(* an AWS account, a finding, an alert or the list of alerts.  An action   *)
(* asks for a CSRF token that the whole tab shares and that is bound to    *)
(* the session cookie, which other tabs change; it is sent, answered or    *)
(* lost, and followed by a load of the row, which others write meanwhile.  *)
(***************************************************************************)
EXTENDS Naturals, FiniteSets

CONSTANTS
    Pages,       \* of "account", "finding", "alert", "monitoring"
    MaxActions,  \* bound on what the user begins
    MaxWrites,   \* bound on what others write
    MaxSessions, \* bound on sign-ins
    MaxLoads     \* loads under way at once

VARIABLES
    page,    \* the page this behaviour is about
    row,     \* the row on the server, and how often it has been written
    session, \* the cookie of the browser, the sessions that stand, the latest
    token,   \* the cached CSRF token, as the cookie it was made for
    acts,    \* actions under way
    loads,   \* loads under way
    tab      \* what the page shows

vars == <<page, row, session, token, acts, loads, tab>>

Targets == {"ACKNOWLEDGED", "RESOLVED"}
Row == [v : Nat, status : Targets \cup {"OPEN"}]
NoRow == [v |-> 0, status |-> "none"]

\* A load: its number, the action that waits for it, what it has read, whether the
\* page still listens, whether no other one was under way beside it.
Load(n, by) ==
    [n |-> n, by |-> by, read |-> FALSE, row |-> NoRow, active |-> TRUE, alone |-> TRUE]

Init ==
    /\ page \in Pages
    /\ row = [v |-> 1, status |-> "OPEN"]
    /\ session = [cookie |-> 1, live |-> {1}, last |-> 1]
    /\ token = {} /\ acts = {}
    /\ loads = {Load(1, 0)}
    /\ tab = [shown |-> NoRow, loading |-> TRUE, readError |-> FALSE, told |-> 0, begun |-> 0, writes |-> 0,
              gone |-> FALSE, calm |-> TRUE, wronged |-> FALSE]

SignedIn(cookie) == cookie \in session.live

\* handleUnauthenticatedSession: the token goes, and the page for the login.
Leave ==
    /\ tab' = [tab EXCEPT !.gone = TRUE, !.shown = NoRow, !.told = 0]
    /\ token' = {} /\ acts' = {} /\ loads' = {}
    /\ UNCHANGED <<page, row, session>>
-----------------------------------------------------------------------------
(* Loads.                                                                  *)

\* useCloudShieldData drops what its cleanup has made inactive; the other pages take
\* whatever arrives.
Listens(l) == l.active

\* A new path supersedes the load of the old one.
Superseded ==
    {[l EXCEPT !.active = page # "account", !.alone = FALSE] : l \in loads}

Loading(by) ==
    LET free == (1..MaxLoads) \ {l.n : l \in loads}
        least == CHOOSE n \in free : \A m \in free : n <= m
    IN Superseded \cup {[Load(least, by) EXCEPT !.alone = loads = {}]}

\* The error is cleared when a load starts, on the account page when one succeeds.
Started(t) == [t EXCEPT !.loading = TRUE, !.readError = @ /\ page = "account"]

ReadRow(l) ==
    /\ ~l.read /\ SignedIn(session.cookie)
    /\ loads' = (loads \ {l}) \cup {[l EXCEPT !.read = TRUE, !.row = row]}
    /\ UNCHANGED <<page, row, session, token, acts, tab>>

LoadRefused(l) == ~l.read /\ l.active /\ ~SignedIn(session.cookie) /\ Leave

\* What the action makes of the row it waited for; after a conflict it has failed.
Confirms(a, r) ==
    /\ a.at = "confirming"
    /\ page \in {"finding", "alert"} => r.status = a.target

Told(t, l) ==
    IF \E a \in acts : a.id = l.by /\ Confirms(a, l.row) /\ a.v > t.told
    THEN [t EXCEPT !.told = (CHOOSE a \in acts : a.id = l.by).v]
    ELSE t

Deliver(l) ==
    /\ l.read
    /\ loads' = loads \ {l}
    /\ acts' = {a \in acts : a.id # l.by}
    /\ tab' = IF ~Listens(l) THEN tab
              ELSE Told([tab EXCEPT !.shown = l.row, !.loading = FALSE, !.readError = FALSE,
                               !.calm = l.alone], l)
    /\ UNCHANGED <<page, row, session, token>>

\* The details forget the row, the account and the list keep the old one.
LoadFails(l) ==
    /\ loads' = loads \ {l}
    /\ acts' = {a \in acts : a.id # l.by}
    /\ tab' = IF ~Listens(l) THEN tab
              ELSE [tab EXCEPT !.readError = TRUE, !.loading = FALSE,
                               !.shown = IF page \in {"finding", "alert"} THEN NoRow ELSE @]
    /\ UNCHANGED <<page, row, session, token>>

\* The retry of an error, and another tab of the monitoring page.
Reload ==
    /\ ~tab.gone /\ Cardinality(loads) < MaxLoads
    /\ \/ page = "monitoring"
       \/ page \in {"finding", "alert"} /\ tab.readError /\ tab.shown = NoRow
          /\ acts = {} /\ loads = {}
    /\ loads' = Loading(0) /\ tab' = Started(tab)
    /\ UNCHANGED <<page, row, session, token, acts>>
-----------------------------------------------------------------------------
(* Actions of the user.                                                    *)

\* What the buttons of each page and the handlers behind them require.
Offered(target) ==
    /\ tab.shown # NoRow
    /\ page # "monitoring" => acts = {}
    /\ page # "account" => tab.shown.status # target /\ tab.shown.status # "RESOLVED"
    /\ page = "monitoring" => ~tab.loading
    /\ page \in {"finding", "alert"} /\ target = "ACKNOWLEDGED" => tab.shown.status = "OPEN"

\* fetch takes the cookie when it is called, which is at once when a token is cached.
Begin(target) ==
    /\ ~tab.gone /\ tab.begun < MaxActions /\ Offered(target)
    /\ acts' = acts \cup
          {[id |-> tab.begun + 1, target |-> target, at |-> IF token = {} THEN "asking" ELSE "sent",
            token |-> token, cookie |-> session.cookie, v |-> 0, answer |-> "none",
            alone |-> acts = {}, steady |-> TRUE]}
    /\ tab' = [tab EXCEPT !.begun = @ + 1]
    /\ UNCHANGED <<page, row, session, token, loads>>

Becomes(a, b) == acts' = (acts \ {a}) \cup {b}

\* GET /api/v1/auth/csrf needs no session.
AskToken(a) ==
    /\ a.at = "asking"
    /\ Becomes(a, [a EXCEPT !.at = "asked", !.token = {session.cookie}])
    /\ UNCHANGED <<page, row, session, token, loads, tab>>

TakeToken(a) ==
    /\ a.at = "asked"
    /\ token' = a.token
    /\ Becomes(a, [a EXCEPT !.at = "sent", !.cookie = session.cookie])
    /\ UNCHANGED <<page, row, session, loads, tab>>

\* Alerts are written whatever their status, findings by their matrix; an account that
\* is archived can be archived again, and nothing else.
Accepts(target) ==
    CASE page = "finding" -> row.status = "OPEN" \/ (row.status = "ACKNOWLEDGED" /\ target = "RESOLVED")
      [] page = "account" -> row.status # "RESOLVED" \/ target = "RESOLVED"
      [] OTHER -> TRUE

\* The alert routes check the session before the token, the others after it.
AnswerTo(a) ==
    LET stranger == ~SignedIn(a.cookie)
        forged == a.token # {a.cookie}
    IN CASE forged /\ (stranger => page \in {"account", "finding"}) -> "forbidden"
         [] stranger -> "unauthenticated"
         [] ~Accepts(a.target) -> "conflict"
         [] OTHER -> "ok"

Serve(a) ==
    /\ a.at = "sent"
    /\ LET answer == AnswerTo(a)
       IN /\ row' = IF answer = "ok" THEN [v |-> row.v + 1, status |-> a.target] ELSE row
          /\ Becomes(a, [a EXCEPT !.at = "answered", !.answer = answer, !.v = row'.v])
          /\ tab' = [tab EXCEPT !.wronged = @ \/ (answer = "forbidden" /\ a.alone /\ a.steady)]
    /\ UNCHANGED <<page, session, token, loads>>

\* Mutant: the token outlives the request.
KeepsToken == token

\* The finally of a request.
TokenAfter == {}

\* The account page reports success and loads, the others load and then report; the
\* finding is also loaded after a conflict, before that is reported.
Answer(a) ==
    /\ a.at = "answered" /\ a.answer # "unauthenticated"
    /\ token' = TokenAfter
    /\ LET reloads == a.answer = "ok" \/ (page = "finding" /\ a.answer = "conflict")
       IN IF ~reloads THEN acts' = acts \ {a} /\ UNCHANGED <<loads, tab>>
          ELSE /\ Cardinality(loads) < MaxLoads
               /\ IF page = "account"
                  THEN /\ acts' = acts \ {a}
                       /\ loads' = Loading(0)
                       /\ tab' = [Started(tab) EXCEPT !.told = a.v]
                  ELSE /\ Becomes(a, [a EXCEPT !.at = IF a.answer = "ok" THEN "confirming"
                                                      ELSE "excusing"])
                       /\ loads' = Loading(a.id)
                       /\ tab' = Started(tab)
    /\ UNCHANGED <<page, row, session>>

SentAway(a) == a.at = "answered" /\ a.answer = "unauthenticated" /\ Leave

\* A timeout, a lost connection, a refused token: what was sent may have been served,
\* and is served later as if somebody else had sent it.
Lose(a) ==
    /\ a.at \in {"asking", "asked", "sent", "answered"}
    /\ token' = TokenAfter
    /\ acts' = acts \ {a}
    /\ UNCHANGED <<page, row, session, loads, tab>>
-----------------------------------------------------------------------------
(* Everybody else.                                                         *)

Write ==
    /\ ~tab.gone /\ tab.writes < MaxWrites
    /\ \E s \in Targets \cup {"OPEN"} : row' = [v |-> row.v + 1, status |-> s]
    /\ tab' = [tab EXCEPT !.writes = @ + 1]
    /\ UNCHANGED <<page, session, token, acts, loads>>

Unsteady == acts' = {[a EXCEPT !.steady = FALSE] : a \in acts}

\* In another tab of the browser.
SignIn ==
    /\ ~tab.gone /\ session.last < MaxSessions
    /\ LET n == session.last + 1
       IN session' = [cookie |-> n, live |-> session.live \cup {n}, last |-> n]
    /\ Unsteady
    /\ UNCHANGED <<page, row, token, loads, tab>>

SignOut ==
    /\ ~tab.gone /\ session.cookie # 0
    /\ session' = [session EXCEPT !.cookie = 0, !.live = @ \ {session.cookie}]
    /\ Unsteady
    /\ UNCHANGED <<page, row, token, loads, tab>>

Revoke ==
    /\ ~tab.gone /\ SignedIn(session.cookie)
    /\ session' = [session EXCEPT !.live = @ \ {session.cookie}]
    /\ UNCHANGED <<page, row, token, acts, loads, tab>>

Next ==
    \/ \E l \in loads : ReadRow(l) \/ LoadRefused(l) \/ Deliver(l) \/ LoadFails(l)
    \/ Reload
    \/ \E target \in Targets : Begin(target)
    \/ \E a \in acts :
          AskToken(a) \/ TakeToken(a) \/ Serve(a) \/ Answer(a) \/ SentAway(a) \/ Lose(a)
    \/ Write \/ SignIn \/ SignOut \/ Revoke

Spec == Init /\ [][Next]_vars
-----------------------------------------------------------------------------
(* Properties.                                                             *)

\* Types: who waits for a load has one, and there is one action but for the list.
TypeOK ==
    /\ row \in Row /\ tab.shown \in Row \cup {NoRow}
    /\ token \in SUBSET (0..MaxSessions) /\ Cardinality(token) <= 1
    /\ page # "monitoring" => Cardinality(acts) <= 1
    /\ \A a \in acts : a.at \in {"confirming", "excusing"} => \E l \in loads : l.by = a.id

\* No token is left over when nothing is under way, and an action that began alone
\* and saw no change of the session is not refused for its token
\* (getCsrfToken, fetchCloudShieldClient).
TokensAreFresh == (acts = {} => token = {}) /\ ~tab.wronged

\* Once a page has settled it shows the row at least as new as the last write it has
\* reported as done; the list of alerts if its loads did not overlap.
ShowsWhatItTold ==
    /\ acts = {} /\ (\A l \in loads : ~l.active) /\ ~tab.readError /\ ~tab.gone
    /\ page = "monitoring" => tab.calm
    => tab.shown.v >= tab.told
=============================================================================
