------------------------------ MODULE PagedLists ------------------------------
(***************************************************************************)
(* Lists that are read page by page: the evidence of an alert, the         *)
(* evidence of a finding and the registry of risk acceptances.  The server *)
(* cuts a page out of rows that grow and, for acceptances, come to match   *)
(* another filter; the browser keeps the pages it was given, a cursor and  *)
(* some flags, and has no more than one call under way unless the filter   *)
(* is changed meanwhile.                                                   *)
(***************************************************************************)
EXTENDS Naturals, FiniteSets, Sequences

CONSTANTS
    Lists,    \* of "alertEvidence", "findingEvidence", "acceptances"
    Rows,     \* ids, which say nothing of the time
    Limit,    \* rows of a page
    MaxTime,  \* bound on the clock
    MaxCalls, \* calls under way at once
    Filters   \* of "all", "active", "expiring-soon", "expired"

VARIABLES
    list,    \* the list this behaviour is about
    stored,  \* the rows
    now,
    shown,   \* the state of the component
    calls    \* requests under way

vars == <<list, stored, now, shown, calls>>

\* A RiskAcceptance expires, and its finding may leave and enter RISK_ACCEPTED;
\* evidence is written once.
Row == [at : 0..MaxTime, accepted : BOOLEAN, expires : {"later", "soon", "over"}]

There == DOMAIN stored

\* The order of the index: newest first, the id decides between equals.
Before(a, b) ==
    \/ stored[a].at > stored[b].at
    \/ stored[a].at = stored[b].at /\ a > b

Call(f, more, cursor) ==
    [filter |-> f, more |-> more, cursor |-> cursor, fresh |-> TRUE,
     read |-> FALSE, items |-> <<>>, next |-> 0, base |-> {}]

Init ==
    /\ list \in Lists
    /\ stored = <<>> /\ now = 0
    /\ calls = {Call("all", FALSE, 0)}
    /\ shown = [items |-> <<>>, cursor |-> 0, filter |-> "all", loading |-> TRUE,
                loadingMore |-> FALSE, error |-> "none", base |-> {}, clean |-> FALSE]
-----------------------------------------------------------------------------
(* The server.                                                             *)

\* The soon of the filter is thirty days, the one of riskAcceptanceExpiryState
\* fourteen; what is soon here is soon for both.
Matches(row, f) ==
    \/ f = "all"
    \/ f = "active" /\ row.accepted /\ row.expires = "later"
    \/ f = "expiring-soon" /\ row.accepted /\ row.expires = "soon"
    \/ f = "expired" /\ (row.expires = "over" \/ ~row.accepted)

\* The OR of the cursor replaces the OR of the filter "expired".
Selected(c) ==
    IF c.cursor = 0 THEN {r \in There : Matches(stored[r], c.filter)}
    ELSE {r \in There : /\ Before(c.cursor, r)
                        /\ c.filter = "expired" \/ Matches(stored[r], c.filter)}

\* The place of a row in the order of the index, and the row in a place.
Place(S, r) == Cardinality({x \in S : x = r \/ Before(x, r)})
At(S, i) == CHOOSE r \in S : Place(S, r) = i

Page(S) == [i \in 1..(IF Cardinality(S) > Limit THEN Limit ELSE Cardinality(S)) |-> At(S, i)]

\* Mutant: the cursor is the first row that was left out.
CursorOfNext(S) == IF Cardinality(S) > Limit THEN At(S, Limit + 1) ELSE 0

\* The last row of the page, when there are more; hasMore is cursor # 0.
CursorOf(S) == IF Cardinality(S) > Limit THEN At(S, Limit) ELSE 0

Serve(c) ==
    /\ ~c.read
    /\ calls' = (calls \ {c}) \cup
          {[c EXCEPT !.read = TRUE, !.items = Page(Selected(c)), !.next = CursorOf(Selected(c)),
                     !.base = IF c.more THEN {} ELSE Selected(c)]}
    /\ UNCHANGED <<list, stored, now, shown>>
-----------------------------------------------------------------------------
(* The component.                                                          *)

\* A call that another one overtakes is no longer fresh.
Overtaken(S) == {[c EXCEPT !.fresh = FALSE] : c \in S}

\* load(): on mount, when the filter changes and as the retry of an error.
Load(f) ==
    /\ Cardinality(calls) < MaxCalls
    /\ calls' = Overtaken(calls) \cup {Call(f, FALSE, 0)}
    /\ shown' =
        IF list = "alertEvidence"
        THEN [shown EXCEPT !.items = <<>>, !.cursor = 0, !.loading = TRUE,
                           !.loadingMore = FALSE, !.error = "none", !.clean = FALSE]
        ELSE [shown EXCEPT !.filter = f, !.loading = TRUE, !.error = "none"]
    /\ UNCHANGED <<list, stored, now>>

ChooseFilter(f) == list = "acceptances" /\ f # shown.filter /\ Load(f)

Retry == shown.error = "list" /\ ~shown.loading /\ Load(shown.filter)

\* The button exists while a list is shown that has more, and is disabled while
\* more is on its way.
LoadMore ==
    /\ ~shown.loading /\ ~shown.loadingMore /\ shown.error # "list"
    /\ shown.items # <<>> /\ shown.cursor # 0
    /\ Cardinality(calls) < MaxCalls
    /\ calls' = calls \cup {[Call(shown.filter, TRUE, shown.cursor) EXCEPT !.fresh = shown.clean]}
    /\ shown' = [shown EXCEPT !.loadingMore = TRUE, !.error = "none"]
    /\ UNCHANGED <<list, stored, now>>

Shown == {shown.items[i] : i \in DOMAIN shown.items}

\* What stands in the places I, in order.
Picked(s, I) == [k \in 1..Cardinality(I) |-> s[CHOOSE i \in I : Cardinality({j \in I : j <= i}) = k]]

\* Evidence is merged by id, acceptances are appended.
AddedTo(items, more) ==
    IF list = "acceptances" THEN items \o more
    ELSE items \o Picked(more, {i \in DOMAIN more : more[i] \notin Shown})

\* The finally of both calls clears both flags, but for the evidence of an alert.
Settle(c, s) ==
    [s EXCEPT !.loading = IF list = "alertEvidence" /\ c.more THEN @ ELSE FALSE,
              !.loadingMore = IF list = "alertEvidence" /\ ~c.more THEN @ ELSE FALSE]

\* A response is taken as it comes, whatever has been asked for since.
Receive(c) ==
    /\ c.read
    /\ shown' = Settle(c, [shown EXCEPT
          !.items = IF c.more THEN AddedTo(@, c.items) ELSE c.items,
          !.cursor = c.next,
          !.base = IF c.more THEN @ ELSE c.base,
          !.clean = c.fresh /\ (c.more => @)])
    /\ calls' = {IF d.more THEN [d EXCEPT !.fresh = FALSE] ELSE d : d \in calls \ {c}}
    /\ UNCHANGED <<list, stored, now>>

\* An error takes the place of the list, or stands under the evidence of an alert.
Fail(c) ==
    /\ shown' = Settle(c, [shown EXCEPT
          !.error = IF list = "alertEvidence" /\ c.more THEN "more" ELSE "list"])
    /\ calls' = calls \ {c}
    /\ UNCHANGED <<list, stored, now>>
-----------------------------------------------------------------------------
(* What goes on meanwhile.                                                 *)

\* What no longer matches is not missed any more.
Pruned(s) ==
    /\ stored' = s
    /\ LET Keep(B, f) == {r \in B : Matches(s[r], f)}
       IN /\ shown' = [shown EXCEPT !.base = Keep(@, shown.filter)]
          /\ calls' = {[c EXCEPT !.base = Keep(@, c.filter)] : c \in calls}
    /\ UNCHANGED list

With(r, new) == [q \in There \cup {r} |-> IF q = r THEN new ELSE stored[q]]

\* A row is dated by the run that writes it, which began before the commit.
Insert(r) ==
    /\ r \notin There
    /\ \E at \in 0..now :
          Pruned(With(r, [at |-> at, accepted |-> TRUE, expires |-> "later"]))
    /\ UNCHANGED now

Age(r) ==
    /\ list = "acceptances" /\ r \in There /\ stored[r].expires # "over"
    /\ Pruned([stored EXCEPT ![r].expires = IF @ = "later" THEN "soon" ELSE "over"])
    /\ UNCHANGED now

\* The finding of the row is decided, archived or accepted again.
Review(r) ==
    /\ list = "acceptances" /\ r \in There
    /\ Pruned([stored EXCEPT ![r].accepted = ~@])
    /\ UNCHANGED now

Tick == now < MaxTime /\ now' = now + 1 /\ UNCHANGED <<list, stored, shown, calls>>

Next ==
    \/ \E c \in calls : Serve(c) \/ Receive(c) \/ Fail(c)
    \/ \E f \in Filters : ChooseFilter(f)
    \/ Retry \/ LoadMore
    \/ \E r \in Rows : Insert(r) \/ Age(r) \/ Review(r)
    \/ Tick

Spec == Init /\ [][Next]_vars
-----------------------------------------------------------------------------
(* Properties.                                                             *)

\* Types: the evidence lists never have two calls under way.
TypeOK ==
    /\ There \subseteq Rows /\ \A r \in There : stored[r] \in Row
    /\ Shown \subseteq There /\ shown.cursor \in There \cup {0}
    /\ list # "acceptances" => Cardinality(calls) <= 1

Settled == calls = {} /\ shown.error = "none"

\* A list that has settled is whole as far as it goes: newest first and nothing
\* twice, every row that was there when its first page was read, and has matched
\* since, is shown down to the last one shown, and all of them when there is no
\* more to load; unless a response was overtaken by a change of the filter
\* (listRiskAcceptances, the evidence routes and their components).
ListIsWhole ==
    Settled /\ shown.clean =>
        /\ \A i \in 1..(Len(shown.items) - 1) : Before(shown.items[i], shown.items[i + 1])
        /\ \A r \in shown.base \ Shown :
              shown.cursor # 0 /\ Before(shown.items[Len(shown.items)], r)
=============================================================================
