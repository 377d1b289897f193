------------------------------- MODULE MuleClient -------------------------------
(***************************************************************************)
(* One session of adapters/mule_api/client.py, as one loop of the crawler  *)
(* uses it: the token and its single renewal on a 401, the search in       *)
(* flight, the classification of answers, and the sweep of a list by pages *)
(* keyed on the hash.  One action is one HTTP roundtrip; between two       *)
(* roundtrips amuled restarts, tokens expire and the swept list changes.   *)
(***************************************************************************)
EXTENDS Integers, FiniteSets, FiniteSetsExt

CONSTANTS
    Keyword,   \* what is searched, on Kad
    LastHash,  \* the hashes of the swept list are 1 .. LastHash, in key order
    PageSize,  \* _PAGE_SIZE
    Names,     \* the file names of each result row; Blank is an unusable one
    Faults     \* which failures may happen

FaultKinds ==
    {"down",     \* the transport fails before the request is served
     "lost",     \* the request is served and its answer lost
     "failed",   \* an answer outside 2xx that names no refused operation
     "odd",      \* a 2xx without the field the caller reads
     "expiry",   \* amuleapi forgets the token
     "restart",  \* amuled restarts: tokens, searches and the Kad list are gone
     "password"} \* the admin password is changed

Hash == 1 .. LastHash
Blank == "blank"

ASSUME MuleClientAssumption ==
    /\ LastHash \in Nat /\ PageSize \in Nat \ {0}
    /\ \A h \in Hash : IsFiniteSet(Names[h])
    /\ Faults \subseteq FaultKinds

NoSearch == "no search"
Gone == "gone"
ASSUME KeywordAssumption == {NoSearch, Gone} \cap Keyword = {}

VARIABLES
    \* The client.
    http,      \* the session is open
    token,     \* the Authorization header: never set, accepted, or refused now
    search,    \* _search_id, as what amuled runs under it: a keyword, Gone, or NoSearch
    current,   \* _current_keyword
    call,      \* the call under way: its method, the route of its request, where
               \* _request is, the keyword asked for, "after" of the next page
    got,       \* the rows the last sweep collected
    outcome,   \* how the last call ended
    observed,  \* the observations the last fetch_results returned
    \* amuled.
    passwordOk, \* the configured password is the right one
    listed,     \* the keywords on Kad's search list
    list,       \* the rows of the list being swept; with, as history, those listed
                \* ever since the sweep began, and those listed at some moment of it
    \* History.
    truncated, \* an odd answer ended the last sweep
    orphaned,  \* keywords of searches amuled took and the client never learnt of, or
               \* could not stop
    calm       \* the last roundtrip met no fault

session == <<http, token>>
result == <<got, observed, truncated>>
kad == <<listed, orphaned>>
vars == <<session, search, current, call, outcome, result, passwordOk, list, kad, calm>>

Tokens == {"none", "live", "stale"}
NeedsSearch == {"fetch_results", "stop_search", "widen_search"}
Sweeps == {"fetch_results", "shared_files"}
Plain == {"network_status", "get_listen_port", "add_link", "search_progress"}
Methods == NeedsSearch \cup Sweeps \cup Plain \cup {"none", "connect", "close", "start_search"}
Routes == {"stop", "search", "more", "page", "plain", "logout"}
Stages == {"send", "login", "resend", "connect"}
Outcomes == {"none", "ok", "rejected", "unreachable", "auth"}

NoCall == [method |-> "none", route |-> "plain", stage |-> "send", asked |-> NoSearch, after |-> 0]
NoList == [now |-> {}, stayed |-> {}, seen |-> {}]

Init ==
    /\ http = FALSE /\ token = "none" /\ search = NoSearch /\ current = NoSearch
    /\ call = NoCall /\ outcome = "none" /\ got = {} /\ observed = {} /\ truncated = FALSE
    /\ passwordOk = TRUE /\ listed = {} /\ list = NoList /\ orphaned = {} /\ calm = TRUE

--------------------------------------------------------------------------------
(* Answers and what they become.                                             *)

\* Variant to refute: a code the client does not know is passed on.
ClassifiedRaw(answer) == IF answer = "exhausted" THEN "rejected" ELSE answer

\* error_from_response: only a refused operation is told apart from a dead daemon.
Classified(answer) == IF answer \in {"rejected", "exhausted"} THEN "rejected"
                                                              ELSE "unreachable"

\* A 2xx without its field is a refusal for a search id and a link, a dead hop for
\* the port, and tolerated everywhere else.
Decoded(method) ==
    CASE method \in {"start_search", "add_link"} -> "rejected"
      [] method = "get_listen_port" -> "unreachable"
      [] OTHER -> "ok"

\* How a call ends on the last answer of its request: an exhausted Kad is no error
\* to widen_search.
Outcome(answer) ==
    CASE answer = "ok" -> "ok"
      [] answer = "odd" -> Decoded(call.method)
      [] answer = "exhausted" /\ call.route = "more" -> "ok"
      [] OTHER -> Classified(answer)

\* amuled refuses a search it no longer knows and a keyword still on Kad's list.
OfSearch == call.route \in {"stop", "more"} \/ call.method = "fetch_results"
Refusal == (OfSearch /\ search = Gone) \/ (call.route = "search" /\ call.asked \in listed)
Served == IF Refusal THEN {"rejected"}
          ELSE {"ok"} \cup (IF call.route = "more" THEN {"exhausted"} ELSE {})
                      \cup ({"odd"} \cap Faults)
Answers == ({"failed"} \cap Faults) \cup IF token = "live" THEN Served ELSE {"unauthorized"}

\* Variant to refute: pages by position.
PageByPosition ==
    LET Position(h) == Cardinality({k \in list.now : k <= h})
    IN  {h \in list.now : Position(h) > Cardinality(got)
                            /\ Position(h) <= Cardinality(got) + PageSize}

\* The next page: the first rows after the anchor, in key order.
Page ==
    {h \in list.now : h > call.after
        /\ Cardinality({k \in list.now : k > call.after /\ k <= h}) <= PageSize}

\* map_search_results: one observation per usable name of a row.
Mapped(rows) ==
    {o \in rows \X (UNION {Names[h] : h \in rows} \ {Blank}) \X {current} : o[2] \in Names[o[1]]}

--------------------------------------------------------------------------------
(* The calls of the loops, one at a time on a session.                       *)

Begin(method, route) ==
    /\ call.method = "none"
    /\ call' = [NoCall EXCEPT !.method = method, !.route = route]
    /\ outcome' = "none" /\ got' = {} /\ observed' = {} /\ truncated' = FALSE

\* connect() on an open session returns at once.
Connect ==
    /\ call.method = "none" /\ ~http
    /\ call' = [NoCall EXCEPT !.method = "connect", !.stage = "connect"]
    /\ outcome' = "none"
    /\ UNCHANGED <<session, search, current, result, passwordOk, list, kad, calm>>

\* Refused before anything is sent: no session, or no search in flight.
Refused(method) ==
    /\ call.method = "none"
    /\ \/ ~http /\ outcome' = "unreachable"
       \/ http /\ method \in NeedsSearch /\ search = NoSearch /\ outcome' = "rejected"
    /\ UNCHANGED <<session, search, current, call, result, passwordOk, list, kad, calm>>

\* Variant to refute: the search in flight is left running.
StartSearchOver(k) ==
    /\ call.method = "none" /\ http
    /\ call' = [NoCall EXCEPT !.method = "start_search", !.route = "search", !.asked = k]
    /\ outcome' = "none" /\ got' = {} /\ observed' = {} /\ truncated' = FALSE
    /\ UNCHANGED <<session, search, current, passwordOk, list, kad, calm>>

\* start_search stops the search in flight first.
StartSearch(k) ==
    /\ call.method = "none" /\ http
    /\ call' = [NoCall EXCEPT !.method = "start_search", !.asked = k,
                              !.route = IF search = NoSearch THEN "search" ELSE "stop"]
    /\ outcome' = "none" /\ got' = {} /\ observed' = {} /\ truncated' = FALSE
    /\ UNCHANGED <<session, search, current, passwordOk, list, kad, calm>>

\* stop_search, widen_search, search_progress, network_status, the preferences, add_link.
Ask(method, route) ==
    /\ http
    /\ method \in NeedsSearch \cup {"search_progress"} => search # NoSearch
    /\ Begin(method, route)
    /\ UNCHANGED <<session, search, current, passwordOk, list, kad, calm>>

Sweep(method) ==
    /\ http
    /\ method \in NeedsSearch => search # NoSearch
    /\ Begin(method, "page")
    /\ \E rows \in SUBSET Hash : list' = [now |-> rows, stayed |-> rows, seen |-> rows]
    /\ UNCHANGED <<session, search, current, passwordOk, kad, calm>>

Close ==
    /\ http /\ http' = FALSE
    /\ Begin("close", "logout")
    /\ UNCHANGED <<token, search, current, passwordOk, list, kad, calm>>

--------------------------------------------------------------------------------
(* The roundtrips.                                                           *)

\* What a request does in amuled, whether or not its answer arrives.  A keyword is
\* orphaned when its search starts without the client learning its id, and when
\* the client forgets an id it could not stop.
Takes(answer, arrives) ==
    CASE call.route = "stop" /\ answer \in {"ok", "odd"} ->
            listed' = listed \ {search} /\ orphaned' = orphaned \ {search}
      [] call.route = "stop" /\ answer \notin {"ok", "odd"} ->
            /\ orphaned' = orphaned \cup (IF call.method = "start_search" THEN {search} \cap listed
                                                                          ELSE {})
            /\ UNCHANGED listed
      [] call.route = "search" /\ answer \in {"ok", "odd"} ->
            /\ listed' = listed \cup {call.asked}
            /\ orphaned' = orphaned \cup (IF arrives /\ answer = "ok" THEN {} ELSE {call.asked})
      [] call.route = "logout" -> orphaned' = orphaned \cup ({search} \cap listed) /\ UNCHANGED listed
      [] OTHER -> UNCHANGED kad

\* The locals of a call end with it.
Ended(how) == call' = NoCall /\ outcome' = how /\ list' = NoList

\* The stop that start_search sends first: whatever its outcome, the id is
\* forgotten and the new search asked for.
\* Variant to refute: the id is kept, and the provenance changed before success.
AfterStopHasty ==
    /\ current' = call.asked
    /\ call' = [call EXCEPT !.route = "search", !.stage = "send"]
    /\ UNCHANGED <<search, outcome, result, list>>
AfterStop ==
    /\ search' = NoSearch
    /\ call' = [call EXCEPT !.route = "search", !.stage = "send"]
    /\ UNCHANGED <<current, outcome, result, list>>

AfterSearch(answer) ==
    /\ IF answer = "ok" THEN search' = call.asked /\ current' = call.asked
                        ELSE UNCHANGED <<search, current>>
    /\ Ended(Outcome(answer))
    /\ UNCHANGED result

\* A short page ends the sweep.  So does, as if it were the last, an answer without
\* its list and a page whose last row carries no anchor.
Return(rows, odd) ==
    /\ Ended("ok")
    /\ got' = rows /\ truncated' = odd
    /\ observed' = IF call.method = "fetch_results" THEN Mapped(rows) ELSE {}
Full == Cardinality(Page) = PageSize
AfterPage(answer) ==
    /\ \/ answer = "ok" /\ ~Full /\ Return(got \cup Page, FALSE)
       \/ /\ answer = "ok" /\ Full
          /\ got' = got \cup Page
          /\ call' = [call EXCEPT !.after = Max(Page), !.stage = "send"]
          /\ UNCHANGED <<outcome, observed, truncated, list>>
       \/ answer = "odd" /\ Return(got, TRUE)
       \/ answer = "odd" /\ Full /\ Return(got \cup Page, TRUE)
       \/ answer \notin {"ok", "odd"} /\ Ended(Outcome(answer)) /\ UNCHANGED result
    /\ UNCHANGED <<search, current>>

\* close() ignores the answer, forgets the search and drops the session.
Finished(answer) ==
    CASE call.route = "stop" /\ call.method = "start_search" -> AfterStop
      [] call.route = "search" -> AfterSearch(answer)
      [] call.route = "page" -> AfterPage(answer)
      [] call.route = "logout" ->
            search' = NoSearch /\ Ended("ok") /\ UNCHANGED <<current, result>>
      [] OTHER -> Ended(Outcome(answer)) /\ UNCHANGED <<search, current, result>>

\* _request: the answer stands, unless it is the first 401 of the request; a
\* logout is sent past that rule.
Roundtrip ==
    /\ call.method # "none" /\ call.stage \in {"send", "resend"}
    /\ \E answer \in Answers :
          /\ calm' = (answer \notin {"odd", "failed"})
          /\ IF answer = "unauthorized" /\ call.stage = "send" /\ call.route # "logout"
             THEN /\ call' = [call EXCEPT !.stage = "login"]
                  /\ UNCHANGED <<search, current, outcome, result, list, kad>>
             ELSE Takes(answer, TRUE) /\ Finished(answer)
    /\ UNCHANGED <<session, passwordOk>>

\* _send: a transport failure, before or after the request was served.
RoundtripFails ==
    /\ call.method # "none" /\ call.stage \in {"send", "resend"}
    /\ \/ "down" \in Faults /\ Takes("dead", FALSE)
       \/ "lost" \in Faults /\ token = "live" /\ \E answer \in Served : Takes(answer, FALSE)
    /\ Finished("dead")
    /\ calm' = FALSE
    /\ UNCHANGED <<session, passwordOk>>

\* _login, at connect() or after a 401.
\* Variant to refute: the new token is not put in the header.
LoggedInUnarmed ==
    /\ UNCHANGED <<token, search, current, result, kad>>
    /\ IF call.method = "connect"
       THEN http' = TRUE /\ Ended("ok")
       ELSE call' = [call EXCEPT !.stage = "resend"] /\ UNCHANGED <<http, outcome, list>>
LoggedIn ==
    /\ token' = "live"
    /\ IF call.method = "connect"
       THEN http' = TRUE /\ Ended("ok")
       ELSE call' = [call EXCEPT !.stage = "resend"] /\ UNCHANGED <<http, outcome, list>>
    /\ UNCHANGED <<search, current, result, kad>>

\* start_search goes on whatever became of its stop: suppress(ApiError) covers a
\* refused login too.
LoginFails(how) ==
    /\ IF call.route = "stop" /\ call.method = "start_search"
       THEN AfterStop /\ Takes("dead", FALSE)
       ELSE Ended(how) /\ UNCHANGED <<search, current, result, kad>>
    /\ UNCHANGED session

Login ==
    /\ call.method # "none" /\ call.stage \in {"login", "connect"}
    /\ \/ passwordOk /\ LoggedIn /\ calm' = TRUE
       \/ ~passwordOk /\ LoginFails("auth") /\ calm' = TRUE
       \/ "odd" \in Faults /\ LoginFails("auth") /\ calm' = FALSE
       \/ Faults \cap {"down", "lost", "failed"} # {} /\ LoginFails("unreachable") /\ calm' = FALSE
    /\ UNCHANGED passwordOk

--------------------------------------------------------------------------------
(* amuled, amuleapi and the operator.                                        *)

Listing == call.method \in Sweeps

RowAppears ==
    /\ Listing
    /\ \E h \in Hash \ list.now :
          list' = [list EXCEPT !.now = @ \cup {h}, !.seen = @ \cup {h}]
    /\ UNCHANGED <<session, search, current, call, outcome, result, passwordOk, kad, calm>>

RowDisappears ==
    /\ Listing
    /\ \E h \in list.now : list' = [list EXCEPT !.now = @ \ {h}, !.stayed = @ \ {h}]
    /\ UNCHANGED <<session, search, current, call, outcome, result, passwordOk, kad, calm>>

Expire ==
    /\ "expiry" \in Faults /\ token = "live"
    /\ token' = "stale"
    /\ UNCHANGED <<http, search, current, call, outcome, result, passwordOk, list, kad, calm>>

\* A search ends on Kad by itself.
KadForgets ==
    /\ \E k \in listed : listed' = listed \ {k} /\ orphaned' = orphaned \ {k}
    /\ UNCHANGED <<session, search, current, call, outcome, result, passwordOk, list, calm>>

\* amuled keeps its last searches only.
Evict ==
    /\ search \in Keyword \ listed
    /\ search' = Gone
    /\ UNCHANGED <<session, current, call, outcome, result, passwordOk, list, kad, calm>>

Restart ==
    /\ "restart" \in Faults
    /\ token' = IF token = "live" THEN "stale" ELSE token
    /\ search' = IF search = NoSearch THEN NoSearch ELSE Gone
    /\ listed' = {} /\ orphaned' = {}
    /\ list' = [list EXCEPT !.now = {}, !.stayed = {}]
    /\ UNCHANGED <<http, current, call, outcome, result, passwordOk, calm>>

ChangePassword ==
    /\ "password" \in Faults
    /\ passwordOk' = ~passwordOk
    /\ UNCHANGED <<session, search, current, call, outcome, result, list, kad, calm>>

--------------------------------------------------------------------------------

Caller ==
    \/ Connect \/ Close
    \/ Ask("stop_search", "stop") \/ Ask("widen_search", "more")
    \/ \E k \in Keyword : StartSearch(k)
    \/ \E method \in Sweeps : Sweep(method)
    \/ \E method \in Plain : Ask(method, "plain")
    \/ \E method \in Methods : Refused(method)

Exchange == Roundtrip \/ RoundtripFails \/ Login

Environment ==
    \/ RowAppears \/ RowDisappears \/ Expire \/ KadForgets \/ Evict \/ Restart
    \/ ChangePassword

Next == Caller \/ Exchange \/ Environment

Spec == Init /\ [][Next]_vars

\* A roundtrip ends, for each has a timeout; every loop connects and then asks for
\* something, again and again.
Fairness ==
    /\ WF_vars(Exchange) /\ SF_vars(Connect) /\ SF_vars(Ask("network_status", "plain"))

FairSpec == Spec /\ Fairness

--------------------------------------------------------------------------------
(* Properties.                                                               *)

\* The type invariant.
TypeOK ==
    /\ http \in BOOLEAN /\ token \in Tokens
    /\ search \in Keyword \cup {NoSearch, Gone} /\ current \in Keyword \cup {NoSearch}
    /\ call \in [method : Methods, route : Routes, stage : Stages,
                 asked : Keyword \cup {NoSearch}, after : 0 .. LastHash]
    /\ got \subseteq Hash /\ outcome \in Outcomes /\ truncated \in BOOLEAN
    /\ observed \subseteq Hash \X (UNION {Names[h] : h \in Hash} \ {Blank}) \X Keyword
    /\ passwordOk \in BOOLEAN /\ listed \subseteq Keyword /\ orphaned \subseteq listed
    /\ list \in [now : SUBSET Hash, stayed : SUBSET list.now, seen : SUBSET Hash]
    /\ calm \in BOOLEAN

\* A sweep that returns holds every row that was listed from its first page to its
\* last, and no row that never was, however the list changed and whichever of its
\* pages needed a new token.  Only an odd answer can cut it short.
SweepKeepsStayers ==
    [][Listing /\ call' = NoCall /\ outcome' = "ok" /\ ~truncated'
         => list.stayed \subseteq got' /\ got' \subseteq list.seen]_vars

\* Observations carry the keyword amuled really searched for: a start that failed
\* halfway never pairs the old results with the new keyword, or the reverse.
ResultsAreOurs == [][\A o \in observed' \ observed : o[3] = search]_vars

\* Kad refuses a keyword that is on its list.  The only ones there are the search in
\* flight and those whose start was never answered or whose stop failed.
KadListAccounted == listed \subseteq {search} \cup orphaned

\* While the password is right and amuleapi answers, an expired token is always
\* replaced and a session that could not be opened is opened.
SessionHeals == <>[](passwordOk /\ calm) => []<>(http /\ token = "live")

================================================================================
