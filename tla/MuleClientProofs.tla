--------------------------- MODULE MuleClientProofs ----------------------------
(***************************************************************************)
(* Theorems about a session with amuleapi, for any keywords, any list and  *)
(* page size, any names and any faults.                                    *)
(***************************************************************************)
EXTENDS MuleClient, FiniteLemmas

--------------------------------------------------------------------------------
(* The call under way.                                                       *)

\* What the method of a call says of its route, and of the search in flight: a new
\* search is asked for only once the old one is forgotten, and results are fetched
\* of a search that still has an id.  The keyword of that search is current.
CallInv ==
    /\ call.method \in Sweeps <=> call.route = "page"
    /\ call.method = "start_search" => call.asked \in Keyword /\ call.route \in {"stop", "search"}
    /\ call.route = "search" => call.method = "start_search" /\ search = NoSearch
    /\ call.method = "fetch_results" => search # NoSearch
    /\ search \in Keyword => search = current

\* TypeOK without the two variables whose values are built from Names and from Page.
CoreTypes ==
    /\ http \in BOOLEAN /\ token \in Tokens
    /\ search \in Keyword \cup {NoSearch, Gone} /\ current \in Keyword \cup {NoSearch}
    /\ outcome \in Outcomes /\ truncated \in BOOLEAN /\ passwordOk \in BOOLEAN /\ calm \in BOOLEAN
CallTypes ==
    call \in [method : Methods, route : Routes, stage : Stages,
              asked : Keyword \cup {NoSearch}, after : 0 .. LastHash]
ListTypes == list \in [now : SUBSET Hash, stayed : SUBSET list.now, seen : SUBSET Hash]
ResultTypes ==
    /\ got \subseteq Hash
    /\ observed \subseteq Hash \X (UNION {Names[h] : h \in Hash} \ {Blank}) \X Keyword
KadTypes == listed \subseteq Keyword /\ orphaned \subseteq listed

Inv == CoreTypes /\ CallTypes /\ ListTypes /\ ResultTypes /\ KadTypes /\ CallInv

LEMMA InvTypes == Inv => TypeOK
  BY DEF Inv, CoreTypes, CallTypes, ListTypes, ResultTypes, KadTypes, TypeOK

LEMMA NoCallTypes ==
  /\ NoCall \in [method : Methods, route : Routes, stage : Stages,
                 asked : Keyword \cup {NoSearch}, after : 0 .. LastHash]
  /\ NoCall.method = "none" /\ NoCall.route = "plain" /\ NoCall.after = 0
  /\ NoCall.asked = NoSearch
  /\ NoList \in [now : SUBSET Hash, stayed : SUBSET {}, seen : SUBSET Hash]
  /\ NoList.now = {}
  BY MuleClientAssumption DEF NoCall, NoList, Methods, Routes, Stages

LEMMA OutcomeTypes == \A answer : Outcome(answer) \in Outcomes
  BY DEF Outcome, Classified, Decoded, Outcomes

--------------------------------------------------------------------------------
(* The pages.                                                                *)

\* A page holds rows that are listed, after the anchor; it leaves none out before its
\* last one; and a page that is not full leaves none out at all.
LEMMA PageIsFirst ==
  ASSUME CallTypes, ListTypes
  PROVE  /\ Page \subseteq list.now /\ Page \subseteq Hash
         /\ \A h \in Page, k \in list.now : k > call.after /\ k <= h => k \in Page
         /\ ~Full => \A k \in list.now : k > call.after => k \in Page
         /\ Full => /\ Max(Page) \in Page /\ Max(Page) \in Hash
                    /\ \A h \in Page : h <= Max(Page)
  <1> DEFINE Rest == {k \in list.now : k > call.after}
  <1>1. list.now \in SUBSET Hash /\ Hash \subseteq Int /\ call.after \in Nat
    BY MuleClientAssumption DEF CallTypes, ListTypes, Hash
  <1>2. Rest \subseteq Int /\ IsFiniteSet(Rest) /\ Rest \subseteq list.now
    <2>1. IsFiniteSet(Hash)
      BY MuleClientAssumption, FS_Interval DEF Hash
    <2>2. Rest \subseteq Hash
      BY <1>1
    <2>3. QED
      BY <1>1, <2>1, <2>2, FS_Subset
  <1>3. Page \in SUBSET Rest
    BY DEF Page
  <1>4. \A h \in Rest : h \in Page <=> Cardinality({k \in Rest : k <= h}) <= PageSize
    <2> SUFFICES ASSUME NEW h \in Rest
                 PROVE  h \in Page <=> Cardinality({k \in Rest : k <= h}) <= PageSize
      OBVIOUS
    <2>1. {k \in Rest : k <= h} = {k \in list.now : k > call.after /\ k <= h}
      OBVIOUS
    <2>2. h \in Page <=> Cardinality({k \in list.now : k > call.after /\ k <= h}) <= PageSize
      BY DEF Page
    <2> HIDE DEF Rest
    <2>3. QED
      BY <2>1, <2>2
  <1>5. PageSize \in Nat \ {0}
    BY MuleClientAssumption
  <1>6. /\ \A h \in Page, k \in Rest : k <= h => k \in Page
        /\ Cardinality(Page) # PageSize => Page = Rest
        /\ Cardinality(Page) = PageSize => Page # {}
    <2> HIDE DEF Rest
    <2>1. QED
      BY <1>2, <1>3, <1>4, <1>5, FirstRanks
  <1>7. ASSUME Full
        PROVE  /\ Max(Page) \in Page /\ Max(Page) \in Hash
               /\ \A h \in Page : h <= Max(Page)
    <2>1. Page # {} /\ Page \subseteq Int /\ IsFiniteSet(Page)
      BY <1>2, <1>3, <1>6, <1>7, FS_Subset DEF Full
    <2>2. Max(Page) \in Page /\ \A h \in Page : Max(Page) >= h
      BY <2>1, MaxIsLargest
    <2>3. QED
      BY <1>1, <1>2, <1>3, <2>1, <2>2
  <1>8. \A h \in Page, k \in list.now : k > call.after /\ k <= h => k \in Page
    BY <1>6
  <1>9. ~Full => \A k \in list.now : k > call.after => k \in Page
    BY <1>6 DEF Full
  <1>10. QED
    BY <1>1, <1>2, <1>3, <1>7, <1>8, <1>9

LEMMA MappedTypes ==
  ASSUME NEW rows \in SUBSET Hash
  PROVE  /\ \A o \in Mapped(rows) : o[3] = current
         /\ current \in Keyword =>
              Mapped(rows) \subseteq Hash \X (UNION {Names[h] : h \in Hash} \ {Blank}) \X Keyword
  BY DEF Mapped

--------------------------------------------------------------------------------
(* The types and the call, kept by every step.                               *)

LEMMA InitInv == Init => Inv
  BY NoCallTypes
     DEF Init, Inv, CoreTypes, CallTypes, ListTypes, ResultTypes, KadTypes, CallInv, Tokens,
         Outcomes, Sweeps, kad

LEMMA TakesTypes ==
  ASSUME Inv, NEW answer, NEW arrives \in BOOLEAN, Takes(answer, arrives)
  PROVE  KadTypes'
  <1>1. CASE call.route = "search"
    BY <1>1 DEF Inv, KadTypes, Takes, CallInv, kad
  <1>2. CASE call.route # "search"
    BY <1>2 DEF Inv, KadTypes, Takes, kad
  <1>3. QED
    BY <1>1, <1>2

\* The end of a call.
LEMMA EndedTypes ==
  ASSUME Inv, NEW how \in Outcomes, Ended(how)
  PROVE  /\ CallTypes' /\ ListTypes' /\ outcome' \in Outcomes
         /\ call'.method = "none" /\ call'.route = "plain"
  BY NoCallTypes DEF Ended, CallTypes, ListTypes

LEMMA AfterPageTypes ==
  ASSUME Inv, NEW answer, AfterPage(answer), call.route = "page",
         answer \in {"ok", "odd"} => search # Gone \/ call.method # "fetch_results"
  PROVE  /\ CallTypes' /\ ListTypes' /\ ResultTypes' /\ outcome' \in Outcomes
         /\ truncated' \in BOOLEAN /\ CallInv' /\ search' = search /\ current' = current
  <1>a. /\ CallTypes /\ ListTypes /\ ResultTypes /\ CallInv /\ CoreTypes
        /\ search' = search /\ current' = current
    BY DEF Inv, AfterPage
  <1>b. Page \subseteq Hash
    BY <1>a, PageIsFirst
  <1>1. ASSUME NEW rows \in SUBSET Hash, NEW odd \in BOOLEAN, Return(rows, odd),
               answer \in {"ok", "odd"}
        PROVE  /\ CallTypes' /\ ListTypes' /\ ResultTypes' /\ outcome' \in Outcomes
               /\ truncated' \in BOOLEAN /\ CallInv'
    <2>1. Ended("ok") /\ "ok" \in Outcomes
      BY <1>1 DEF Return, Outcomes
    <2>2. call.method = "fetch_results" => current \in Keyword
      BY <1>a, <1>1 DEF CallInv, CoreTypes
    <2>3. ResultTypes'
      BY <1>1, <2>2, MappedTypes DEF Return, ResultTypes
    <2>4. CallInv'
      BY <1>a, <2>1, EndedTypes DEF CallInv, Sweeps
    <2>5. QED
      BY <1>1, <2>1, <2>3, <2>4, EndedTypes DEF Return
  <1>2. CASE answer = "ok" /\ ~Full /\ Return(got \cup Page, FALSE)
    BY <1>a, <1>b, <1>1, <1>2 DEF ResultTypes
  <1>3. CASE /\ answer = "ok" /\ Full
             /\ got' = got \cup Page
             /\ call' = [call EXCEPT !.after = Max(Page), !.stage = "send"]
             /\ UNCHANGED <<outcome, observed, truncated, list>>
    <2>1. Max(Page) \in Hash /\ Hash \subseteq 0 .. LastHash
      BY <1>a, <1>3, PageIsFirst, MuleClientAssumption DEF Hash
    <2>2. CallTypes' /\ call'.method = call.method /\ call'.route = call.route
      BY <1>a, <1>3, <2>1 DEF CallTypes, Stages
    <2>3. CallInv'
      BY <1>a, <2>2 DEF CallInv, Sweeps
    <2>4. ResultTypes'
      BY <1>a, <1>b, <1>3 DEF ResultTypes
    <2>5. QED
      BY <1>a, <1>3, <2>2, <2>3, <2>4 DEF CoreTypes, ListTypes
  <1>4. CASE answer = "odd" /\ Return(got, TRUE)
    BY <1>a, <1>1, <1>4 DEF ResultTypes
  <1>5. CASE answer = "odd" /\ Full /\ Return(got \cup Page, TRUE)
    BY <1>a, <1>b, <1>1, <1>5 DEF ResultTypes
  <1>6. CASE answer \notin {"ok", "odd"} /\ Ended(Outcome(answer)) /\ UNCHANGED result
    <2>1. CallInv'
      BY <1>a, <1>6, OutcomeTypes, EndedTypes DEF CallInv, Sweeps
    <2>2. QED
      BY <1>a, <1>6, <2>1, OutcomeTypes, EndedTypes DEF CoreTypes, ResultTypes, result
  <1>7. QED
    BY <1>a, <1>2, <1>3, <1>4, <1>5, <1>6 DEF AfterPage

LEMMA AfterStopTypes ==
  ASSUME Inv, AfterStop, call.route = "stop", call.method = "start_search"
  PROVE  /\ CallTypes' /\ ListTypes' /\ ResultTypes' /\ outcome' \in Outcomes
         /\ truncated' \in BOOLEAN /\ CallInv'
         /\ search' = NoSearch /\ current' = current
  <1>1. /\ CallTypes' /\ call'.method = call.method /\ call'.route = "search"
        /\ call'.asked = call.asked
    BY DEF Inv, AfterStop, CallTypes, Stages, Routes
  <1>2. CallInv'
    BY <1>1, KeywordAssumption DEF Inv, CallInv, AfterStop, Sweeps
  <1>3. QED
    BY <1>1, <1>2 DEF Inv, AfterStop, ListTypes, ResultTypes, CoreTypes, result

LEMMA FinishedTypes ==
  ASSUME Inv, NEW answer, Finished(answer),
         call.route = "page" /\ answer \in {"ok", "odd"} =>
            search # Gone \/ call.method # "fetch_results"
  PROVE  /\ CallTypes' /\ ListTypes' /\ ResultTypes' /\ outcome' \in Outcomes
         /\ truncated' \in BOOLEAN /\ CallInv'
         /\ search' \in Keyword \cup {NoSearch, Gone} /\ current' \in Keyword \cup {NoSearch}
  <1>a. CoreTypes /\ ResultTypes /\ CallInv
    BY DEF Inv
  <1>1. CASE call.route = "stop" /\ call.method = "start_search"
    BY <1>a, <1>1, AfterStopTypes DEF Finished, CoreTypes
  <1>2. CASE call.route = "search"
    <2>1. AfterSearch(answer)
      BY <1>2 DEF Finished
    <2>2. Ended(Outcome(answer)) /\ UNCHANGED result /\ Outcome(answer) \in Outcomes
      BY <2>1, OutcomeTypes DEF AfterSearch
    <2>3. /\ search' \in Keyword \cup {NoSearch, Gone} /\ current' \in Keyword \cup {NoSearch}
          /\ search' \in Keyword => search' = current'
      BY <1>a, <1>2, <2>1 DEF AfterSearch, CoreTypes, CallInv
    <2>4. CallInv'
      BY <2>2, <2>3, EndedTypes DEF CallInv, Sweeps
    <2>5. QED
      BY <1>a, <2>2, <2>3, <2>4, EndedTypes DEF CoreTypes, ResultTypes, result
  <1>3. CASE call.route = "page"
    BY <1>a, <1>3, AfterPageTypes DEF Finished, CoreTypes
  <1>4. CASE call.route = "logout"
    <2>1. search' = NoSearch /\ Ended("ok") /\ UNCHANGED <<current, result>> /\ "ok" \in Outcomes
      BY <1>4 DEF Finished, Outcomes
    <2>2. CallInv'
      BY <2>1, EndedTypes, KeywordAssumption DEF CallInv, Sweeps
    <2>3. QED
      BY <1>a, <2>1, <2>2, EndedTypes DEF CoreTypes, ResultTypes, result
  <1>5. CASE /\ ~(call.route = "stop" /\ call.method = "start_search")
             /\ call.route \notin {"search", "page", "logout"}
    <2>1. /\ Ended(Outcome(answer)) /\ UNCHANGED <<search, current, result>>
          /\ Outcome(answer) \in Outcomes
      BY <1>5, OutcomeTypes DEF Finished
    <2>2. CallInv'
      BY <1>a, <2>1, EndedTypes DEF CallInv, Sweeps
    <2>3. QED
      BY <1>a, <2>1, <2>2, EndedTypes DEF CoreTypes, ResultTypes, result
  <1>6. QED
    BY <1>1, <1>2, <1>3, <1>4, <1>5

\* An answer of amuled to a page of a search is one of a search it still knows.
LEMMA ServedIsKnown ==
  ASSUME NEW answer \in Answers, call.route = "page", answer \in {"ok", "odd"}
  PROVE  search # Gone \/ call.method # "fetch_results"
  BY DEF Answers, Served, Refusal, OfSearch

LEMMA RoundtripInv ==
  ASSUME Inv, Roundtrip
  PROVE  Inv'
  <1>1. PICK answer \in Answers :
          /\ calm' = (answer \notin {"odd", "failed"})
          /\ IF answer = "unauthorized" /\ call.stage = "send" /\ call.route # "logout"
             THEN /\ call' = [call EXCEPT !.stage = "login"]
                  /\ UNCHANGED <<search, current, outcome, result, list, kad>>
             ELSE Takes(answer, TRUE) /\ Finished(answer)
    BY DEF Roundtrip
  <1>a. UNCHANGED <<http, token, passwordOk>> /\ calm' \in BOOLEAN
    BY <1>1 DEF Roundtrip, session
  <1>2. CASE answer = "unauthorized" /\ call.stage = "send" /\ call.route # "logout"
    <2>1. /\ call' = [call EXCEPT !.stage = "login"]
          /\ UNCHANGED <<search, current, outcome, result, list, kad>>
      BY <1>1, <1>2
    <2>2. /\ CallTypes' /\ call'.method = call.method /\ call'.route = call.route
          /\ call'.asked = call.asked
      BY <2>1 DEF Inv, CallTypes, Stages
    <2>3. CallInv'
      BY <2>1, <2>2 DEF Inv, CallInv
    <2>4. QED
      BY <1>a, <2>1, <2>2, <2>3
         DEF Inv, CoreTypes, ListTypes, ResultTypes, KadTypes, result, kad
  <1>3. CASE ~(answer = "unauthorized" /\ call.stage = "send" /\ call.route # "logout")
    <2>1. Takes(answer, TRUE) /\ Finished(answer)
      BY <1>1, <1>3
    <2>2. KadTypes'
      BY <2>1, TakesTypes
    <2>3. QED
      BY <1>a, <2>1, <2>2, ServedIsKnown, FinishedTypes DEF Inv, CoreTypes
  <1>4. QED
    BY <1>2, <1>3

LEMMA RoundtripFailsInv ==
  ASSUME Inv, RoundtripFails
  PROVE  Inv'
  <1>1. KadTypes'
    BY TakesTypes DEF RoundtripFails
  <1>2. Finished("dead") /\ UNCHANGED <<http, token, passwordOk>> /\ calm' \in BOOLEAN
    BY DEF RoundtripFails, session
  <1>3. QED
    BY <1>1, <1>2, FinishedTypes DEF Inv, CoreTypes

LEMMA LoginFailsInv ==
  ASSUME Inv, NEW how \in Outcomes, LoginFails(how), passwordOk' = passwordOk, calm' \in BOOLEAN
  PROVE  Inv'
  <1>1. UNCHANGED <<http, token>>
    BY DEF LoginFails, session
  <1>2. CASE call.route = "stop" /\ call.method = "start_search"
    <2>1. AfterStop /\ Takes("dead", FALSE)
      BY <1>2 DEF LoginFails
    <2>2. KadTypes'
      BY <2>1, TakesTypes
    <2>3. QED
      BY <1>1, <1>2, <2>1, <2>2, AfterStopTypes DEF Inv, CoreTypes
  <1>3. CASE ~(call.route = "stop" /\ call.method = "start_search")
    <2>1. Ended(how) /\ UNCHANGED <<search, current, result, kad>>
      BY <1>3 DEF LoginFails
    <2>2. CallInv'
      BY <2>1, EndedTypes DEF Inv, CallInv, Sweeps
    <2>3. QED
      BY <1>1, <2>1, <2>2, EndedTypes DEF Inv, CoreTypes, ResultTypes, KadTypes, result, kad
  <1>4. QED
    BY <1>2, <1>3

LEMMA LoginInv ==
  ASSUME Inv, Login
  PROVE  Inv'
  <1>1. CASE LoggedIn /\ calm' = TRUE
    <2>1. UNCHANGED <<search, current, result, kad, passwordOk>> /\ token' \in Tokens
      BY <1>1 DEF Login, LoggedIn, Tokens
    <2>2. CASE call.method = "connect"
      <3>1. http' = TRUE /\ Ended("ok") /\ "ok" \in Outcomes
        BY <1>1, <2>2 DEF LoggedIn, Outcomes
      <3>2. CallInv'
        BY <2>1, <3>1, EndedTypes DEF Inv, CallInv, Sweeps
      <3>3. QED
        BY <1>1, <2>1, <3>1, <3>2, EndedTypes
           DEF Inv, CoreTypes, ResultTypes, KadTypes, result, kad
    <2>3. CASE call.method # "connect"
      <3>1. call' = [call EXCEPT !.stage = "resend"] /\ UNCHANGED <<http, outcome, list>>
        BY <1>1, <2>3 DEF LoggedIn
      <3>2. /\ CallTypes' /\ call'.method = call.method /\ call'.route = call.route
            /\ call'.asked = call.asked
        BY <3>1 DEF Inv, CallTypes, Stages
      <3>3. CallInv'
        BY <2>1, <3>2 DEF Inv, CallInv
      <3>4. QED
        BY <1>1, <2>1, <3>1, <3>2, <3>3
           DEF Inv, CoreTypes, ListTypes, ResultTypes, KadTypes, result, kad
    <2>4. QED
      BY <2>2, <2>3
  <1>2. CASE LoginFails("auth") /\ calm' \in BOOLEAN
    BY <1>2, LoginFailsInv DEF Login, Outcomes
  <1>3. CASE LoginFails("unreachable") /\ calm' \in BOOLEAN
    BY <1>3, LoginFailsInv DEF Login, Outcomes
  <1>4. QED
    BY <1>1, <1>2, <1>3 DEF Login

\* The calls: each starts from no call at all.
LEMMA CallerInv ==
  ASSUME Inv, Caller
  PROVE  Inv'
  <1> USE DEF session, result, kad
  <1>a. "none" \in Outcomes /\ {} \subseteq Hash
    BY DEF Outcomes
  <1>1. CASE Connect
    <2>1. CallTypes' /\ call'.method = "connect" /\ call'.route = "plain"
      BY <1>1, NoCallTypes DEF Connect, CallTypes, Methods, Stages
    <2>2. CallInv'
      BY <1>1, <2>1 DEF Inv, CallInv, Connect, Sweeps
    <2>3. QED
      BY <1>1, <1>a, <2>1, <2>2 DEF Inv, Connect, CoreTypes, ListTypes, ResultTypes, KadTypes
  <1>2. CASE Close
    <2>1. CallTypes' /\ call'.method = "close" /\ call'.route = "logout"
      BY <1>2, NoCallTypes DEF Close, Begin, CallTypes, Methods, Routes
    <2>2. CallInv'
      BY <1>2, <2>1 DEF Inv, CallInv, Close, Sweeps
    <2>3. QED
      BY <1>2, <1>a, <2>1, <2>2
         DEF Inv, Close, Begin, CoreTypes, ListTypes, ResultTypes, KadTypes
  <1>3. ASSUME NEW method \in Methods, NEW route \in Routes \ {"page", "search"}, Ask(method, route),
               method \notin Sweeps \cup {"start_search"}
        PROVE  Inv'
    <2>1. CallTypes' /\ call'.method = method /\ call'.route = route
      BY <1>3, NoCallTypes DEF Ask, Begin, CallTypes
    <2>2. CallInv'
      BY <1>3, <2>1 DEF Inv, CallInv, Ask, Sweeps
    <2>3. QED
      BY <1>3, <1>a, <2>1, <2>2 DEF Inv, Ask, Begin, CoreTypes, ListTypes, ResultTypes, KadTypes
  <1>4. ASSUME NEW k \in Keyword, StartSearch(k) PROVE Inv'
    <2>1. /\ CallTypes' /\ call'.method = "start_search" /\ call'.asked = k
          /\ call'.route = IF search = NoSearch THEN "search" ELSE "stop"
      BY <1>4, NoCallTypes DEF StartSearch, CallTypes, Methods, Routes
    <2>2. CallInv'
      BY <1>4, <2>1 DEF Inv, CallInv, StartSearch, Sweeps
    <2>3. QED
      BY <1>4, <1>a, <2>1, <2>2
         DEF Inv, StartSearch, CoreTypes, ListTypes, ResultTypes, KadTypes
  <1>5. ASSUME NEW method \in Sweeps, Sweep(method) PROVE Inv'
    <2>1. CallTypes' /\ call'.method = method /\ call'.route = "page"
      BY <1>5, NoCallTypes DEF Sweep, Begin, CallTypes, Methods, Routes
    <2>2. CallInv'
      BY <1>5, <2>1 DEF Inv, CallInv, Sweep, Sweeps, NeedsSearch
    <2>3. ListTypes'
      <3>1. PICK rows \in SUBSET Hash : list' = [now |-> rows, stayed |-> rows, seen |-> rows]
        BY <1>5 DEF Sweep
      <3>2. QED
        BY <3>1 DEF ListTypes
    <2>4. QED
      BY <1>5, <1>a, <2>1, <2>2, <2>3 DEF Inv, Sweep, Begin, CoreTypes, ResultTypes, KadTypes
  <1>6. ASSUME NEW method \in Methods, Refused(method) PROVE Inv'
    BY <1>6 DEF Inv, Refused, CoreTypes, CallTypes, ListTypes, ResultTypes, KadTypes, CallInv, Outcomes
  <1>7. Ask("stop_search", "stop") \/ Ask("widen_search", "more") => Inv'
    BY <1>3 DEF Methods, Routes, NeedsSearch, Sweeps
  <1>8. ASSUME NEW method \in Plain, Ask(method, "plain") PROVE Inv'
    BY <1>3, <1>8 DEF Methods, Routes, Plain, Sweeps
  <1>9. QED
    BY <1>1, <1>2, <1>4, <1>5, <1>6, <1>7, <1>8 DEF Caller

LEMMA EnvironmentInv ==
  ASSUME Inv, Environment
  PROVE  Inv'
  <1> USE DEF session, result, kad
  <1>b. NoSearch # Gone /\ NoSearch \notin Keyword /\ Gone \notin Keyword
    BY KeywordAssumption DEF NoSearch, Gone
  <1>1. CASE RowAppears
    <2>1. PICK h \in Hash \ list.now :
            list' = [list EXCEPT !.now = @ \cup {h}, !.seen = @ \cup {h}]
      BY <1>1 DEF RowAppears
    <2>2. ListTypes'
      BY <2>1 DEF Inv, ListTypes
    <2>3. QED
      BY <1>1, <2>2 DEF Inv, RowAppears, CoreTypes, CallTypes, ResultTypes, KadTypes, CallInv
  <1>2. CASE RowDisappears
    <2>1. PICK h \in list.now :
            list' = [list EXCEPT !.now = @ \ {h}, !.stayed = @ \ {h}]
      BY <1>2 DEF RowDisappears
    <2>2. ListTypes'
      BY <2>1 DEF Inv, ListTypes
    <2>3. QED
      BY <1>2, <2>2 DEF Inv, RowDisappears, CoreTypes, CallTypes, ResultTypes, KadTypes, CallInv
  <1>3. CASE Expire
    BY <1>3 DEF Inv, Expire, CoreTypes, CallTypes, ListTypes, ResultTypes, KadTypes, CallInv, Tokens
  <1>4. CASE KadForgets
    BY <1>4 DEF Inv, KadForgets, CoreTypes, CallTypes, ListTypes, ResultTypes, KadTypes, CallInv
  <1>5. CASE Evict
    BY <1>5, <1>b DEF Inv, Evict, CoreTypes, CallTypes, ListTypes, ResultTypes, KadTypes, CallInv
  <1>6. CASE Restart
    <2>1. ListTypes'
      BY <1>6 DEF Inv, Restart, ListTypes
    <2>2. CallInv'
      BY <1>6, <1>b DEF Inv, Restart, CallInv
    <2>3. QED
      BY <1>6, <2>1, <2>2
         DEF Inv, Restart, CoreTypes, CallTypes, ResultTypes, KadTypes, Tokens
  <1>7. CASE ChangePassword
    BY <1>7 DEF Inv, ChangePassword, CoreTypes, CallTypes, ListTypes, ResultTypes, KadTypes, CallInv
  <1>8. QED
    BY <1>1, <1>2, <1>3, <1>4, <1>5, <1>6, <1>7 DEF Environment

LEMMA NextInv ==
  ASSUME Inv, [Next]_vars
  PROVE  Inv'
  <1>1. CASE UNCHANGED vars
    BY <1>1 DEF Inv, vars, session, result, kad, CoreTypes, CallTypes, ListTypes, ResultTypes,
                KadTypes, CallInv
  <1>2. QED
    BY <1>1, CallerInv, RoundtripInv, RoundtripFailsInv, LoginInv, EnvironmentInv
       DEF Next, Exchange

LEMMA Invariance == Spec => []Inv
  BY InitInv, NextInv, PTL DEF Spec

\* Every variable of a session keeps its type (client.py, AmuleApiClient).
THEOREM TypeCorrect == Spec => []TypeOK
  BY Invariance, InvTypes, PTL

--------------------------------------------------------------------------------
(* Kad's list.                                                               *)

\* The roundtrips that reach amuled, one route at a time.  What the request did, and
\* what the client then makes of the answer it got, if one arrived.
LEMMA TakenIsAccounted ==
  ASSUME Inv, KadListAccounted, NEW served, NEW answer, NEW arrives \in BOOLEAN,
         Takes(served, arrives), Finished(answer),
         arrives => served = answer, ~arrives => answer = "dead"
  PROVE  KadListAccounted'
  <1>a. NoSearch \notin Keyword
    BY KeywordAssumption
  <1>1. CASE call.route = "stop"
    <2>1. listed' \subseteq {search} \cup orphaned' /\ listed' \subseteq Keyword
      BY <1>1 DEF Takes, KadListAccounted, Inv, KadTypes
    <2>2. CASE call.method = "start_search"
      <3>1. listed' \subseteq orphaned'
        BY <1>1, <2>2 DEF Takes, KadListAccounted, Inv, KadTypes
      <3>2. QED
        BY <3>1 DEF KadListAccounted
    <2>3. CASE call.method # "start_search"
      BY <1>1, <2>1, <2>3 DEF Finished, KadListAccounted
    <2>4. QED
      BY <2>2, <2>3
  <1>2. CASE call.route = "search"
    <2>1. search = NoSearch /\ AfterSearch(answer) /\ listed \subseteq orphaned
      BY <1>a, <1>2 DEF Inv, CallInv, Finished, KadListAccounted, KadTypes
    <2>2. CASE served \in {"ok", "odd"}
      <3>1. /\ listed' = listed \cup {call.asked}
            /\ orphaned' = orphaned \cup (IF arrives /\ served = "ok" THEN {} ELSE {call.asked})
        BY <1>2, <2>2 DEF Takes
      <3>2. CASE arrives /\ served = "ok"
        BY <2>1, <3>1, <3>2 DEF AfterSearch, KadListAccounted
      <3>3. CASE ~(arrives /\ served = "ok")
        BY <2>1, <3>1, <3>3 DEF KadListAccounted
      <3>4. QED
        BY <3>2, <3>3
    <2>3. CASE served \notin {"ok", "odd"}
      BY <1>2, <2>1, <2>3 DEF Takes, kad, KadListAccounted
    <2>4. QED
      BY <2>2, <2>3
  <1>3. CASE call.route = "logout"
    BY <1>3 DEF Takes, Finished, KadListAccounted
  <1>4. CASE call.route \notin {"stop", "search", "logout"}
    <2>1. UNCHANGED kad /\ search' = search
      BY <1>4 DEF Takes, Finished, AfterPage
    <2>2. QED
      BY <2>1 DEF KadListAccounted, kad
  <1>5. QED
    BY <1>1, <1>2, <1>3, <1>4

LEMMA NextKadList ==
  ASSUME Inv, KadListAccounted, [Next]_vars
  PROVE  KadListAccounted'
  <1> USE DEF session, result, kad
  <1>1. CASE Roundtrip
    <2>1. PICK answer \in Answers :
            IF answer = "unauthorized" /\ call.stage = "send" /\ call.route # "logout"
            THEN UNCHANGED <<search, kad>>
            ELSE Takes(answer, TRUE) /\ Finished(answer)
      BY <1>1 DEF Roundtrip
    <2>2. CASE UNCHANGED <<search, kad>>
      BY <2>2 DEF KadListAccounted
    <2>3. CASE Takes(answer, TRUE) /\ Finished(answer)
      BY <2>3, TakenIsAccounted
    <2>4. QED
      BY <2>1, <2>2, <2>3
  <1>2. CASE RoundtripFails
    <2>1. PICK served : Takes(served, FALSE)
      BY <1>2 DEF RoundtripFails
    <2>2. Finished("dead")
      BY <1>2 DEF RoundtripFails
    <2>3. QED
      BY <2>1, <2>2, TakenIsAccounted
  <1>3. CASE Login
    <2>1. CASE UNCHANGED <<search, kad>>
      BY <2>1 DEF KadListAccounted
    <2>2. CASE call.route = "stop" /\ call.method = "start_search" /\ AfterStop /\ Takes("dead", FALSE)
      BY <2>2, TakenIsAccounted DEF Finished
    <2>3. QED
      BY <1>3, <2>1, <2>2 DEF Login, LoggedIn, LoginFails
  <1>4. CASE Caller
    BY <1>4 DEF Caller, Connect, Close, Ask, StartSearch, Sweep, Refused, Begin, KadListAccounted
  <1>5. CASE Environment
    <2>1. CASE UNCHANGED <<search, kad>>
      BY <2>1 DEF KadListAccounted
    <2>2. CASE KadForgets
      BY <2>2 DEF KadForgets, KadListAccounted
    <2>3. CASE Evict
      BY <2>3 DEF Evict, KadListAccounted
    <2>4. CASE Restart
      BY <2>4 DEF Restart, KadListAccounted
    <2>5. QED
      BY <1>5, <2>1, <2>2, <2>3, <2>4
         DEF Environment, RowAppears, RowDisappears, Expire, ChangePassword
  <1>6. CASE UNCHANGED vars
    BY <1>6 DEF vars, KadListAccounted
  <1>7. QED
    BY <1>1, <1>2, <1>3, <1>4, <1>5, <1>6 DEF Next, Exchange

\* start_search, stop_search and close (client.py) leave no keyword on Kad's list that the
\* client could not account for: it is the search in flight, or one whose start was never
\* answered or whose stop failed.
THEOREM KadListIsAccounted == Spec => []KadListAccounted
  <1>1. Init => KadListAccounted
    BY DEF Init, KadListAccounted
  <1>2. Inv /\ KadListAccounted /\ [Next]_vars => KadListAccounted'
    BY NextKadList
  <1>3. QED
    BY <1>1, <1>2, Invariance, PTL DEF Spec

--------------------------------------------------------------------------------
(* The observations.                                                         *)

LEMMA FinishedIsOurs ==
  ASSUME Inv, NEW answer, Finished(answer),
         call.route = "page" /\ answer \in {"ok", "odd"} =>
            search # Gone \/ call.method # "fetch_results"
  PROVE  \A o \in observed' \ observed : o[3] = search
  <1>1. CASE UNCHANGED observed
    BY <1>1
  <1>2. ASSUME NEW rows \in SUBSET Hash, NEW odd, Return(rows, odd), call.route = "page",
               answer \in {"ok", "odd"}
        PROVE  \A o \in observed' : o[3] = search
    <2>1. CASE call.method = "fetch_results"
      <3>1. current = search
        BY <1>2, <2>1 DEF Inv, CallInv, CoreTypes
      <3>2. observed' = Mapped(rows)
        BY <1>2, <2>1 DEF Return
      <3>3. QED
        BY <3>1, <3>2, MappedTypes
    <2>2. CASE call.method # "fetch_results"
      BY <1>2, <2>2 DEF Return
    <2>3. QED
      BY <2>1, <2>2
  <1>3. CASE call.route = "page"
    <2>1. AfterPage(answer)
      BY <1>3 DEF Finished
    <2>2. got \in SUBSET Hash /\ got \cup Page \in SUBSET Hash
      BY PageIsFirst DEF Inv, ResultTypes
    <2>3. QED
      BY <1>1, <1>2, <1>3, <2>1, <2>2 DEF AfterPage, result
  <1>4. CASE call.route # "page"
    BY <1>1, <1>4 DEF Finished, AfterStop, AfterSearch, Ended, result
  <1>5. QED
    BY <1>3, <1>4

\* fetch_results (client.py) gives each observation the keyword amuled really searched
\* for, in every interleaving of failed starts, lost answers, restarts and evictions.
THEOREM ObservationsAreOurs == Spec => ResultsAreOurs
  <1> DEFINE Ours == \A o \in observed' \ observed : o[3] = search
  <1>1. ASSUME Inv, [Next]_vars PROVE Ours
    <2> USE DEF session, result, kad
    <2>1. CASE Roundtrip
      <3>1. PICK answer \in Answers :
              IF answer = "unauthorized" /\ call.stage = "send" /\ call.route # "logout"
              THEN UNCHANGED result
              ELSE Finished(answer)
        BY <2>1 DEF Roundtrip
      <3>2. CASE UNCHANGED result
        BY <3>2
      <3>3. CASE Finished(answer)
        BY <1>1, <3>3, FinishedIsOurs, ServedIsKnown
      <3>4. QED
        BY <3>1, <3>2, <3>3
    <2>2. CASE RoundtripFails
      BY <1>1, <2>2, FinishedIsOurs DEF RoundtripFails
    <2>3. CASE Login
      BY <2>3 DEF Login, LoggedIn, LoginFails, AfterStop
    <2>4. CASE Caller
      BY <2>4 DEF Caller, Connect, Close, Ask, StartSearch, Sweep, Refused, Begin
    <2>5. CASE Environment
      BY <2>5 DEF Environment, RowAppears, RowDisappears, Expire, KadForgets, Evict, Restart,
                  ChangePassword
    <2>6. CASE UNCHANGED vars
      BY <2>6 DEF vars
    <2>7. QED
      BY <1>1, <2>1, <2>2, <2>3, <2>4, <2>5, <2>6 DEF Next, Exchange
  <1>2. Inv /\ [Next]_vars => [Ours]_vars
    BY <1>1
  <1>3. Spec => [][Ours]_vars
    <2> HIDE DEF Ours
    <2>1. QED
      BY <1>2, Invariance, PTL DEF Spec
  <1>4. QED
    BY <1>3 DEF ResultsAreOurs

--------------------------------------------------------------------------------
(* The sweeps.                                                               *)

\* While a list is swept: the rows that stayed and are not after the anchor have been
\* collected, and what was collected was listed at some moment of the sweep.
SweepInv ==
    Listing => /\ \A h \in list.stayed : h <= call.after => h \in got
               /\ got \subseteq list.seen /\ list.now \subseteq list.seen

\* What SweepKeepsStayers says of a step.
Kept == Listing /\ call' = NoCall /\ outcome' = "ok" /\ ~truncated'
          => list.stayed \subseteq got' /\ got' \subseteq list.seen

LEMMA EndedIsOver ==
  ASSUME NEW how, Ended(how)
  PROVE  ~Listing' /\ outcome' = how
  BY NoCallTypes DEF Ended, Listing, Sweeps

LEMMA NotOver ==
  ASSUME Listing, call'.method = call.method
  PROVE  call' # NoCall
  BY NoCallTypes DEF Listing, Sweeps

\* One page of a sweep.
LEMMA AfterPageSweeps ==
  ASSUME Inv, SweepInv, NEW answer, AfterPage(answer), Listing
  PROVE  SweepInv' /\ Kept
  <1>a. CallTypes /\ ListTypes /\ ResultTypes /\ call.route = "page"
    BY DEF Inv, CallInv, Listing
  <1>b. /\ list.stayed \subseteq list.now /\ list.now \subseteq Hash /\ Hash \subseteq Int
        /\ call.after \in Int
    BY <1>a, MuleClientAssumption DEF CallTypes, ListTypes, Hash
  <1>c. Page \subseteq list.seen /\ got \subseteq list.seen
    BY <1>a, PageIsFirst DEF SweepInv
  <1>1. CASE answer = "ok" /\ ~Full /\ Return(got \cup Page, FALSE)
    <2>1. ~Listing' /\ got' = got \cup Page
      BY <1>1, EndedIsOver DEF Return
    <2>2. list.stayed \subseteq got'
      <3> SUFFICES ASSUME NEW h \in list.stayed PROVE h \in got \cup Page
        BY <2>1
      <3>1. CASE h <= call.after
        BY <3>1 DEF SweepInv
      <3>2. CASE h > call.after
        BY <1>a, <1>b, <1>1, <3>2, PageIsFirst
      <3>3. h \in Int
        BY <1>b
      <3>4. h <= call.after \/ h > call.after
        BY <1>b, <3>3
      <3>5. QED
        BY <3>1, <3>2, <3>4
    <2>3. QED
      BY <1>c, <2>1, <2>2 DEF SweepInv, Kept
  <1>2. CASE /\ answer = "ok" /\ Full
             /\ got' = got \cup Page
             /\ call' = [call EXCEPT !.after = Max(Page), !.stage = "send"]
             /\ UNCHANGED <<outcome, observed, truncated, list>>
    <2>1. call'.method = call.method /\ call'.after = Max(Page) /\ list' = list
      BY <1>a, <1>2 DEF CallTypes
    <2>2. ASSUME NEW h \in list.stayed, h <= Max(Page) PROVE h \in got'
      <3>1. CASE h <= call.after
        BY <1>2, <3>1 DEF SweepInv
      <3>2. CASE h > call.after
        BY <1>a, <1>b, <1>2, <2>2, <3>2, PageIsFirst
      <3>3. h \in Int
        BY <1>b
      <3>4. h <= call.after \/ h > call.after
        BY <1>b, <3>3
      <3>5. QED
        BY <3>1, <3>2, <3>4
    <2>3. SweepInv'
      BY <1>c, <1>2, <2>1, <2>2 DEF SweepInv, Listing
    <2>4. QED
      BY <2>1, <2>3, NotOver DEF Kept
  <1>3. CASE \E rows : Return(rows, TRUE)
    BY <1>3, EndedIsOver DEF Return, SweepInv, Kept
  <1>4. CASE answer \notin {"ok", "odd"} /\ Ended(Outcome(answer)) /\ UNCHANGED result
    <2>1. Outcome(answer) # "ok"
      BY <1>a, <1>4 DEF Outcome, Classified
    <2>2. QED
      BY <1>4, <2>1, EndedIsOver DEF SweepInv, Kept
  <1>5. QED
    BY <1>1, <1>2, <1>3, <1>4 DEF AfterPage

LEMMA FinishedSweeps ==
  ASSUME Inv, SweepInv, NEW answer, Finished(answer)
  PROVE  SweepInv' /\ Kept
  <1>1. CASE Listing
    <2>1. AfterPage(answer)
      BY <1>1 DEF Inv, CallInv, Listing, Finished, Sweeps
    <2>2. QED
      BY <1>1, <2>1, AfterPageSweeps
  <1>2. CASE ~Listing
    <2>1. ~Listing'
      <3>1. CASE AfterStop
        BY <1>2, <3>1 DEF Inv, CallTypes, AfterStop, Listing
      <3>2. CASE \E how : Ended(how)
        BY <3>2, EndedIsOver
      <3>3. QED
        BY <1>2, <3>1, <3>2 DEF Inv, CallInv, Listing, Finished, AfterSearch
    <2>2. QED
      BY <1>2, <2>1 DEF SweepInv, Kept
  <1>3. QED
    BY <1>1, <1>2

LEMMA NextSweeps ==
  ASSUME Inv, SweepInv, [Next]_vars
  PROVE  SweepInv' /\ Kept
  <1> USE DEF session, result, kad
  <1>a. CallTypes /\ ListTypes
    BY DEF Inv
  <1>1. CASE Roundtrip
    <2>1. PICK answer \in Answers :
            IF answer = "unauthorized" /\ call.stage = "send" /\ call.route # "logout"
            THEN /\ call' = [call EXCEPT !.stage = "login"]
                 /\ UNCHANGED <<search, current, outcome, result, list, kad>>
            ELSE Takes(answer, TRUE) /\ Finished(answer)
      BY <1>1 DEF Roundtrip
    <2>2. CASE call' = [call EXCEPT !.stage = "login"] /\ UNCHANGED <<result, list>>
      <3>1. call'.method = call.method /\ call'.after = call.after
        BY <1>a, <2>2 DEF CallTypes
      <3>2. QED
        BY <2>2, <3>1, NotOver DEF SweepInv, Listing, Kept
    <2>3. CASE Finished(answer)
      BY <2>3, FinishedSweeps
    <2>4. QED
      BY <2>1, <2>2, <2>3
  <1>2. CASE RoundtripFails
    BY <1>2, FinishedSweeps DEF RoundtripFails
  <1>3. CASE Login
    <2>1. CASE call' = [call EXCEPT !.stage = "resend"] /\ UNCHANGED <<result, list>>
      <3>1. call'.method = call.method /\ call'.after = call.after
        BY <1>a, <2>1 DEF CallTypes
      <3>2. QED
        BY <2>1, <3>1, NotOver DEF SweepInv, Listing, Kept
    <2>2. CASE call.method = "connect" /\ Ended("ok")
      BY <2>2, EndedIsOver DEF SweepInv, Listing, Sweeps, Kept
    <2>3. CASE \E how \in {"auth", "unreachable"} : Ended(how)
      BY <2>3, EndedIsOver DEF SweepInv, Kept
    <2>4. CASE call.method = "start_search" /\ AfterStop
      BY <1>a, <2>4 DEF AfterStop, CallTypes, SweepInv, Listing, Sweeps, Kept
    <2>5. QED
      BY <1>3, <2>1, <2>2, <2>3, <2>4 DEF Login, LoggedIn, LoginFails
  <1>4. CASE Caller
    <2>1. CASE \E method \in Sweeps : Sweep(method)
      <3>1. PICK method \in Sweeps, rows \in SUBSET Hash :
              /\ Sweep(method)
              /\ list' = [now |-> rows, stayed |-> rows, seen |-> rows]
        BY <2>1 DEF Sweep
      <3>2. call.method = "none" /\ got' = {} /\ call'.after = 0
        BY <3>1, NoCallTypes DEF Sweep, Begin, NoCall
      <3>3. \A h \in rows : ~(h <= 0)
        BY MuleClientAssumption DEF Hash
      <3>4. list'.stayed = rows /\ list'.now = rows /\ list'.seen = rows
        BY <3>1
      <3>5. SweepInv'
        BY <3>2, <3>3, <3>4 DEF SweepInv
      <3>6. QED
        BY <3>2, <3>5 DEF Listing, Sweeps, Kept
    <2>2. CASE ~(\E method \in Sweeps : Sweep(method))
      <3>1. call.method = "none"
        BY <1>4, <2>2
           DEF Caller, Connect, Close, Ask, StartSearch, Refused, Begin
      <3>2. ~Listing'
        BY <1>4, <2>2, NoCallTypes
           DEF Caller, Connect, Close, Ask, StartSearch, Refused, Begin, NoCall, Listing, Sweeps,
               Plain
      <3>3. QED
        BY <3>1, <3>2 DEF SweepInv, Listing, Sweeps, Kept
    <2>3. QED
      BY <2>1, <2>2
  <1>5. CASE Environment
    <2>1. UNCHANGED <<call, result>>
      BY <1>5 DEF Environment, RowAppears, RowDisappears, Expire, KadForgets, Evict, Restart,
                  ChangePassword
    <2>2. CASE RowAppears
      <3>1. PICK h \in Hash \ list.now :
              list' = [list EXCEPT !.now = @ \cup {h}, !.seen = @ \cup {h}]
        BY <2>2 DEF RowAppears
      <3>2. /\ list'.stayed = list.stayed /\ list'.now = list.now \cup {h}
            /\ list'.seen = list.seen \cup {h}
        BY <1>a, <3>1 DEF ListTypes
      <3>3. QED
        BY <2>1, <3>2, NotOver DEF SweepInv, Listing, Kept
    <2>3. CASE RowDisappears
      <3>1. PICK h \in list.now : list' = [list EXCEPT !.now = @ \ {h}, !.stayed = @ \ {h}]
        BY <2>3 DEF RowDisappears
      <3>2. /\ list'.stayed = list.stayed \ {h} /\ list'.now = list.now \ {h}
            /\ list'.seen = list.seen
        BY <1>a, <3>1 DEF ListTypes
      <3>3. QED
        BY <2>1, <3>2, NotOver DEF SweepInv, Listing, Kept
    <2>4. CASE Restart
      <3>1. list'.stayed = {} /\ list'.now = {} /\ list'.seen = list.seen
        BY <1>a, <2>4 DEF Restart, ListTypes
      <3>2. QED
        BY <2>1, <3>1, NotOver DEF SweepInv, Listing, Kept
    <2>5. CASE UNCHANGED list
      BY <2>1, <2>5, NotOver DEF SweepInv, Listing, Kept
    <2>6. QED
      BY <1>5, <2>2, <2>3, <2>4, <2>5 DEF Environment, Expire, KadForgets, Evict, ChangePassword
  <1>6. CASE UNCHANGED vars
    BY <1>6, NotOver DEF vars, SweepInv, Listing, Kept
  <1>7. QED
    BY <1>1, <1>2, <1>3, <1>4, <1>5, <1>6 DEF Next, Exchange

\* _sweep (client.py) returns every row that was listed all along and none that never was,
\* for any list, any page size, and any appearances, removals, restarts and renewed tokens
\* between its pages.
THEOREM SweepsKeepStayers == Spec => SweepKeepsStayers
  <1>1. Init => SweepInv
    BY NoCallTypes DEF Init, SweepInv, Listing, Sweeps
  <1>2. Inv /\ SweepInv /\ [Next]_vars => SweepInv' /\ [Kept]_vars
    BY NextSweeps
  <1>3. Spec => [][Kept]_vars
    BY <1>1, <1>2, Invariance, PTL DEF Spec
  <1>4. QED
    BY <1>3 DEF SweepKeepsStayers, Kept

================================================================================
