-------------------------------- MODULE PortSync --------------------------------
(***************************************************************************)
(* The port-sync loop of application/port_sync_loop.py: it keeps the port  *)
(* amuled listens on equal to the port the VPN forwards.  amuled binds its *)
(* port only when it starts, so a cycle that finds a difference writes the *)
(* preference and asks s6 for a restart.  A step boundary is an await: the *)
(* VPN, amuled and the clock move in between, and the process can stop.    *)
(***************************************************************************)
EXTENDS Integers

CONSTANTS
    Port,      \* the ports the VPN may forward
    Window,    \* port_sync.restart_min_interval_seconds, in ticks
    Faults     \* which failures may happen

FaultKinds ==
    {"unreachable",  \* a call to amuleapi fails and has no effect
     "lost",         \* the write of the preference takes effect, its answer is lost
     "refused",      \* s6-svc fails: RestarterError
     "crash",        \* the process stops
     "dies",         \* amuled stops by itself and s6 starts it again
     "lowid"}        \* the server gives a Low-ID although the port is right

ASSUME PortSyncAssumption == Window \in Nat /\ Faults \subseteq FaultKinds

NoPort == "none"
ASSUME NoPortAssumption == NoPort \notin Port

VARIABLES
    step,          \* where the loop is
    target,        \* the forwarded port this cycle read
    sinceDecision, \* ticks since the instant this cycle will record
    sinceRestart,  \* ticks since _last_restart, Window when there is none
    orphaned,      \* history: a cycle wrote the preference and then failed to ask for
                   \* the restart, and amuled has not started since
    refused,       \* history: this process had a restart refused, and amuled has had
                   \* no High-ID since
    alert,         \* the EdgeState condition "port_mismatch"
    forwarded,     \* gluetun: the port forwarded now
    pref,          \* amuled: its port preference, saved when written
    bound,         \* amuled: the port it listens on
    running,       \* amuled is up
    pending,       \* s6 has a restart of amuled to carry out
    highId         \* amuled holds a High-ID

local == <<step, target, sinceDecision, sinceRestart, alert>>
amuled == <<pref, bound, running, pending, highId>>
history == <<orphaned, refused>>
vars == <<local, history, forwarded, amuled>>

Steps == {"idle", "compare", "verify", "write", "restart", "recheck", "down"}

Init ==
    /\ step = "idle" /\ target = NoPort
    /\ sinceDecision = Window /\ sinceRestart = Window
    /\ alert = FALSE /\ orphaned = FALSE /\ refused = FALSE
    /\ forwarded \in Port \cup {NoPort}
    /\ pref \in Port /\ bound = pref
    /\ running \in BOOLEAN /\ pending = FALSE /\ highId = FALSE

--------------------------------------------------------------------------------
(* The cycle.  Each way back to idle sleeps one poll interval.               *)

Goto(s) == step' = s
Reachable == running
Unreachable == ~running \/ "unreachable" \in Faults

\* gluetun answers with a port; otherwise the cycle ends and nothing changes.
ReadForwarded ==
    /\ step = "idle" /\ forwarded # NoPort
    /\ target' = forwarded
    /\ Goto("compare")
    /\ UNCHANGED <<history, sinceDecision, sinceRestart, alert, forwarded, amuled>>

\* connect and get_listen_port, then the three ways on from the comparison.
TooSoon == sinceRestart < Window
Compare ==
    /\ step = "compare" /\ Reachable
    /\ \/ pref = target /\ Goto("verify") /\ UNCHANGED sinceDecision
       \/ pref # target /\ TooSoon /\ Goto("idle") /\ UNCHANGED sinceDecision
       \/ pref # target /\ ~TooSoon /\ Goto("write") /\ sinceDecision' = 0
    /\ UNCHANGED <<history, target, sinceRestart, alert, forwarded, amuled>>

\* The preference is right: only a High-ID proves that the port is bound too.
\* Variant to refute: the aligned path leaves the alert alone.
VerifyQuietly ==
    /\ step = "verify" /\ Reachable
    /\ Goto("idle")
    /\ UNCHANGED <<history, target, sinceDecision, sinceRestart, alert, forwarded, amuled>>

\* Variant to refute: the written preference passes for the bound port.
VerifyMasked ==
    /\ step = "verify" /\ Reachable
    /\ alert' = FALSE
    /\ Goto("idle")
    /\ UNCHANGED <<history, target, sinceDecision, sinceRestart, forwarded, amuled>>

Verify ==
    /\ step = "verify" /\ Reachable
    /\ alert' = (alert /\ ~highId)
    /\ Goto("idle")
    /\ UNCHANGED <<history, target, sinceDecision, sinceRestart, forwarded, amuled>>

WritePreference ==
    /\ step = "write" /\ Reachable
    /\ pref' = target
    /\ Goto("restart")
    /\ UNCHANGED <<history, target, sinceDecision, sinceRestart, alert, forwarded, bound,
                   running, pending, highId>>

WriteLost ==
    /\ "lost" \in Faults
    /\ step = "write" /\ Reachable
    /\ pref' = target /\ orphaned' = TRUE
    /\ Goto("idle")
    /\ UNCHANGED <<refused, target, sinceDecision, sinceRestart, alert, forwarded, bound, running,
                   pending, highId>>

\* s6-svc returns once the signal is queued; the restart itself comes later.
\* Variant to refute: the restart is left to amuled.
RestartSkipped ==
    /\ step = "restart"
    /\ sinceRestart' = sinceDecision
    /\ Goto("recheck")
    /\ UNCHANGED <<history, target, sinceDecision, alert, forwarded, amuled>>

RequestRestart ==
    /\ step = "restart"
    /\ pending' = TRUE
    /\ sinceRestart' = sinceDecision
    /\ Goto("recheck")
    /\ UNCHANGED <<history, target, sinceDecision, alert, forwarded, pref, bound, running,
                   highId>>

RestartRefused ==
    /\ "refused" \in Faults
    /\ step = "restart"
    /\ alert' = TRUE /\ orphaned' = TRUE /\ refused' = ~highId
    /\ Goto("idle")
    /\ UNCHANGED <<target, sinceDecision, sinceRestart, forwarded, amuled>>

\* One poll interval later: the alert follows the High-ID.
Recheck ==
    /\ step = "recheck" /\ Reachable
    /\ alert' = ~highId
    /\ Goto("idle")
    /\ UNCHANGED <<history, target, sinceDecision, sinceRestart, forwarded, amuled>>

\* MuleClientError from any call: the cycle ends.
CallFails ==
    /\ step \in {"compare", "verify", "write", "recheck"} /\ Unreachable
    /\ Goto("idle")
    /\ UNCHANGED <<history, target, sinceDecision, sinceRestart, alert, forwarded, amuled>>

--------------------------------------------------------------------------------
(* The process, the clock, the VPN and amuled.                               *)

Crash ==
    /\ "crash" \in Faults
    /\ step # "down"
    /\ Goto("down")
    /\ target' = NoPort /\ sinceDecision' = Window /\ sinceRestart' = Window /\ alert' = FALSE
    /\ orphaned' = (orphaned \/ step = "restart") /\ refused' = FALSE
    /\ UNCHANGED <<forwarded, amuled>>

Boot ==
    /\ step = "down"
    /\ Goto("idle")
    /\ UNCHANGED <<history, target, sinceDecision, sinceRestart, alert, forwarded, amuled>>

\* The age stops counting at the window: an older restart is just as old.
Later(age) == IF age < Window THEN age + 1 ELSE age
Tick ==
    /\ sinceDecision' = Later(sinceDecision) /\ sinceRestart' = Later(sinceRestart)
    /\ UNCHANGED <<history, step, target, alert, forwarded, amuled>>

Renegotiate ==
    /\ forwarded' \in Port \cup {NoPort}
    /\ highId' \in {FALSE, highId}
    /\ UNCHANGED <<history, local, pref, bound, running, pending>>

GoesDown ==
    /\ running
    /\ running' = FALSE /\ pending' = FALSE /\ highId' = FALSE
    /\ UNCHANGED <<history, local, forwarded, pref, bound>>
Stop == pending /\ GoesDown
Die == "dies" \in Faults /\ GoesDown

Start ==
    /\ ~running
    /\ running' = TRUE /\ bound' = pref /\ orphaned' = FALSE
    /\ UNCHANGED <<refused, local, forwarded, pref, pending, highId>>

\* amuled logs in to a server, which tests the port it listens on.
Login ==
    /\ running
    /\ highId' \in {bound = forwarded} \cup (IF "lowid" \in Faults THEN {FALSE} ELSE {})
    /\ refused' = (refused /\ ~highId')
    /\ UNCHANGED <<orphaned, local, forwarded, pref, bound, running, pending>>

--------------------------------------------------------------------------------

Loop ==
    \/ ReadForwarded \/ Compare \/ Verify \/ WritePreference \/ WriteLost
    \/ RequestRestart \/ RestartRefused \/ Recheck \/ CallFails

Next == Loop \/ Crash \/ Boot \/ Tick \/ Renegotiate \/ Stop \/ Die \/ Start \/ Login

Spec == Init /\ [][Next]_vars

\* The loop and the clock go on, a process or daemon that is down is started
\* again, s6 carries a restart out, neither amuled nor the process is stopped for
\* ever, and no call fails for ever.
Fairness ==
    /\ WF_vars(Loop) /\ WF_vars(Boot) /\ WF_vars(Tick)
    /\ WF_vars(Stop) /\ WF_vars(Start) /\ <>[][~Die /\ ~Crash]_vars
    /\ SF_vars(Compare) /\ SF_vars(Verify)
    /\ SF_vars(WritePreference) /\ SF_vars(RequestRestart)

FairSpec == Spec /\ Fairness

--------------------------------------------------------------------------------
(* Properties.                                                               *)

\* The type invariant.
TypeOK ==
    /\ step \in Steps
    /\ target \in Port \cup {NoPort} /\ forwarded \in Port \cup {NoPort}
    /\ step \notin {"idle", "down"} => target \in Port
    /\ sinceDecision \in 0 .. Window /\ sinceRestart \in 0 .. Window
    /\ alert \in BOOLEAN /\ orphaned \in BOOLEAN /\ refused \in BOOLEAN
    /\ pref \in Port /\ bound \in Port
    /\ running \in BOOLEAN /\ pending \in BOOLEAN /\ highId \in BOOLEAN

\* A preference amuled has not bound yet always has a restart on its way: the
\* loop is about to ask for it, s6 is to carry it out, or amuled is starting.
\* This is what makes it safe that the loop acts on the preference alone; only a
\* lost write, a refused restart or a stop between the two can break it.
WrittenIsPending == pref # bound => step = "restart" \/ pending \/ ~running \/ orphaned

\* A refused restart keeps its alert lit, however many cycles find the written
\* preference equal to the forwarded port and whatever amuled and s6 do meanwhile,
\* until a High-ID shows that the port is bound after all.
RefusalShows == refused => alert

\* A port the VPN keeps forwarding ends up being the one amuled listens on,
\* unless a write was left without its restart.
Converges == \A p \in Port : <>[](forwarded = p /\ ~orphaned) => <>[](bound = p)

\* An alert does not outlive the mismatch: a High-ID that lasts clears it.
AlertRecovers == <>[](highId /\ forwarded # NoPort) => <>[](~alert)

================================================================================
