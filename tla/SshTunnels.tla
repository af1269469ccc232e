----------------------------- MODULE SshTunnels -----------------------------
(***************************************************************************)
(* The runtime of the SSH tunnels of one session                           *)
(* (app/server/ssh-tunnel-runtime.js): starts, stops, probes, traffic      *)
(* evidence, failures and the reconnects with their bounded attempts, each *)
(* suspended at its awaits while the others go on.                         *)
(*                                                                         *)
(* The runtime keeps its tunnels by id and those of different ids share    *)
(* nothing but the connection: the module is about one id.  An entry is    *)
(* named by the call of start that made it, a controller by its entry and  *)
(* its number there.  The controllers are those of ssh-tunnel.js: a local, *)
(* a remote or a dynamic forward, which differ in what their probes can    *)
(* show and in when they report real traffic.                              *)
(***************************************************************************)
EXTENDS Naturals, FiniteSets

CONSTANTS
    MaxAttempts,  \* the reconnects in a row: the length of reconnectDelaysMs
    MaxStarts,    \* bound: the calls of start
    MaxEvents,    \* bound: the errors and the traffic controllers report
    Loads         \* what may happen in one behaviour: the kind of the tunnel, how
                  \* many starts, how many such events, how many tests of the user

ASSUME BoundAssumption ==
    /\ MaxAttempts \in Nat /\ MaxStarts \in Nat /\ MaxEvents \in Nat
    /\ Loads \subseteq [kind : {"local", "remote", "dynamic"}, starts : 0..MaxStarts,
                        events : 0..MaxEvents, tests : Nat]

Entries == 1..MaxStarts

\* A controller is replaced only after an event, or the end of the connection.
Numbers == 1..(MaxEvents + 2)

VARIABLES
    session,     \* the SSH connection: up, lost, killed (the session forgot it)
    call,        \* the calls of start
    registered,  \* controllers: the entry the id has, 0 if it has none
    overwritten, \* history: the entries that lost their place there to another start
    forgotten,   \* history: those put there when the session had forgotten the runtime
    tunnel,      \* of each entry: its state and what reconnects it
    current,     \* the number of its controller
    controller,  \* its controllers
    carried,     \* trafficEvidenceEmitted of its controller
    traffic,     \* when real traffic last went through it
    test,        \* what it knows of its connectivity
    probes,      \* its probes that have not returned
    failures,    \* the number of its failures and of its reconnects so far
    load,        \* the load of this behaviour
    events, tests

lostVars    == <<overwritten, forgotten>>
carriedVars == <<carried, traffic>>
loadVars    == <<load, events, tests>>

vars == <<session, call, registered, lostVars, tunnel, current, controller,
          carriedVars, test, probes, failures, loadVars>>

\* verdictOrder, from the best to the worst.
Rank     == [passed |-> 1, unverified |-> 2, limited |-> 3, failed |-> 4]
Verdicts == DOMAIN Rank
Lost     == {"session-lost", "reconnecting"}
States   == {"none", "healthy", "failed", "port-conflict"} \cup Lost
NoTest   == [verdict |-> "none", controller |-> 0, failures |-> 0]
NoProbe  == [controller |-> 0, generation |-> 0, failures |-> 0]

IsProbe(p) == DOMAIN p = {"controller", "generation", "failures"}

TypeOK ==
    /\ session \in {"up", "lost", "killed"}
    /\ call \in [Entries -> {"none", "starting", "started", "failed"}]
    /\ registered \in Entries \cup {0}
    /\ overwritten \subseteq Entries /\ forgotten \subseteq Entries
    /\ tunnel \in [Entries ->
           [state : States, stopping : BOOLEAN, attached : BOOLEAN, timer : BOOLEAN,
            attempt : 0..MaxAttempts, reconnect : {"none", "closing", "starting"}]]
    /\ current \in [Entries -> Numbers]
    /\ controller \in [Entries ->
           [Numbers -> {"none", "opening", "open", "closing", "closed"}]]
    /\ carried \in [Entries -> BOOLEAN]
    /\ traffic \in [Entries -> [controller : Numbers \cup {0}, failures : Nat]]
    /\ \A e \in Entries :
           /\ test[e].state \in Verdicts \cup {"untested", "testing"}
           /\ test[e].last.verdict \in Verdicts \cup {"none"}
           /\ test[e].evidence \in BOOLEAN
           /\ test[e].generation \in Nat
           /\ test[e].promise \in probes[e] \cup {NoProbe}
           /\ \A p \in probes[e] : IsProbe(p)
    /\ failures \in [Entries -> Nat]
    /\ load \in Loads /\ events \in 0..load.events /\ tests \in 0..load.tests

Init ==
    /\ session = "up"
    /\ call = [e \in Entries |-> "none"]
    /\ registered = 0 /\ overwritten = {} /\ forgotten = {}
    /\ tunnel = [e \in Entries |->
                    [state |-> "none", stopping |-> FALSE, attached |-> FALSE,
                     timer |-> FALSE, attempt |-> 0, reconnect |-> "none"]]
    /\ current = [e \in Entries |-> 1]
    /\ controller = [e \in Entries |-> [k \in Numbers |-> "none"]]
    /\ carried = [e \in Entries |-> FALSE]
    /\ traffic = [e \in Entries |-> [controller |-> 0, failures |-> 0]]
    /\ test = [e \in Entries |->
                  [state |-> "untested", last |-> NoTest, evidence |-> FALSE,
                   generation |-> 0, promise |-> NoProbe]]
    /\ probes = [e \in Entries |-> {}]
    /\ failures = [e \in Entries |-> 0]
    /\ load \in Loads /\ events = 0 /\ tests = 0

-----------------------------------------------------------------------------
(* Probes and what they show.                                              *)

\* runProbe: a probe that has not returned is joined.
RunsProbe(e, t, number, failed) ==
    LET p == [controller |-> number, generation |-> t.generation, failures |-> failed]
    IN  IF t.promise # NoProbe
        THEN test' = [test EXCEPT ![e] = t] /\ UNCHANGED probes
        ELSE /\ test' = [test EXCEPT ![e] = [t EXCEPT !.state = "testing", !.promise = p]]
             /\ probes' = [probes EXCEPT ![e] = @ \cup {p}]

\* invalidateProbe, without and with an error.
Invalidated(t) ==
    [t EXCEPT !.generation = @ + 1, !.evidence = FALSE, !.last = NoTest,
              !.state = "untested"]
FailedTest(e, verdict) ==
    [Invalidated(test[e]) EXCEPT
        !.last = [verdict |-> verdict, controller |-> current[e],
                  failures |-> failures[e] + 1],
        !.state = verdict]

\* Mutant: a probe of the old controller is still waited for.
SwappedOnly(t) == [t EXCEPT !.generation = @ + 1]

\* The controller is replaced: what is pending is no longer waited for.
Swapped(t) == [t EXCEPT !.generation = @ + 1, !.promise = NoProbe]

\* The failure of a tunnel that is stopped, or was replaced, is not heard.
Heeded(e) == ~tunnel[e].stopping /\ registered = e

\* Mutant: the attempts are not counted against the delays.
Unlimited(t) == IF t.timer THEN t ELSE [t EXCEPT !.attempt = @ + 1, !.timer = TRUE]

\* scheduleReconnect.
Scheduled(t) ==
    IF t.timer THEN t
    ELSE IF t.attempt = MaxAttempts THEN [t EXCEPT !.state = "failed"]
    ELSE [t EXCEPT !.attempt = @ + 1, !.timer = TRUE]

\* probeStagesForError: that the server prohibits forwarding is a limit.
ErrorVerdicts(class) == IF class = "failed" THEN {"limited", "failed"} ELSE {"failed"}

\* handleControllerFailure, with the class and the verdict of the error; it also
\* ends the reconnect that failed.
Failure(e, class, verdict) ==
    LET t == [tunnel[e] EXCEPT !.reconnect = "none"]
        f == [t EXCEPT !.state = class]
    IN  IF Heeded(e)
        THEN /\ tunnel' = [tunnel EXCEPT ![e] =
                              IF class = "session-lost" THEN Scheduled(f) ELSE f]
             /\ test' = [test EXCEPT ![e] = FailedTest(e, verdict)]
             /\ failures' = [failures EXCEPT ![e] = @ + 1]
        ELSE /\ tunnel' = [tunnel EXCEPT ![e] = t]
             /\ UNCHANGED <<test, failures>>

\* close of the controller k of e; a second one is a no-op.
Closing(e, k) ==
    [controller EXCEPT ![e][k] = IF @ = "open" THEN "closing" ELSE @]

-----------------------------------------------------------------------------
(* start, stop, closeAll and test.                                         *)

\* The session still has the runtime: one that is killed would make another,
\* without its tunnels (ensureSshTunnelRuntime).
HasRuntime == session # "killed"

\* start, after the check of the local port.
Start(e) ==
    /\ HasRuntime /\ call[e] = "none" /\ e <= load.starts
    /\ \A d \in 1..(e - 1) : call[d] # "none"
    /\ IF registered # 0
       THEN call' = [call EXCEPT ![e] = "failed"] /\ UNCHANGED controller
       ELSE /\ call' = [call EXCEPT ![e] = "starting"]
            /\ controller' = [controller EXCEPT ![e][1] = "opening"]
    /\ UNCHANGED <<session, registered, lostVars, tunnel, current, carriedVars, test,
                   probes, failures, loadVars>>

\* The controller is there: the entry is put into the map, whatever is there now
\* and whatever became of the session meanwhile.
StartOpens(e) ==
    /\ call[e] = "starting"
    /\ call' = [call EXCEPT ![e] = "started"]
    /\ controller' = [controller EXCEPT ![e][1] = "open"]
    /\ registered' = e
    /\ overwritten' = overwritten \cup ({registered} \ {0})
    /\ forgotten' = IF HasRuntime THEN forgotten ELSE forgotten \cup {e}
    /\ tunnel' = [tunnel EXCEPT ![e].state = "healthy", ![e].attached = TRUE]
    /\ RunsProbe(e, test[e], 1, 0)
    /\ UNCHANGED <<session, current, carriedVars, failures, loadVars>>

StartFails(e) ==
    /\ call[e] = "starting"
    /\ call' = [call EXCEPT ![e] = "failed"]
    /\ controller' = [controller EXCEPT ![e][1] = "none"]
    /\ UNCHANGED <<session, registered, lostVars, tunnel, current, carriedVars, test,
                   probes, failures, loadVars>>

\* What stop and closeAll do to the entry that is registered.
StopEntry ==
    LET e == registered
    IN  /\ e # 0
        /\ registered' = 0
        /\ tunnel' = [tunnel EXCEPT ![e].stopping = TRUE, ![e].timer = FALSE,
                                    ![e].attached = FALSE]
        /\ test' = [test EXCEPT ![e].generation = @ + 1, ![e].promise = NoProbe]
        /\ controller' = Closing(e, current[e])
        /\ UNCHANGED <<call, lostVars, current, carriedVars, probes, failures,
                       loadVars>>

Stop == HasRuntime /\ StopEntry /\ UNCHANGED session

\* kill: closeAll, and the session forgets its connection and its runtime.
Kill ==
    /\ HasRuntime /\ session' = "killed"
    /\ \/ StopEntry
       \/ /\ registered = 0
          /\ UNCHANGED <<call, registered, lostVars, tunnel, current, controller,
                         carriedVars, test, probes, failures, loadVars>>

\* The user tests the tunnel.
Test(e) ==
    /\ HasRuntime /\ registered = e /\ tests < load.tests
    /\ tests' = tests + 1
    /\ RunsProbe(e, test[e], current[e], failures[e])
    /\ UNCHANGED <<session, call, registered, lostVars, tunnel, current, controller,
                   carriedVars, failures, load, events>>

\* Mutant: a result is taken whenever its controller is still there.
AppliesToController(e, p) == Heeded(e) /\ p.controller = current[e]

\* applyProbeResult: the result is of the controller and of the time shown.
Applies(e, p) ==
    /\ Heeded(e)
    /\ p.controller = current[e] /\ p.generation = test[e].generation

\* A weaker result does not replace what real traffic has shown.
Weaker(e, verdict) == test[e].evidence /\ verdict = "unverified"

Shown(e, p, verdict) ==
    IF Weaker(e, verdict) THEN [test[e] EXCEPT !.state = test[e].last.verdict]
    ELSE [test[e] EXCEPT
             !.last = [verdict |-> verdict, controller |-> p.controller,
                       failures |-> p.failures],
             !.state = verdict, !.evidence = @ /\ verdict \notin {"limited", "failed"}]

\* What is shown is cleared of the promise that has returned.
Returned(t, p) == [t EXCEPT !.promise = IF @ = p THEN NoProbe ELSE @]

\* Mutant: the reconnect is cancelled and the state left as it is.
TimerCancelled(t) == [t EXCEPT !.timer = FALSE, !.attempt = 0]

\* A test that passes recovers the tunnel and cancels the reconnect.
Recovered(t) ==
    IF t.state \in {"failed", "port-conflict", "session-lost"}
    THEN [t EXCEPT !.timer = FALSE, !.attempt = 0, !.state = "healthy"]
    ELSE t

\* createProbeResult: the verdict is the worst of the stages.
Worst(statuses) == CHOOSE s \in statuses : \A q \in statuses : Rank[q] <= Rank[s]

\* The stages of a probe.  That of a local forward goes to the target, those of
\* the others tell only by earlier traffic that the rest of the way is there.
Stages(e, p, result) ==
    CASE result = "prohibited" -> {"passed", "limited", "unverified"}
      [] result = "failed"     -> {"passed", "failed", "unverified"}
      [] OTHER -> {"passed"} \cup
             IF load.kind = "local" \/ (p.controller = current[e] /\ carried[e])
             THEN {} ELSE {"unverified"}

\* The ways a probe can end.  A controller that was closed cancels its probes;
\* that of a remote forward only reaches the local target.
Results(e, p) ==
    LET open == controller[e][p.controller] = "open"
        cut  == session = "lost" /\ tunnel[e].state # "reconnecting"
        ok   == CASE load.kind = "local"   -> open /\ session # "lost"
                  [] load.kind = "dynamic" -> open
                  [] load.kind = "remote"  -> open \/ cut
    IN  {"failed"} \cup (IF ok THEN {"reached"} ELSE {})
                   \cup (IF ok /\ load.kind = "local" THEN {"prohibited"} ELSE {})

ProbeReturns(e, p, result) ==
    /\ p \in probes[e]
    /\ probes' = [probes EXCEPT ![e] = @ \ {p}]
    /\ carried' = [carried EXCEPT ![e] =
                      @ /\ (result # "failed" \/ p.controller # current[e])]
    /\ LET verdict == Worst(Stages(e, p, result))
       IN  IF Applies(e, p)
           THEN /\ test' = [test EXCEPT ![e] = Returned(Shown(e, p, verdict), p)]
                /\ tunnel' = [tunnel EXCEPT ![e] =
                                 IF verdict = "passed" THEN Recovered(@) ELSE @]
           ELSE /\ test' = [test EXCEPT ![e] = Returned(@, p)]
                /\ UNCHANGED tunnel
    /\ UNCHANGED <<session, call, registered, lostVars, current, controller, traffic,
                   failures, loadVars>>

-----------------------------------------------------------------------------
(* The events of a controller and the reconnect.                           *)

\* The evidence handler: what probes are under way is older.
Evident(e) ==
    LET t == [test[e] EXCEPT !.generation = @ + 1]
    IN  IF ~Heeded(e) THEN t
        ELSE [t EXCEPT !.state = "passed", !.evidence = TRUE,
                       !.last = [verdict |-> "passed", controller |-> current[e],
                                 failures |-> failures[e]]]

Reports(e) ==
    /\ tunnel[e].attached /\ controller[e][current[e]] = "open"
    /\ events < load.events /\ events' = events + 1

ControllerError(e, class) ==
    /\ Reports(e)
    /\ carried' = [carried EXCEPT ![e] = FALSE]
    /\ \E verdict \in ErrorVerdicts(class) : Failure(e, class, verdict)
    /\ UNCHANGED <<session, call, registered, lostVars, current, controller, traffic,
                   probes, load, tests>>

\* A connection goes through the tunnel: the controller says that it listens and,
\* but for a local forward, that there was traffic, a dynamic one once until the
\* next failure.
Traffic(e) ==
    LET evidence == load.kind = "remote" \/ (load.kind = "dynamic" /\ ~carried[e])
    IN  /\ Reports(e) /\ session = "up"
        /\ carried' = [carried EXCEPT ![e] = load.kind # "local"]
        /\ traffic' = [traffic EXCEPT ![e] =
                          [controller |-> current[e], failures |-> failures[e]]]
        /\ IF tunnel[e].state \in {"port-conflict", "session-lost"}
           THEN UNCHANGED <<tunnel, test>>
           ELSE /\ tunnel' = [tunnel EXCEPT ![e].state = "healthy", ![e].attempt = 0]
                /\ test' = [test EXCEPT ![e] = IF evidence THEN Evident(e) ELSE @]
        /\ UNCHANGED <<session, call, registered, lostVars, current, controller,
                       probes, failures, load, tests>>

\* The connection closes: listeners and sockets go with it.
ConnectionCloses ==
    /\ session = "up" /\ session' = "lost"
    /\ controller' = [e \in Entries |-> [k \in Numbers |->
                         IF controller[e][k] = "open" THEN "closed" ELSE controller[e][k]]]
    /\ IF registered # 0 /\ tunnel[registered].attached
       THEN Failure(registered, "session-lost", "failed")
       ELSE UNCHANGED <<tunnel, test, failures>>
    /\ carried' = [e \in Entries |-> FALSE]
    /\ UNCHANGED <<call, registered, lostVars, current, traffic, probes, loadVars>>

Closed(e, k) ==
    /\ controller[e][k] = "closing"
    /\ controller' = [controller EXCEPT ![e][k] = "closed"]
    /\ UNCHANGED <<session, call, registered, lostVars, tunnel, current, carriedVars,
                   test, probes, failures, loadVars>>

\* The timer of the reconnect fires.
Reconnect(e) ==
    /\ tunnel[e].timer
    /\ IF Heeded(e)
       THEN /\ tunnel' = [tunnel EXCEPT ![e] =
                             [@ EXCEPT !.timer = FALSE, !.state = "reconnecting",
                                       !.attached = FALSE, !.reconnect = "closing"]]
            /\ test' = [test EXCEPT ![e] = Invalidated(@)]
            /\ failures' = [failures EXCEPT ![e] = @ + 1]
            /\ controller' = Closing(e, current[e])
       ELSE /\ tunnel' = [tunnel EXCEPT ![e].timer = FALSE]
            /\ UNCHANGED <<test, failures, controller>>
    /\ UNCHANGED <<session, call, registered, lostVars, current, carriedVars, probes,
                   loadVars>>

\* The old controller is closed, or could not be: a new one is started, unless
\* the session has forgotten its connection, whatever happened to the tunnel.
StartAgain(e) ==
    /\ tunnel[e].reconnect = "closing" /\ controller[e][current[e]] = "closed"
    /\ IF HasRuntime
       THEN /\ tunnel' = [tunnel EXCEPT ![e].reconnect = "starting"]
            /\ controller' = [controller EXCEPT ![e][current[e] + 1] = "opening"]
            /\ UNCHANGED <<test, failures>>
       ELSE Failure(e, "failed", "failed") /\ UNCHANGED controller
    /\ UNCHANGED <<session, call, registered, lostVars, current, carriedVars, probes,
                   loadVars>>

\* Mutant: the reconnect does not look again.
NeverAbandoned(e) == FALSE

\* The reconnect was given up while it waited.
Abandoned(e) == tunnel[e].stopping \/ registered # e

Starting(e) == tunnel[e].reconnect = "starting"

\* The new controller is there.
Reconnected(e) ==
    /\ Starting(e)
    /\ LET new == current[e] + 1
       IN  IF Abandoned(e)
           THEN /\ controller' = [controller EXCEPT ![e][new] = "closing"]
                /\ tunnel' = [tunnel EXCEPT ![e].reconnect = "none"]
                /\ UNCHANGED <<current, carried, test, probes>>
           ELSE /\ controller' = [controller EXCEPT ![e][new] = "open"]
                /\ current' = [current EXCEPT ![e] = new]
                /\ carried' = [carried EXCEPT ![e] = FALSE]
                /\ tunnel' = [tunnel EXCEPT ![e] =
                                 [@ EXCEPT !.reconnect = "none", !.attempt = 0,
                                           !.attached = TRUE, !.state = "healthy"]]
                /\ RunsProbe(e, Swapped(test[e]), new, failures[e])
    /\ UNCHANGED <<session, call, registered, lostVars, traffic, failures, loadVars>>

ReconnectFails(e, class) ==
    /\ Starting(e)
    /\ controller' = [controller EXCEPT ![e][current[e] + 1] = "none"]
    /\ \E verdict \in ErrorVerdicts(class) : Failure(e, class, verdict)
    /\ UNCHANGED <<session, call, registered, lostVars, current, carriedVars, probes,
                   loadVars>>

-----------------------------------------------------------------------------
Classes == {"failed", "port-conflict", "session-lost"}

Opens(e) ==
    \/ StartOpens(e) \/ StartFails(e)
    \/ Reconnected(e) \/ \E class \in Classes : ReconnectFails(e, class)

Reconnects(e) == Reconnect(e) \/ StartAgain(e) \/ \E k \in Numbers : Closed(e, k)
Probed(e) ==
    \E p \in probes[e] : \E result \in Results(e, p) : ProbeReturns(e, p, result)

Next ==
    \/ Stop \/ Kill \/ ConnectionCloses
    \/ \E e \in Entries :
          \/ Start(e) \/ Test(e) \/ Traffic(e) \/ Opens(e) \/ Reconnects(e) \/ Probed(e)
          \/ \E class \in {"failed", "session-lost"} : ControllerError(e, class)

(***************************************************************************)
(* The timers fire, a listener or a forwarding request is answered, a      *)
(* close returns and so does a probe, which has a time-out.  Nothing says  *)
(* that the answer is good.                                                *)
(***************************************************************************)
Fairness ==
    \A e \in Entries : WF_vars(Opens(e)) /\ WF_vars(Reconnects(e)) /\ WF_vars(Probed(e))

Spec == Init /\ [][Next]_vars /\ Fairness

-----------------------------------------------------------------------------
\* A stop or closeAll of the session finds the entry.
Found(e) == registered = e /\ HasRuntime

\* A listener that nobody can close any more is only ever left by start, which
\* checks nothing after its await: an open controller is the present one of its
\* tunnel, and the tunnel is in the map of the session's runtime, where stop and
\* closeAll find it, or lost its place there to a start under way at the same
\* time, or was put by a start under way at the kill into the map of the runtime
\* that the session has forgotten.  Whatever reconnects, failures, stops and kills
\* do to each other leaves none (reconnect checks again when it has its new
\* controller).
OnlyStartsLeak ==
    \A e \in Entries : \A k \in Numbers : controller[e][k] = "open" =>
        /\ k = current[e]
        /\ Found(e) \/ e \in overwritten \cup forgotten

\* What a tunnel shows as its test was measured through its present controller
\* after its last failure: late probes are dropped (probeGeneration).  A test is
\* shown as passed only if the way to the target was gone: by the probe of a
\* local forward, by real traffic through the present controller since its last
\* failure for the others (trafficEvidencePassed, trafficEvidenceEmitted).
TestIsCurrent ==
    registered # 0 =>
        LET e   == registered
            now == [controller |-> current[e], failures |-> failures[e]]
        IN  /\ test[e].state \in Verdicts =>
                   /\ test[e].last.verdict = test[e].state
                   /\ test[e].last.controller = now.controller
                   /\ test[e].last.failures = now.failures
            /\ test[e].state = "passed" /\ load.kind # "local" => traffic[e] = now
            /\ test[e].evidence => test[e].last.verdict = "passed"

\* A test comes to a result, also one that meets a failure or a reconnect.
TestSettles ==
    \A e \in Entries :
        (registered = e /\ test[e].state = "testing") ~>
            (registered # e \/ test[e].state # "testing")

\* A tunnel that lost its session does not stay so: it is healthy again, or has
\* failed for good, or was stopped.
RecoveryEnds ==
    \A e \in Entries :
        (registered = e /\ tunnel[e].state \in Lost) ~>
            (registered # e \/ tunnel[e].state \notin Lost)
=============================================================================
