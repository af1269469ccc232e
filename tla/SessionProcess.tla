--------------------------- MODULE SessionProcess ---------------------------
(***************************************************************************)
(* The parent side of the session child processes                          *)
(* (app/server/session-process.js).  Every terminal, and every connection  *)
(* test, is a forked child that listens on a port of its own.  One call of *)
(* `terminal` reserves a port, forks, waits until the child listens, asks  *)
(* it for the session and makes it the active one of its pid, while later  *)
(* calls for the pid, aborts, closes and the end of the child interleave   *)
(* with every await.                                                       *)
(*                                                                         *)
(* A request is one call; requests of one pid are numbered in the order in *)
(* which they are made.  An entry is named by the request that created it. *)
(***************************************************************************)
EXTENDS Naturals, FiniteSets

CONSTANTS
    Requests,    \* the calls of terminal and of testConnection
    Tests,       \* those of testConnection
    Pids,        \* the ids of the sessions
    PidOf,       \* the session a request asks for
    MaxPort,     \* the ports are 1..MaxPort
    NoRequest

ASSUME RequestsAssumption ==
    /\ Requests \subseteq Nat \ {0}
    /\ Tests \subseteq Requests
    /\ PidOf \in [Requests -> Pids]
    /\ NoRequest \notin Requests
ASSUME PortAssumption == MaxPort \in Nat \ {0}

VARIABLES
    call,        \* where each request is
    awaits,      \* the entries whose close it waits for
    aborted,     \* its abort signal has fired
    child,       \* its process: none, up, listening, gone
    signal,      \* what was done to end it while it runs: none, ask, term, kill
    entry,       \* its entry: none, open, terminating, ended
    messages,    \* entry.pending: the messages the child has not answered
    portOf,      \* the port it reserved or listens on, 0 if it does neither
    holds,       \* the requests whose port is in pendingPorts
    active,      \* activeTerminals
    pending,     \* pendingTerminals
    latest,      \* latestTerminalRequests
    closing      \* closingTerminals: what a close in progress still waits for

callVars  == <<call, awaits, aborted>>
childVars == <<child, signal, entry, messages>>
portVars  == <<portOf, holds>>
pidVars   == <<active, pending, latest, closing>>
sessionVars == <<callVars, childVars, portVars, pidVars>>

Calls   == {"idle", "port", "closing", "ready", "create", "previous", "failing",
            "opened", "failed"}
PortIds == 1..MaxPort

SessionTypeOK ==
    /\ call \in [Requests -> Calls]
    /\ awaits \in [Requests -> SUBSET Requests]
    /\ aborted \in [Requests -> BOOLEAN]
    /\ child \in [Requests -> {"none", "up", "listening", "gone"}]
    /\ signal \in [Requests -> {"none", "ask", "term", "kill"}]
    /\ entry \in [Requests -> {"none", "open", "terminating", "ended"}]
    /\ messages \in [Requests -> SUBSET {"create", "command"}]
    /\ portOf \in [Requests -> 0..MaxPort]
    /\ holds \subseteq Requests
    /\ active \in [Pids -> Requests \cup {NoRequest}]
    /\ pending \in [Pids -> SUBSET Requests]
    /\ latest \in [Pids -> Requests \cup {NoRequest}]
    /\ closing \in [Pids -> SUBSET Requests]

SessionInit ==
    /\ call = [r \in Requests |-> "idle"]
    /\ awaits = [r \in Requests |-> {}]
    /\ aborted = [r \in Requests |-> FALSE]
    /\ child = [r \in Requests |-> "none"]
    /\ signal = [r \in Requests |-> "none"]
    /\ entry = [r \in Requests |-> "none"]
    /\ messages = [r \in Requests |-> {}]
    /\ portOf = [r \in Requests |-> 0]
    /\ holds = {}
    /\ active = [p \in Pids |-> NoRequest]
    /\ pending = [p \in Pids |-> {}]
    /\ latest = [p \in Pids |-> NoRequest]
    /\ closing = [p \in Pids |-> {}]

-----------------------------------------------------------------------------
Running(r) == child[r] \in {"up", "listening"}

\* Mutant: a port is not remembered between the search and the fork.
NotReserved(r) == {}

\* pendingPorts without the port of r, and the ports children listen on.
Taken(r) == {portOf[q] : q \in holds \ {r}}
Bound    == {portOf[q] : q \in {s \in Requests : child[s] = "listening"}}

\* Mutant: the token is unset, whoever's it is.
Unset(r) == [latest EXCEPT ![PidOf[r]] = 0]

IsLatest(r)  == latest[PidOf[r]] = r
Forget(r)    == [latest EXCEPT ![PidOf[r]] = IF @ = r THEN NoRequest ELSE @]
AllEnded(S)  == \A r \in S : entry[r] = "ended"
EntriesOf(p) == pending[p] \cup ({active[p]} \ {NoRequest})

\* closeEntry of a set of entries: the first close of an entry that has not
\* ended sends SIGTERM, every later one joins it.
CloseEntries(S) ==
    [r \in Requests |->
        IF r \in S /\ entry[r] \in {"open", "terminating"} /\ signal[r] = "none"
        THEN "term" ELSE signal[r]]

\* closeTerminal joins the close in progress, or closes what the pid has.
ClosingOf(p) == IF closing[p] = {} THEN EntriesOf(p) ELSE closing[p]

\* getTerminal returns the session of r.
Usable(r) == active[PidOf[r]] = r /\ entry[r] = "open" /\ signal[r] = "none"

\* The entry of r ends: what it waits for is rejected and the maps forget it.
Finalize(r) ==
    /\ entry' = [entry EXCEPT ![r] = "ended"]
    /\ messages' = [messages EXCEPT ![r] = {}]
    /\ pending' = [pending EXCEPT ![PidOf[r]] = @ \ {r}]
    /\ active' = [active EXCEPT ![PidOf[r]] = IF @ = r THEN NoRequest ELSE @]
    /\ latest' = Forget(r)
    /\ closing' = [closing EXCEPT ![PidOf[r]] = @ \ {r}]

\* Mutant: nobody hears that the child ended.
Unheard(r, phases) == UNCHANGED <<call, awaits, holds>>

\* What r waited for is rejected, if it is in one of the given awaits: terminal
\* closes its entry, testConnection is done.
Rejected(r, phases) ==
    IF call[r] \notin phases THEN UNCHANGED <<call, awaits, holds>>
    ELSE IF r \in Tests
         THEN /\ call' = [call EXCEPT ![r] = "failed"]
              /\ holds' = holds \ {r}
              /\ UNCHANGED awaits
         ELSE /\ call' = [call EXCEPT ![r] = "failing"]
              /\ awaits' = [awaits EXCEPT ![r] = {r}]
              /\ UNCHANGED holds

-----------------------------------------------------------------------------
(* The steps of terminal and testConnection.                               *)

\* Mutants: a call goes on though it was superseded, or though it was aborted.
StoppedByAbort(r) == r \notin Tests /\ aborted[r]
StoppedByLater(r) == r \notin Tests /\ ~IsLatest(r)

Stopped(r) == r \notin Tests /\ (aborted[r] \/ ~IsLatest(r))

\* The call is made: it becomes the latest of its pid and asks for a port.  The
\* search starts at a port nobody has reserved (which one, lastPort, is left out).
Start(r) ==
    /\ call[r] = "idle" /\ ~aborted[r]
    /\ \A q \in Requests : q < r /\ PidOf[q] = PidOf[r] => call[q] # "idle"
    /\ call' = [call EXCEPT ![r] = "port"]
    /\ latest' = IF r \in Tests THEN latest ELSE [latest EXCEPT ![PidOf[r]] = r]
    /\ \E candidate \in PortIds \ Taken(r) : portOf' = [portOf EXCEPT ![r] = candidate]
    /\ holds' = holds \cup {r}
    /\ UNCHANGED <<awaits, aborted, childVars, active, pending, closing>>

\* What find-free-port can answer to a search that starts at the candidate.
Finds(r, port) == call[r] = "port" /\ port >= portOf[r] /\ port \notin Bound

\* Another call holds the port it found: the search goes on elsewhere.
PortTaken(r, port) ==
    /\ Finds(r, port) /\ port \in Taken(r)
    /\ \E candidate \in PortIds \ Taken(r) : portOf' = [portOf EXCEPT ![r] = candidate]
    /\ UNCHANGED <<callVars, childVars, holds, pidVars>>

\* The call gives up before it has a child: its port and its token are freed.
GiveUp(r) ==
    /\ call' = [call EXCEPT ![r] = "failed"]
    /\ holds' = holds \ {r}
    /\ portOf' = [portOf EXCEPT ![r] = 0]
    /\ latest' = Forget(r)
    /\ UNCHANGED <<child, entry, pending>>

\* runSessionServer and createEntry, with the port that was found.
Fork(r, port) ==
    /\ portOf' = [portOf EXCEPT ![r] = port]
    /\ call' = [call EXCEPT ![r] = "ready"]
    /\ child' = [child EXCEPT ![r] = "up"]
    /\ entry' = [entry EXCEPT ![r] = "open"]
    /\ pending' = IF r \in Tests THEN pending
                  ELSE [pending EXCEPT ![PidOf[r]] = @ \cup {r}]
    /\ UNCHANGED <<holds, latest>>

\* The call has its port: it forks, or waits for the close of its pid first.
PortFound(r, port) ==
    /\ Finds(r, port) /\ port \notin Taken(r)
    /\ IF Stopped(r) THEN GiveUp(r) /\ UNCHANGED awaits
       ELSE IF r \in Tests \/ closing[PidOf[r]] = {}
            THEN Fork(r, port) /\ UNCHANGED awaits
            ELSE /\ portOf' = [portOf EXCEPT ![r] = port]
                 /\ call' = [call EXCEPT ![r] = "closing"]
                 /\ awaits' = [awaits EXCEPT ![r] = closing[PidOf[r]]]
                 /\ UNCHANGED <<holds, latest, child, entry, pending>>
    /\ UNCHANGED <<aborted, signal, messages, active, closing>>

\* find-free-port fails.
NoPort(r) ==
    /\ call[r] = "port"
    /\ GiveUp(r)
    /\ UNCHANGED <<awaits, aborted, signal, messages, active, closing>>

AfterClosing(r) ==
    /\ call[r] = "closing" /\ AllEnded(awaits[r])
    /\ awaits' = [awaits EXCEPT ![r] = {}]
    /\ IF Stopped(r) THEN GiveUp(r) ELSE Fork(r, portOf[r])
    /\ UNCHANGED <<aborted, signal, messages, active, closing>>

\* The child reports that it listens: the port it holds is released, and it is
\* asked for the session.  A child that was sent SIGKILL reports nothing.
ChildListens(r) ==
    /\ child[r] = "up" /\ signal[r] # "kill"
    /\ child' = [child EXCEPT ![r] = "listening"]
    /\ IF call[r] = "ready"
       THEN /\ call' = [call EXCEPT ![r] = "create"]
            /\ holds' = holds \ {r}
            /\ messages' = [messages EXCEPT ![r] = {"create"}]
       ELSE UNCHANGED <<call, holds, messages>>
    /\ UNCHANGED <<awaits, aborted, signal, entry, portOf, pidVars>>

Answers(r, message) == child[r] = "listening" /\ message \in messages[r]

\* Mutant: the entry it replaces is dropped from the map and left running.
RegisterOnly(r) ==
    /\ pending' = [pending EXCEPT ![PidOf[r]] = @ \ {r}]
    /\ active' = [active EXCEPT ![PidOf[r]] = r]
    /\ call' = [call EXCEPT ![r] = "opened"]
    /\ UNCHANGED <<signal, awaits>>

\* The session is there: its entry becomes the active one of the pid, and the
\* entry it replaces is closed.
Register(r) ==
    LET previous == active[PidOf[r]]
    IN  /\ pending' = [pending EXCEPT ![PidOf[r]] = @ \ {r}]
        /\ active' = [active EXCEPT ![PidOf[r]] = r]
        /\ signal' = CloseEntries({previous})
        /\ call' = [call EXCEPT ![r] =
                       IF previous = NoRequest THEN "opened" ELSE "previous"]
        /\ awaits' = [awaits EXCEPT ![r] = {previous} \ {NoRequest}]

Created(r) ==
    /\ r \notin Tests /\ Answers(r, "create")
    /\ messages' = [messages EXCEPT ![r] = {}]
    /\ IF Stopped(r)
       THEN /\ call' = [call EXCEPT ![r] = "failing"]
            /\ awaits' = [awaits EXCEPT ![r] = {r}]
            /\ signal' = CloseEntries({r})
            /\ UNCHANGED <<active, pending>>
       ELSE Register(r)
    /\ UNCHANGED <<aborted, child, entry, portVars, latest, closing>>

\* The child answers with an error, or with an identity that does not hold.
CreateFails(r) ==
    /\ r \notin Tests /\ Answers(r, "create")
    /\ messages' = [messages EXCEPT ![r] = {}]
    /\ call' = [call EXCEPT ![r] = "failing"]
    /\ awaits' = [awaits EXCEPT ![r] = {r}]
    /\ signal' = CloseEntries({r})
    /\ UNCHANGED <<aborted, child, entry, portVars, pidVars>>

\* The tested connection answers: its child is asked to end and forgotten.
Tested(r) ==
    /\ r \in Tests /\ Answers(r, "create")
    /\ signal' = [signal EXCEPT ![r] = "ask"]
    /\ Finalize(r)
    /\ \E result \in {"opened", "failed"} : call' = [call EXCEPT ![r] = result]
    /\ UNCHANGED <<awaits, aborted, child, portVars>>

PreviousClosed(r) ==
    /\ call[r] = "previous" /\ AllEnded(awaits[r])
    /\ call' = [call EXCEPT ![r] = "opened"]
    /\ awaits' = [awaits EXCEPT ![r] = {}]
    /\ UNCHANGED <<aborted, childVars, portVars, pidVars>>

FailureClosed(r) ==
    /\ call[r] = "failing" /\ AllEnded(awaits[r])
    /\ call' = [call EXCEPT ![r] = "failed"]
    /\ awaits' = [awaits EXCEPT ![r] = {}]
    /\ holds' = holds \ {r}
    /\ portOf' = [portOf EXCEPT ![r] = IF Running(r) THEN @ ELSE 0]
    /\ latest' = Forget(r)
    /\ UNCHANGED <<aborted, childVars, active, pending, closing>>

-----------------------------------------------------------------------------
(* What happens to a child.                                                *)

\* It exits, by itself or because of a signal.
ChildExits(r) ==
    /\ Running(r)
    /\ child' = [child EXCEPT ![r] = "gone"]
    /\ Finalize(r)
    /\ Rejected(r, {"ready", "create"})
    /\ signal' = [signal EXCEPT ![r] = "none"]
    /\ portOf' = [portOf EXCEPT ![r] = IF r \in holds' THEN @ ELSE 0]
    /\ UNCHANGED aborted

\* It reports an error, or its channel closes, though it still runs.
ChildErrors(r) ==
    /\ Running(r) /\ entry[r] = "open"
    /\ signal' = CloseEntries({r})
    /\ Rejected(r, {"ready", "create"})
    /\ IF r \in Tests THEN Finalize(r)
       ELSE /\ entry' = [entry EXCEPT ![r] = "terminating"]
            /\ messages' = [messages EXCEPT ![r] = {}]
            /\ UNCHANGED pidVars
    /\ UNCHANGED <<aborted, child, portOf>>

\* Mutant: the time-out sends SIGTERM again.
AsksAgain(r) ==
    /\ Running(r) /\ signal[r] = "term"
    /\ UNCHANGED sessionVars

\* It does not end on SIGTERM within CLOSE_TIMEOUT_MS.
CloseTimeout(r) ==
    /\ Running(r) /\ signal[r] = "term"
    /\ signal' = [signal EXCEPT ![r] = "kill"]
    /\ UNCHANGED <<callVars, child, entry, messages, portVars, pidVars>>

\* Nor is its end seen FORCE_KILL_WAIT_MS after SIGKILL: the close goes on.
ForceEnd(r) ==
    /\ Running(r) /\ signal[r] = "kill" /\ entry[r] # "ended"
    /\ Finalize(r)
    /\ Rejected(r, {"create"})
    /\ UNCHANGED <<aborted, child, signal, portOf>>

SessionNext ==
    \E r \in Requests :
        \/ \E port \in PortIds : PortTaken(r, port) \/ PortFound(r, port)
        \/ NoPort(r) \/ AfterClosing(r)
        \/ ChildListens(r) \/ Created(r) \/ CreateFails(r) \/ Tested(r)
        \/ PreviousClosed(r) \/ FailureClosed(r)
        \/ ChildExits(r) \/ ChildErrors(r) \/ CloseTimeout(r) \/ ForceEnd(r)
=============================================================================
