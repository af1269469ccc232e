----------------------- MODULE SessionProcess_proofs -----------------------
(***************************************************************************)
(* Lemmas about SessionProcess: what each step of a call or of a child     *)
(* does to its own request, what it leaves alone of the others, and that   *)
(* it keeps the invariant of the session processes.  FleetStatus_proofs    *)
(* draws the theorems from them.                                           *)
(***************************************************************************)
EXTENDS SessionProcess, TLAPS

(* An entry exists from the fork on; a child nobody told to end has its    *)
(* entry open, and one that runs on after its entry ended had SIGKILL,     *)
(* unless it is that of a test; only a call that awaits the session has a  *)
(* create message.                                                         *)
EntryFits(r) ==
    /\ (child[r] = "none") <=> (entry[r] = "none")
    /\ call[r] \in {"idle", "port", "closing"} => child[r] = "none"
    /\ Running(r) /\ signal[r] = "none" => entry[r] = "open"
    /\ Running(r) /\ entry[r] = "ended" /\ r \notin Tests => signal[r] = "kill"
    /\ "create" \in messages[r] => call[r] = "create"

(* A call keeps its port until its child listens on it. *)
PortFits(r) ==
    /\ call[r] \in {"port", "closing"} => r \in holds
    /\ child[r] = "up" /\ signal[r] = "none" => r \in holds /\ call[r] = "ready"

(* A child that was not told to end is found by its pid, or is tested; the *)
(* entry of a request that has a pid of its own is found until it ends.    *)
Found(r) == r \in EntriesOf(PidOf[r])
Alone(r) == r \notin Tests /\ \A q \in Requests \ {r} : PidOf[q] # PidOf[r]
FoundFits(r) ==
    /\ Running(r) /\ signal[r] = "none" =>
          Found(r) \/ (r \in Tests /\ call[r] \in {"ready", "create"})
    /\ Alone(r) /\ entry[r] \in {"open", "terminating"} => Found(r)

Fits(r) == EntryFits(r) /\ PortFits(r) /\ FoundFits(r)

(* PortsDistinct of two requests *)
UsesPort(r) ==
    \/ r \in holds /\ call[r] # "port"
    \/ child[r] = "listening" /\ signal[r] = "none"
PortsApart ==
    \A q, r \in Requests : q # r /\ UsesPort(q) /\ UsesPort(r) => portOf[q] # portOf[r]

(* The maps of a pid hold its own requests. *)
MapsFit ==
    \A p \in Pids : \A r \in EntriesOf(p) \cup closing[p] : r \in Requests /\ PidOf[r] = p

(* The requests of a pid are made in their order, and none was made after  *)
(* the latest.                                                             *)
OrderFits ==
    \A q, r \in Requests : PidOf[q] = PidOf[r] /\ q < r /\ call[q] = "idle" => call[r] = "idle"
LatestFits ==
    \A p \in Pids : latest[p] # NoRequest =>
        \A r \in Requests \ Tests : PidOf[r] = p /\ r > latest[p] => call[r] = "idle"

SessionInv ==
    /\ SessionTypeOK /\ PortsApart /\ MapsFit /\ OrderFits /\ LatestFits
    /\ \A r \in Requests : Fits(r)

---------------------------------------------------------------------------
(* What a step of one request leaves alone. *)

(* a child is told to end, if it was not before *)
Signals(q) == signal'[q] = signal[q] \/ (signal[q] = "none" /\ signal'[q] = "term")

(* what another request has stays, but for a signal to its child *)
Other(q) ==
    /\ call'[q] = call[q] /\ child'[q] = child[q] /\ entry'[q] = entry[q]
    /\ messages'[q] = messages[q] /\ portOf'[q] = portOf[q]
    /\ (q \in holds') <=> (q \in holds)
    /\ Signals(q)
    /\ Found(q) /\ Running(q) /\ signal'[q] = "none" => Found(q)'

(* the maps of the pid of r lose entries, or take that of r *)
OwnMaps(r) ==
    LET p == PidOf[r] IN
    /\ pending'[p] \subseteq pending[p] \cup {r} /\ closing'[p] \subseteq closing[p]
    /\ active'[p] \in {active[p], r, NoRequest}
OtherMaps(p) == pending'[p] = pending[p] /\ active'[p] = active[p] /\ closing'[p] = closing[p]

(* An entry that ended stays so, an entry is made only for a call that was *)
(* not aborted, and a call that has returned stays so.                     *)
Moves(r) ==
    /\ entry[r] = "ended" => entry'[r] = "ended"
    /\ entry[r] = "none" /\ entry'[r] # "none" =>
          r \in Tests \/ (~aborted[r] /\ call[r] \in {"port", "closing"})
    /\ call[r] \in {"opened", "failed"} => call'[r] = call[r]

(* A step of r's call or child, but the first: it keeps what holds of r    *)
(* and takes no port that is in use.                                       *)
StepOf(r) ==
    /\ Fits(r)'
    /\ \A q \in Requests \ {r} : Other(q)
    /\ OwnMaps(r) /\ \A p \in Pids \ {PidOf[r]} : OtherMaps(p)
    /\ call'[r] = "idle" <=> call[r] = "idle"
    /\ latest' = latest \/ latest' = Forget(r)
    /\ UsesPort(r)' => \/ UsesPort(r) /\ portOf'[r] = portOf[r]
                       \/ \A q \in Requests \ {r} : UsesPort(q) => portOf[q] # portOf'[r]
    /\ Moves(r) /\ aborted' = aborted

---------------------------------------------------------------------------
(* What holds of every other request still does. *)
LEMMA OthersFit ==
    ASSUME SessionTypeOK, RequestsAssumption, NEW q \in Requests, Fits(q), Other(q),
           Alone(q) /\ Found(q) => Found(q)'
    PROVE  Fits(q)'
<1>1. EntryFits(q)' /\ PortFits(q)'
  BY DEF Fits, EntryFits, PortFits, Other, Signals, Running
<1>2. FoundFits(q)'
  BY DEF Fits, FoundFits, Other, Signals, Running, Alone
<1>3. QED
  BY <1>1, <1>2 DEF Fits

(* A step of one request keeps the invariant. *)
LEMMA StepKeeps ==
    ASSUME SessionInv, SessionTypeOK', NEW r \in Requests, StepOf(r)
    PROVE  SessionInv'
<1>1. SessionTypeOK /\ RequestsAssumption
  BY RequestsAssumption DEF SessionInv
<1>2. ASSUME NEW q \in Requests PROVE Fits(q)'
  <2>1. CASE q = r
    BY <2>1 DEF StepOf
  <2>2. CASE q # r
    <3>1. Fits(q) /\ Other(q)
      BY <2>2 DEF SessionInv, StepOf
    <3>2. ASSUME Alone(q), Found(q) PROVE Found(q)'
      <4>1. PidOf[q] # PidOf[r] /\ PidOf[q] \in Pids
        BY <1>1, <2>2, <3>2 DEF Alone, RequestsAssumption
      <4>2. OtherMaps(PidOf[q])
        BY <4>1 DEF StepOf
      <4>3. QED
        BY <3>2, <4>2 DEF OtherMaps, Found, EntriesOf
    <3>3. QED
      BY <1>1, <3>1, <3>2, OthersFit
  <2>3. QED
    BY <2>1, <2>2
<1>3. PortsApart'
  <2>1. ASSUME NEW q \in Requests \ {r}, UsesPort(q)'
        PROVE  UsesPort(q) /\ portOf'[q] = portOf[q]
    BY <2>1 DEF StepOf, Other, Signals, UsesPort
  <2>2. ASSUME NEW q \in Requests \ {r}, UsesPort(q)', UsesPort(r)'
        PROVE  portOf'[q] # portOf'[r]
    BY <2>1, <2>2 DEF StepOf, SessionInv, PortsApart
  <2>3. ASSUME NEW q \in Requests \ {r}, NEW s \in Requests \ {r}, q # s,
               UsesPort(q)', UsesPort(s)'
        PROVE  portOf'[q] # portOf'[s]
    BY <2>1, <2>3 DEF SessionInv, PortsApart
  <2>4. QED
    BY <2>2, <2>3 DEF PortsApart
<1>4. MapsFit'
  <2>1. SUFFICES ASSUME NEW p \in Pids, NEW q \in (EntriesOf(p) \cup closing[p])'
                 PROVE  q \in Requests /\ PidOf[q] = p
    BY DEF MapsFit
  <2>2. CASE p # PidOf[r]
    BY <2>1, <2>2 DEF StepOf, OtherMaps, SessionInv, MapsFit, EntriesOf
  <2>3. CASE p = PidOf[r]
    BY <2>1, <2>3 DEF StepOf, OwnMaps, SessionInv, MapsFit, EntriesOf
  <2>4. QED
    BY <2>2, <2>3
<1>5. \A q \in Requests : call'[q] = "idle" <=> call[q] = "idle"
  BY DEF StepOf, Other
<1>6. OrderFits'
  BY <1>5 DEF SessionInv, OrderFits
<1>7. LatestFits'
  <2>1. ASSUME NEW p \in Pids PROVE latest'[p] \in {latest[p], NoRequest}
    BY <1>1 DEF StepOf, Forget, SessionTypeOK, RequestsAssumption
  <2>2. QED
    BY <1>5, <2>1 DEF SessionInv, LatestFits
<1>8. QED
  BY <1>2, <1>3, <1>4, <1>6, <1>7 DEF SessionInv

---------------------------------------------------------------------------
(* Types. *)

(* closeEntry changes signals only, and those only to SIGTERM. *)
LEMMA CloseSignals ==
    ASSUME SessionTypeOK, NEW S, signal' = CloseEntries(S)
    PROVE  /\ signal' \in [Requests -> {"none", "ask", "term", "kill"}]
           /\ \A q \in Requests : Signals(q)
           /\ \A q \in Requests : q \in S /\ entry[q] \in {"open", "terminating"} =>
                  signal'[q] # "none"
BY DEF SessionTypeOK, CloseEntries, Signals

(* The end of an entry keeps the types. *)
LEMMA FinalizeTyped ==
    ASSUME SessionTypeOK, RequestsAssumption, NEW r \in Requests, Finalize(r)
    PROVE  /\ entry' \in [Requests -> {"none", "open", "terminating", "ended"}]
           /\ messages' \in [Requests -> SUBSET {"create", "command"}]
           /\ active' \in [Pids -> Requests \cup {NoRequest}]
           /\ pending' \in [Pids -> SUBSET Requests]
           /\ latest' \in [Pids -> Requests \cup {NoRequest}]
           /\ closing' \in [Pids -> SUBSET Requests]
<1>1. /\ entry' \in [Requests -> {"none", "open", "terminating", "ended"}]
      /\ messages' \in [Requests -> SUBSET {"create", "command"}]
  BY DEF SessionTypeOK, Finalize
<1>2. PidOf[r] \in Pids
  BY DEF RequestsAssumption
<1>3. active' \in [Pids -> Requests \cup {NoRequest}]
  BY <1>2 DEF SessionTypeOK, Finalize
<1>4. pending' \in [Pids -> SUBSET Requests]
  BY <1>2 DEF SessionTypeOK, Finalize
<1>5. latest' \in [Pids -> Requests \cup {NoRequest}]
  BY <1>2 DEF SessionTypeOK, Finalize, Forget
<1>6. closing' \in [Pids -> SUBSET Requests]
  BY <1>2 DEF SessionTypeOK, Finalize
<1>7. QED
  BY <1>1, <1>3, <1>4, <1>5, <1>6

(* So does a rejection. *)
LEMMA RejectedTyped ==
    ASSUME SessionTypeOK, NEW r \in Requests, NEW phases, Rejected(r, phases)
    PROVE  /\ call' \in [Requests -> Calls]
           /\ awaits' \in [Requests -> SUBSET Requests]
           /\ holds' \subseteq Requests
BY DEF SessionTypeOK, Rejected, Calls

(* Every step of a call or a child keeps every variable in its set. *)
LEMMA TypeMoves ==
    ASSUME SessionTypeOK, RequestsAssumption, PortAssumption,
       SessionNext \/ \E r \in Requests : Start(r)
    PROVE  SessionTypeOK'
<1> USE DEF SessionTypeOK, Calls, PortIds, callVars, childVars, portVars, pidVars
<1>0. PidOf \in [Requests -> Pids] /\ MaxPort \in Nat
  BY DEF RequestsAssumption, PortAssumption
<1>1. ASSUME NEW r \in Requests, Start(r) PROVE SessionTypeOK'
  <2>1. latest' \in [Pids -> Requests \cup {NoRequest}]
    BY <1>0, <1>1 DEF Start
  <2>2. portOf' \in [Requests -> 0..MaxPort]
    BY <1>0, <1>1 DEF Start
  <2>3. QED
    BY <1>1, <2>1, <2>2 DEF Start
<1>2. ASSUME NEW r \in Requests, NEW port \in PortIds, PortTaken(r, port) PROVE SessionTypeOK'
  BY <1>0, <1>2 DEF PortTaken
<1>3. ASSUME NEW r \in Requests, GiveUp(r)
      PROVE  /\ call' \in [Requests -> Calls] /\ holds' \subseteq Requests
             /\ portOf' \in [Requests -> 0..MaxPort]
             /\ latest' \in [Pids -> Requests \cup {NoRequest}]
             /\ UNCHANGED <<child, entry, pending>>
  BY <1>0, <1>3 DEF GiveUp, Forget
<1>4. ASSUME NEW r \in Requests, NEW port \in PortIds, Fork(r, port)
      PROVE  /\ call' \in [Requests -> Calls] /\ UNCHANGED <<holds, latest>>
             /\ portOf' \in [Requests -> 0..MaxPort]
             /\ child' \in [Requests -> {"none", "up", "listening", "gone"}]
             /\ entry' \in [Requests -> {"none", "open", "terminating", "ended"}]
             /\ pending' \in [Pids -> SUBSET Requests]
  <2>1. pending' \in [Pids -> SUBSET Requests]
    BY <1>0, <1>4 DEF Fork
  <2>2. QED
    BY <1>0, <1>4, <2>1 DEF Fork
<1>5. ASSUME NEW r \in Requests, NEW port \in PortIds, PortFound(r, port) PROVE SessionTypeOK'
  <2>1. UNCHANGED <<aborted, signal, messages, active, closing>>
    BY <1>5 DEF PortFound
  <2>2. CASE GiveUp(r) /\ UNCHANGED awaits
    BY <1>3, <2>1, <2>2
  <2>3. CASE Fork(r, port) /\ UNCHANGED awaits
    BY <1>4, <2>1, <2>3
  <2>4. CASE /\ portOf' = [portOf EXCEPT ![r] = port]
             /\ call' = [call EXCEPT ![r] = "closing"]
             /\ awaits' = [awaits EXCEPT ![r] = closing[PidOf[r]]]
             /\ UNCHANGED <<holds, latest, child, entry, pending>>
    BY <1>0, <2>1, <2>4
  <2>5. QED
    BY <1>5, <2>2, <2>3, <2>4 DEF PortFound
<1>6. ASSUME NEW r \in Requests, NoPort(r) PROVE SessionTypeOK'
  BY <1>3, <1>6 DEF NoPort
<1>7. ASSUME NEW r \in Requests, AfterClosing(r) PROVE SessionTypeOK'
  <2>1. UNCHANGED <<aborted, signal, messages, active, closing>>
        /\ awaits' \in [Requests -> SUBSET Requests]
    BY <1>7 DEF AfterClosing
  <2>2. CASE GiveUp(r)
    BY <1>3, <2>1, <2>2
  <2>3. CASE Fork(r, portOf[r])
    <3>1. /\ UNCHANGED <<holds, latest>> /\ call' \in [Requests -> Calls]
          /\ child' \in [Requests -> {"none", "up", "listening", "gone"}]
          /\ entry' \in [Requests -> {"none", "open", "terminating", "ended"}]
          /\ portOf' \in [Requests -> 0..MaxPort]
      BY <1>0, <2>3 DEF Fork
    <3>2. pending' \in [Pids -> SUBSET Requests]
      BY <1>0, <2>3 DEF Fork
    <3>3. QED
      BY <2>1, <3>1, <3>2
  <2>4. QED
    BY <1>7, <2>2, <2>3 DEF AfterClosing
<1>8. ASSUME NEW r \in Requests, ChildListens(r) PROVE SessionTypeOK'
  <2>1. /\ call' \in [Requests -> Calls]
        /\ holds' \subseteq Requests
    BY <1>8 DEF ChildListens
  <2>2. messages' \in [Requests -> SUBSET {"create", "command"}]
    BY <1>8 DEF ChildListens
  <2>3. child' \in [Requests -> {"none", "up", "listening", "gone"}]
        /\ UNCHANGED <<awaits, aborted, signal, entry, portOf, pidVars>>
    BY <1>8 DEF ChildListens
  <2>4. QED
    BY <2>1, <2>2, <2>3
<1>9. ASSUME NEW r \in Requests, Created(r) PROVE SessionTypeOK'
  <2>1. UNCHANGED <<aborted, child, entry, portOf, holds, latest, closing>>
        /\ messages' \in [Requests -> SUBSET {"create", "command"}]
    BY <1>9 DEF Created
  <2>2. CASE Stopped(r)
    <3>1. signal' \in [Requests -> {"none", "ask", "term", "kill"}]
      BY <1>9, <2>2, CloseSignals DEF Created
    <3>2. /\ call' \in [Requests -> Calls]
          /\ awaits' \in [Requests -> SUBSET Requests]
          /\ UNCHANGED <<active, pending>>
      BY <1>9, <2>2 DEF Created
    <3>3. QED
      BY <2>1, <3>1, <3>2
  <2>3. CASE Register(r)
    <3>1. signal' \in [Requests -> {"none", "ask", "term", "kill"}]
      BY <2>3, CloseSignals DEF Register
    <3>2. /\ pending' \in [Pids -> SUBSET Requests]
          /\ active' \in [Pids -> Requests \cup {NoRequest}]
      BY <1>0, <2>3 DEF Register
    <3>3. active[PidOf[r]] \in Requests \cup {NoRequest}
      BY <1>0
    <3>4. call' \in [Requests -> Calls] /\ awaits' \in [Requests -> SUBSET Requests]
      BY <2>3, <3>3 DEF Register
    <3>5. QED
      BY <2>1, <3>1, <3>2, <3>4
  <2>4. QED
    BY <1>9, <2>2, <2>3 DEF Created
<1>10. ASSUME NEW r \in Requests, CreateFails(r) PROVE SessionTypeOK'
  <2>1. signal' \in [Requests -> {"none", "ask", "term", "kill"}]
    BY <1>10, CloseSignals DEF CreateFails
  <2>2. QED
    BY <1>10, <2>1 DEF CreateFails
<1>11. ASSUME NEW r \in Requests, Tested(r) PROVE SessionTypeOK'
  BY <1>11, FinalizeTyped DEF Tested
<1>12. ASSUME NEW r \in Requests, PreviousClosed(r) PROVE SessionTypeOK'
  BY <1>12 DEF PreviousClosed
<1>13. ASSUME NEW r \in Requests, FailureClosed(r) PROVE SessionTypeOK'
  <2>1. latest' \in [Pids -> Requests \cup {NoRequest}]
    BY <1>0, <1>13 DEF FailureClosed, Forget
  <2>2. portOf' \in [Requests -> 0..MaxPort]
    BY <1>0, <1>13 DEF FailureClosed
  <2>3. QED
    BY <1>13, <2>1, <2>2 DEF FailureClosed
<1>14. ASSUME NEW r \in Requests, ChildExits(r) PROVE SessionTypeOK'
  <2>1. portOf' \in [Requests -> 0..MaxPort]
    BY <1>0, <1>14 DEF ChildExits
  <2>2. Finalize(r) /\ Rejected(r, {"ready", "create"}) /\ aborted' = aborted
        /\ child' \in [Requests -> {"none", "up", "listening", "gone"}]
        /\ signal' \in [Requests -> {"none", "ask", "term", "kill"}]
    BY <1>14 DEF ChildExits
  <2>3. QED
    BY <2>1, <2>2, FinalizeTyped, RejectedTyped
<1>15. ASSUME NEW r \in Requests, ChildErrors(r) PROVE SessionTypeOK'
  <2>1. signal' \in [Requests -> {"none", "ask", "term", "kill"}]
    BY <1>15, CloseSignals DEF ChildErrors
  <2>2. Rejected(r, {"ready", "create"}) /\ UNCHANGED <<aborted, child, portOf>>
    BY <1>15 DEF ChildErrors
  <2>3. CASE r \in Tests
    BY <1>15, <2>1, <2>2, <2>3, FinalizeTyped, RejectedTyped DEF ChildErrors
  <2>4. CASE r \notin Tests
    <3>1. /\ call' \in [Requests -> Calls]
          /\ awaits' \in [Requests -> SUBSET Requests]
          /\ holds' \subseteq Requests
      BY <2>2, RejectedTyped
    <3>2. /\ entry' \in [Requests -> {"none", "open", "terminating", "ended"}]
          /\ messages' \in [Requests -> SUBSET {"create", "command"}]
          /\ UNCHANGED pidVars
      BY <1>15, <2>4 DEF ChildErrors
    <3>3. QED
      BY <2>1, <2>2, <3>1, <3>2
  <2>5. QED
    BY <2>3, <2>4
<1>16. ASSUME NEW r \in Requests, CloseTimeout(r) PROVE SessionTypeOK'
  BY <1>16 DEF CloseTimeout
<1>17. ASSUME NEW r \in Requests, ForceEnd(r) PROVE SessionTypeOK'
  BY <1>17, FinalizeTyped, RejectedTyped DEF ForceEnd
<1>18. QED
  BY <1>1, <1>2, <1>5, <1>6, <1>7, <1>8, <1>9, <1>10, <1>11, <1>12, <1>13, <1>14, <1>15, <1>16,
     <1>17 DEF SessionNext

---------------------------------------------------------------------------
(* The steps of a call. *)

(* The end of an entry concerns one request. *)
LEMMA FinalizeEffect ==
    ASSUME SessionTypeOK, RequestsAssumption, NEW r \in Requests, Finalize(r)
    PROVE  /\ entry'[r] = "ended" /\ messages'[r] = {}
           /\ \A q \in Requests \ {r} : /\ entry'[q] = entry[q] /\ messages'[q] = messages[q]
                                        /\ Found(q) => Found(q)'
           /\ OwnMaps(r) /\ (\A p \in Pids \ {PidOf[r]} : OtherMaps(p)) /\ latest' = Forget(r)
<1>1. PidOf[r] \in Pids /\ \A q \in Requests : PidOf[q] \in Pids
  BY DEF RequestsAssumption
<1>2. /\ entry'[r] = "ended" /\ messages'[r] = {} /\ latest' = Forget(r)
      /\ \A q \in Requests \ {r} : entry'[q] = entry[q] /\ messages'[q] = messages[q]
  BY DEF Finalize, SessionTypeOK
<1>3. OwnMaps(r)
  BY <1>1 DEF Finalize, SessionTypeOK, OwnMaps
<1>4. \A p \in Pids \ {PidOf[r]} : OtherMaps(p)
  BY <1>1 DEF Finalize, SessionTypeOK, OtherMaps
<1>5. ASSUME NEW q \in Requests \ {r}, Found(q) PROVE Found(q)'
  <2>1. /\ \A p \in Pids : pending[p] \ {r} \subseteq pending'[p]
        /\ \A p \in Pids : active[p] = q => active'[p] = q
    BY <1>1, <1>5 DEF Finalize, SessionTypeOK
  <2>2. QED
    BY <1>1, <1>5, <2>1 DEF Found, EntriesOf
<1>6. QED
  BY <1>2, <1>3, <1>4, <1>5

(* So does a rejection: it is the end of a test, and terminal closes. *)
LEMMA RejectedEffect ==
    ASSUME SessionTypeOK, NEW r \in Requests, NEW phases, Rejected(r, phases)
    PROVE  /\ \A q \in Requests \ {r} : /\ call'[q] = call[q]
                                        /\ (q \in holds') <=> (q \in holds)
           /\ call[r] \notin phases => UNCHANGED <<call, holds>>
           /\ call[r] \in phases => call'[r] \in {"failed", "failing"}
           /\ call[r] \in phases /\ r \in Tests => call'[r] = "failed"
           /\ r \in holds' => r \in holds
BY DEF SessionTypeOK, Rejected

(* A call that gives up has no child. *)
LEMMA GiveUpStep ==
    ASSUME SessionInv, RequestsAssumption, NEW r \in Requests, GiveUp(r),
           call[r] \in {"port", "closing"},
           UNCHANGED <<aborted, signal, messages, active, closing>>
    PROVE  StepOf(r)
<1>1. SessionTypeOK /\ Fits(r) /\ PidOf[r] \in Pids
  BY DEF SessionInv, RequestsAssumption
<1>2. child[r] = "none" /\ entry[r] = "none" /\ "create" \notin messages[r]
  BY <1>1 DEF Fits, EntryFits
<1>3. call'[r] = "failed" /\ child' = child /\ entry' = entry /\ pending' = pending
  BY <1>1 DEF GiveUp, SessionTypeOK
<1>4. Fits(r)'
  BY <1>2, <1>3 DEF Fits, EntryFits, PortFits, FoundFits, Running
<1>5. ASSUME NEW q \in Requests \ {r} PROVE Other(q)
  BY <1>1, <1>5 DEF GiveUp, SessionTypeOK, Other, Signals, Found, EntriesOf
<1>6. OwnMaps(r) /\ \A p \in Pids \ {PidOf[r]} : OtherMaps(p)
  BY <1>3 DEF OwnMaps, OtherMaps
<1>7. Moves(r) /\ latest' = Forget(r) /\ ~UsesPort(r)'
  BY <1>2, <1>3 DEF Moves, GiveUp, UsesPort
<1>8. QED
  BY <1>3, <1>4, <1>5, <1>6, <1>7 DEF StepOf

(* A call that forks has an entry its pid finds, unless it is a test. *)
LEMMA ForkStep ==
    ASSUME SessionInv, RequestsAssumption, NEW r \in Requests, NEW port, Fork(r, port),
           call[r] \in {"port", "closing"}, r \in Tests \/ ~aborted[r],
           \A q \in Requests \ {r} : UsesPort(q) => portOf[q] # port,
           UNCHANGED <<aborted, signal, messages, active, closing>>
    PROVE  StepOf(r)
<1>1. SessionTypeOK /\ Fits(r) /\ PidOf[r] \in Pids /\ r \in holds
  BY DEF SessionInv, RequestsAssumption, Fits, PortFits
<1>2. child[r] = "none" /\ entry[r] = "none" /\ "create" \notin messages[r]
  BY <1>1 DEF Fits, EntryFits
<1>3. /\ call'[r] = "ready" /\ child'[r] = "up" /\ entry'[r] = "open" /\ portOf'[r] = port
      /\ holds' = holds /\ latest' = latest
  BY <1>1 DEF Fork, SessionTypeOK
<1>4. r \notin Tests => Found(r)'
  BY <1>1 DEF Fork, SessionTypeOK, Found, EntriesOf
<1>5. Fits(r)'
  BY <1>1, <1>2, <1>3, <1>4 DEF Fits, EntryFits, PortFits, FoundFits, Running, Alone
<1>6. ASSUME NEW q \in Requests \ {r} PROVE Other(q)
  <2>1. Found(q) => Found(q)'
    BY <1>1 DEF Fork, SessionTypeOK, Found, EntriesOf, RequestsAssumption
  <2>2. QED
    BY <1>1, <1>6, <2>1 DEF Fork, SessionTypeOK, Other, Signals
<1>7. OwnMaps(r) /\ \A p \in Pids \ {PidOf[r]} : OtherMaps(p)
  BY <1>1 DEF Fork, SessionTypeOK, OwnMaps, OtherMaps
<1>8. Moves(r)
  BY <1>2 DEF Moves
<1>9. QED
  BY <1>3, <1>5, <1>6, <1>7, <1>8 DEF StepOf

(* A port that another call holds is looked for again. *)
LEMMA PortTakenStep ==
    ASSUME SessionInv, NEW r \in Requests, NEW port \in PortIds, PortTaken(r, port)
    PROVE  StepOf(r)
<1>1. SessionTypeOK /\ Fits(r) /\ call[r] = "port"
  BY DEF SessionInv, PortTaken, Finds
<1>2. UNCHANGED <<callVars, childVars, holds, pidVars>>
      /\ \A q \in Requests \ {r} : portOf'[q] = portOf[q]
  BY <1>1 DEF PortTaken, SessionTypeOK
<1>3. Fits(r)' /\ ~UsesPort(r)'
  BY <1>1, <1>2 DEF Fits, EntryFits, PortFits, FoundFits, Running, UsesPort, Found, EntriesOf,
     Alone,
     callVars, childVars, pidVars
<1>4. ASSUME NEW q \in Requests \ {r} PROVE Other(q)
  BY <1>2 DEF Other, Signals, Found, EntriesOf, callVars, childVars, pidVars
<1>5. QED
  BY <1>2, <1>3, <1>4 DEF StepOf, OwnMaps, OtherMaps, Moves, callVars, childVars, pidVars

(* The port that was found is in use by nobody, whether the call goes on, *)
(* waits or gives up.                                                      *)
LEMMA PortFoundStep ==
    ASSUME SessionInv, RequestsAssumption, NEW r \in Requests, NEW port \in PortIds,
           PortFound(r, port)
    PROVE  StepOf(r)
<1>1. SessionTypeOK /\ Fits(r) /\ call[r] = "port" /\ PidOf[r] \in Pids
      /\ UNCHANGED <<aborted, signal, messages, active, closing>>
  BY DEF SessionInv, PortFound, Finds, RequestsAssumption
<1>2. \A q \in Requests \ {r} : UsesPort(q) => portOf[q] # port
  BY DEF PortFound, Finds, Taken, Bound, UsesPort
<1>3. CASE Stopped(r)
  BY <1>1, <1>3, GiveUpStep DEF PortFound
<1>4. CASE ~Stopped(r) /\ (r \in Tests \/ closing[PidOf[r]] = {})
  <2>1. Fork(r, port) /\ (r \in Tests \/ ~aborted[r])
    BY <1>4 DEF PortFound, Stopped
  <2>2. QED
    BY <1>1, <1>2, <2>1, ForkStep
<1>5. CASE ~Stopped(r) /\ ~(r \in Tests \/ closing[PidOf[r]] = {})
  <2>1. /\ portOf' = [portOf EXCEPT ![r] = port] /\ call' = [call EXCEPT ![r] = "closing"]
        /\ UNCHANGED <<holds, latest, child, entry, pending>>
    BY <1>5 DEF PortFound
  <2>2. call'[r] = "closing" /\ portOf'[r] = port
        /\ \A q \in Requests \ {r} : call'[q] = call[q] /\ portOf'[q] = portOf[q]
    BY <1>1, <2>1 DEF SessionTypeOK
  <2>3. Fits(r)'
    BY <1>1, <2>1, <2>2 DEF Fits, EntryFits, PortFits, FoundFits, Running
  <2>4. ASSUME NEW q \in Requests \ {r} PROVE Other(q)
    BY <1>1, <2>1, <2>2 DEF Other, Signals, Found, EntriesOf
  <2>5. QED
    BY <1>1, <1>2, <2>1, <2>2, <2>3, <2>4 DEF StepOf, OwnMaps, OtherMaps, Moves
<1>6. QED
  BY <1>3, <1>4, <1>5

(* A call that waited for a close forks with the port it still holds. *)
LEMMA AfterClosingStep ==
    ASSUME SessionInv, RequestsAssumption, NEW r \in Requests, AfterClosing(r)
    PROVE  StepOf(r)
<1>1. SessionTypeOK /\ Fits(r) /\ call[r] = "closing"
      /\ UNCHANGED <<aborted, signal, messages, active, closing>>
  BY DEF SessionInv, AfterClosing
<1>2. CASE Stopped(r)
  BY <1>1, <1>2, GiveUpStep DEF AfterClosing
<1>3. CASE ~Stopped(r)
  <2>1. Fork(r, portOf[r]) /\ (r \in Tests \/ ~aborted[r])
    BY <1>3 DEF AfterClosing, Stopped
  <2>2. UsesPort(r)
    BY <1>1 DEF Fits, PortFits, UsesPort
  <2>3. \A q \in Requests \ {r} : UsesPort(q) => portOf[q] # portOf[r]
    BY <2>2 DEF SessionInv, PortsApart
  <2>4. QED
    BY <1>1, <2>1, <2>3, ForkStep
<1>4. QED
  BY <1>2, <1>3

(* find-free-port fails. *)
LEMMA NoPortStep ==
    ASSUME SessionInv, RequestsAssumption, NEW r \in Requests, NoPort(r)
    PROVE  StepOf(r)
BY GiveUpStep DEF NoPort

(* The child listens on the port its call held. *)
LEMMA ChildListensStep ==
    ASSUME SessionInv, RequestsAssumption, NEW r \in Requests, ChildListens(r)
    PROVE  StepOf(r)
<1>1. SessionTypeOK /\ Fits(r) /\ child[r] = "up" /\ child'[r] = "listening"
      /\ UNCHANGED <<awaits, aborted, signal, entry, portOf, active, pending, latest, closing>>
  BY DEF SessionInv, ChildListens, SessionTypeOK, pidVars
<1>2. Found(r)' <=> Found(r)
  BY <1>1 DEF Found, EntriesOf
<1>3. CASE call[r] = "ready"
  <2>1. call'[r] = "create" /\ messages'[r] = {"create"}
    BY <1>1, <1>3 DEF ChildListens, SessionTypeOK
  <2>2. Fits(r)'
    BY <1>1, <1>2, <1>3, <2>1 DEF Fits, EntryFits, PortFits, FoundFits, Running, Alone
  <2>3. UsesPort(r)' => UsesPort(r)
    BY <1>1, <1>3 DEF Fits, PortFits, UsesPort, ChildListens
  <2>4. QED
    BY <1>1, <1>3, <2>1, <2>2, <2>3 DEF ChildListens, SessionTypeOK, StepOf, Other, Signals,
       Found, EntriesOf, OwnMaps, OtherMaps, Moves
<1>4. CASE call[r] # "ready"
  <2>1. UNCHANGED <<call, holds, messages>>
    BY <1>4 DEF ChildListens
  <2>2. Fits(r)'
    BY <1>1, <1>2, <1>4, <2>1 DEF Fits, EntryFits, PortFits, FoundFits, Running, Alone
  <2>3. UsesPort(r)' => UsesPort(r)
    BY <1>1, <1>4, <2>1 DEF Fits, PortFits, UsesPort
  <2>4. QED
    BY <1>1, <2>1, <2>2, <2>3 DEF ChildListens, SessionTypeOK, StepOf, Other, Signals,
       Found, EntriesOf, OwnMaps, OtherMaps, Moves
<1>5. QED
  BY <1>3, <1>4

(* A call that fails with a child closes the child's entry. *)
LEMMA FailingStep ==
    ASSUME SessionInv, RequestsAssumption, NEW r \in Requests, r \notin Tests, Answers(r,
       "create"),
           messages' = [messages EXCEPT ![r] = {}], call' = [call EXCEPT ![r] = "failing"],
           signal' = CloseEntries({r}),
           UNCHANGED <<aborted, child, entry, portOf, holds, active, pending, latest, closing>>
    PROVE  StepOf(r)
<1>1. SessionTypeOK /\ Fits(r) /\ call[r] = "create" /\ child[r] = "listening"
  BY DEF SessionInv, Answers, Fits, EntryFits
<1>2. /\ \A q \in Requests : Signals(q)
      /\ entry[r] \in {"open", "terminating"} => signal'[r] # "none"
  BY <1>1, CloseSignals
<1>3. call'[r] = "failing" /\ messages'[r] = {}
  BY <1>1 DEF SessionTypeOK
<1>4. Fits(r)'
  BY <1>1, <1>2, <1>3 DEF Fits, EntryFits, PortFits, FoundFits, Running, Alone, Found,
     EntriesOf,
     Signals
<1>5. ASSUME NEW q \in Requests \ {r} PROVE Other(q)
  BY <1>1, <1>2 DEF SessionTypeOK, Other, Found, EntriesOf
<1>6. UsesPort(r)' => UsesPort(r)
  BY <1>1, <1>2 DEF UsesPort, Signals
<1>7. QED
  BY <1>1, <1>3, <1>4, <1>5, <1>6 DEF StepOf, OwnMaps, OtherMaps, Moves

(* A session that is there becomes the one of its pid, and the one it      *)
(* replaces is told to end.                                                *)
LEMMA RegisterStep ==
    ASSUME SessionInv, RequestsAssumption, NEW r \in Requests, r \notin Tests, Answers(r,
       "create"),
           messages' = [messages EXCEPT ![r] = {}], Register(r),
           UNCHANGED <<aborted, child, entry, portOf, holds, latest, closing>>
    PROVE  StepOf(r)
<1>1. SessionTypeOK /\ Fits(r) /\ call[r] = "create" /\ child[r] = "listening"
      /\ PidOf[r] \in Pids
  BY DEF SessionInv, Answers, Fits, EntryFits, RequestsAssumption
<1>2. signal' = CloseEntries({active[PidOf[r]]})
  BY DEF Register
<1>3. /\ \A q \in Requests : Signals(q)
      /\ \A q \in Requests : q = active[PidOf[r]] /\ entry[q] \in {"open", "terminating"} =>
             signal'[q] # "none"
  BY <1>1, <1>2, CloseSignals
<1>4. call'[r] \in {"opened", "previous"} /\ messages'[r] = {} /\ active'[PidOf[r]] = r
      /\ \A q \in Requests \ {r} : call'[q] = call[q] /\ messages'[q] = messages[q]
  BY <1>1 DEF SessionTypeOK, Register
<1>5. Found(r)'
  BY <1>4 DEF Found, EntriesOf, RequestsAssumption
<1>6. Fits(r)'
  BY <1>1, <1>3, <1>4, <1>5 DEF Fits, EntryFits, PortFits, FoundFits, Running, Signals
<1>7. ASSUME NEW q \in Requests \ {r}, Found(q), Running(q), signal'[q] = "none" PROVE Found(q)'
  <2>1. entry[q] = "open" /\ PidOf[q] \in Pids
    BY <1>3, <1>7 DEF SessionInv, Fits, EntryFits, Signals, RequestsAssumption
  <2>2. q # active[PidOf[r]]
    BY <1>3, <1>7, <2>1
  <2>3. CASE PidOf[q] = PidOf[r]
    <3>1. q \in pending[PidOf[q]]
      BY <1>7, <2>2, <2>3 DEF Found, EntriesOf
    <3>2. q \in pending'[PidOf[q]]
      BY <1>1, <1>7, <2>1, <3>1 DEF Register, SessionTypeOK
    <3>3. QED
      BY <3>2 DEF Found, EntriesOf
  <2>4. CASE PidOf[q] # PidOf[r]
    BY <1>1, <1>7, <2>1, <2>4 DEF Register, SessionTypeOK, Found, EntriesOf
  <2>5. QED
    BY <2>3, <2>4
<1>8. ASSUME NEW q \in Requests \ {r} PROVE Other(q)
  BY <1>3, <1>4, <1>7 DEF Other
<1>9. OwnMaps(r) /\ \A p \in Pids \ {PidOf[r]} : OtherMaps(p)
  BY <1>1 DEF Register, SessionTypeOK, OwnMaps, OtherMaps
<1>10. UsesPort(r)' => UsesPort(r)
  BY <1>1, <1>3 DEF UsesPort, Signals
<1>11. QED
  BY <1>1, <1>4, <1>6, <1>8, <1>9, <1>10 DEF StepOf, Moves

(* The child answers, with a session or not. *)
LEMMA CreatedStep ==
    ASSUME SessionInv, RequestsAssumption, NEW r \in Requests, Created(r) \/ CreateFails(r)
    PROVE  StepOf(r)
<1>1. CASE CreateFails(r)
  BY <1>1, FailingStep DEF CreateFails, portVars, pidVars
<1>2. CASE Created(r) /\ Stopped(r)
  BY <1>2, FailingStep DEF Created, portVars
<1>3. CASE Created(r) /\ ~Stopped(r)
  BY <1>3, RegisterStep DEF Created, portVars
<1>4. QED
  BY <1>1, <1>2, <1>3

(* The close that a call waited for is over. *)
LEMMA ClosedStep ==
    ASSUME SessionInv, RequestsAssumption, NEW r \in Requests,
           PreviousClosed(r) \/ FailureClosed(r)
    PROVE  StepOf(r)
<1>1. SessionTypeOK /\ Fits(r) /\ PidOf[r] \in Pids /\ call[r] \in {"previous", "failing"}
      /\ UNCHANGED <<aborted, child, signal, entry, messages, active, pending, closing>>
  BY DEF SessionInv, RequestsAssumption, PreviousClosed, FailureClosed, childVars, pidVars
<1>2. call'[r] \in {"opened", "failed"} /\ \A q \in Requests \ {r} : call'[q] = call[q]
  BY <1>1 DEF PreviousClosed, FailureClosed, SessionTypeOK
<1>3. latest' = latest \/ latest' = Forget(r)
  BY DEF PreviousClosed, FailureClosed, pidVars
<1>4. /\ holds' \subseteq holds
      /\ \A q \in Requests \ {r} : (q \in holds' <=> q \in holds) /\ portOf'[q] = portOf[q]
  BY <1>1 DEF PreviousClosed, FailureClosed, SessionTypeOK, portVars
<1>5. Fits(r)'
  BY <1>1, <1>2 DEF Fits, EntryFits, PortFits, FoundFits, Running, Found, EntriesOf, Alone
<1>6. ASSUME NEW q \in Requests \ {r} PROVE Other(q)
  BY <1>1, <1>2, <1>4, <1>6 DEF Other, Signals, Found, EntriesOf
<1>7. UsesPort(r)' => UsesPort(r) /\ portOf'[r] = portOf[r]
  BY <1>1, <1>2 DEF PreviousClosed, FailureClosed, SessionTypeOK, portVars, UsesPort, Running
<1>8. QED
  BY <1>1, <1>2, <1>3, <1>5, <1>6, <1>7 DEF StepOf, OwnMaps, OtherMaps, Moves

(* A tested connection answers, and its child is asked to end. *)
LEMMA TestedStep ==
    ASSUME SessionInv, RequestsAssumption, NEW r \in Requests, Tested(r)
    PROVE  StepOf(r)
<1>1. SessionTypeOK /\ Fits(r) /\ call[r] = "create" /\ child[r] = "listening" /\ r \in Tests
      /\ UNCHANGED <<awaits, aborted, child, portOf, holds>>
  BY DEF SessionInv, Tested, Answers, Fits, EntryFits, portVars
<1>2. /\ entry'[r] = "ended" /\ messages'[r] = {}
      /\ \A q \in Requests \ {r} : /\ entry'[q] = entry[q] /\ messages'[q] = messages[q]
                                   /\ Found(q) => Found(q)'
      /\ OwnMaps(r) /\ (\A p \in Pids \ {PidOf[r]} : OtherMaps(p)) /\ latest' = Forget(r)
  BY <1>1, FinalizeEffect DEF Tested
<1>3. /\ signal'[r] = "ask" /\ call'[r] \in {"opened", "failed"}
      /\ \A q \in Requests \ {r} : signal'[q] = signal[q] /\ call'[q] = call[q]
  BY <1>1 DEF Tested, SessionTypeOK
<1>4. Fits(r)'
  BY <1>1, <1>2, <1>3 DEF Fits, EntryFits, PortFits, FoundFits, Running, Alone
<1>5. ASSUME NEW q \in Requests \ {r} PROVE Other(q)
  BY <1>1, <1>2, <1>3 DEF Other, Signals
<1>6. UsesPort(r)' => UsesPort(r)
  BY <1>1, <1>3 DEF UsesPort
<1>7. QED
  BY <1>1, <1>2, <1>3, <1>4, <1>5, <1>6 DEF StepOf, Moves

(* A child that ends, by itself or by a signal, is forgotten. *)
LEMMA ChildExitsStep ==
    ASSUME SessionInv, RequestsAssumption, NEW r \in Requests, ChildExits(r)
    PROVE  StepOf(r)
<1>1. SessionTypeOK /\ Fits(r) /\ Running(r) /\ aborted' = aborted
      /\ call[r] \notin {"idle", "port", "closing"} /\ entry[r] # "none"
  BY DEF SessionInv, ChildExits, Fits, EntryFits, Running
<1>2. /\ entry'[r] = "ended" /\ messages'[r] = {}
      /\ \A q \in Requests \ {r} : /\ entry'[q] = entry[q] /\ messages'[q] = messages[q]
                                   /\ Found(q) => Found(q)'
      /\ OwnMaps(r) /\ (\A p \in Pids \ {PidOf[r]} : OtherMaps(p)) /\ latest' = Forget(r)
  BY <1>1, FinalizeEffect DEF ChildExits
<1>3. /\ \A q \in Requests \ {r} : call'[q] = call[q] /\ (q \in holds' <=> q \in holds)
      /\ \/ call'[r] = call[r]
         \/ call[r] \in {"ready", "create"} /\ call'[r] \in {"failed", "failing"}
      /\ r \in holds' => r \in holds
  BY <1>1, RejectedEffect DEF ChildExits
<1>4. /\ child'[r] = "gone" /\ signal'[r] = "none"
      /\ \A q \in Requests \ {r} : /\ child'[q] = child[q] /\ signal'[q] = signal[q]
                                   /\ portOf'[q] = portOf[q]
  BY <1>1 DEF ChildExits, SessionTypeOK
<1>5. r \in holds' => portOf'[r] = portOf[r]
  BY <1>1 DEF ChildExits, SessionTypeOK
<1>6. Fits(r)'
  BY <1>1, <1>2, <1>3, <1>4 DEF Fits, EntryFits, PortFits, FoundFits, Running, Alone
<1>7. ASSUME NEW q \in Requests \ {r} PROVE Other(q)
  BY <1>2, <1>3, <1>4 DEF Other, Signals
<1>8. UsesPort(r)' => UsesPort(r) /\ portOf'[r] = portOf[r]
  BY <1>1, <1>3, <1>4, <1>5 DEF UsesPort
<1>9. QED
  BY <1>1, <1>2, <1>3, <1>6, <1>7, <1>8 DEF StepOf, Moves

(* A child with an error is told to end. *)
LEMMA ChildErrorsStep ==
    ASSUME SessionInv, RequestsAssumption, NEW r \in Requests, ChildErrors(r)
    PROVE  StepOf(r)
<1>1. SessionTypeOK /\ Fits(r) /\ Running(r) /\ entry[r] = "open"
      /\ UNCHANGED <<aborted, child, portOf>> /\ call[r] \notin {"idle", "port", "closing"}
  BY DEF SessionInv, ChildErrors, Fits, EntryFits, Running
<1>2. /\ \A q \in Requests : Signals(q)
      /\ signal'[r] # "none"
  BY <1>1, CloseSignals DEF ChildErrors
<1>3. /\ \A q \in Requests \ {r} : call'[q] = call[q] /\ (q \in holds' <=> q \in holds)
      /\ \/ call'[r] = call[r]
         \/ call[r] \in {"ready", "create"} /\ call'[r] \in {"failed", "failing"}
      /\ r \in holds' => r \in holds
  BY <1>1, RejectedEffect DEF ChildErrors
<1>4. /\ entry'[r] \in {"ended", "terminating"} /\ messages'[r] = {}
      /\ entry'[r] = "ended" => r \in Tests
      /\ r \notin Tests => UNCHANGED <<active, pending, latest, closing>>
      /\ \A q \in Requests \ {r} : /\ entry'[q] = entry[q] /\ messages'[q] = messages[q]
                                   /\ Found(q) => Found(q)'
      /\ OwnMaps(r) /\ (\A p \in Pids \ {PidOf[r]} : OtherMaps(p))
      /\ latest' = latest \/ latest' = Forget(r)
  <2>1. CASE r \in Tests
    BY <1>1, <2>1, FinalizeEffect DEF ChildErrors
  <2>2. CASE r \notin Tests
    BY <1>1, <2>2 DEF ChildErrors, SessionTypeOK, pidVars, Found, EntriesOf, OwnMaps, OtherMaps
  <2>3. QED
    BY <2>1, <2>2
<1>5. EntryFits(r)' /\ PortFits(r)'
  BY <1>1, <1>2, <1>3, <1>4 DEF Fits, EntryFits, PortFits, Running
<1>6. FoundFits(r)'
  BY <1>1, <1>2, <1>4 DEF Fits, FoundFits, Alone, Found, EntriesOf
<1>7. ASSUME NEW q \in Requests \ {r} PROVE Other(q)
  BY <1>1, <1>2, <1>3, <1>4 DEF Other
<1>8. UsesPort(r)' => UsesPort(r)
  BY <1>1, <1>2, <1>3 DEF UsesPort
<1>9. QED
  BY <1>1, <1>3, <1>4, <1>5, <1>6, <1>7, <1>8 DEF StepOf, Moves, Fits

(* A child that ignores SIGTERM gets SIGKILL. *)
LEMMA CloseTimeoutStep ==
    ASSUME SessionInv, RequestsAssumption, NEW r \in Requests, CloseTimeout(r)
    PROVE  StepOf(r)
<1>1. SessionTypeOK /\ Fits(r) /\ signal[r] = "term" /\ signal'[r] = "kill"
      /\ (\A q \in Requests \ {r} : signal'[q] = signal[q])
      /\ UNCHANGED <<call, aborted, child, entry, messages, portOf, holds, active, pending,
                     latest, closing>>
  BY DEF SessionInv, CloseTimeout, SessionTypeOK, callVars, portVars, pidVars
<1>2. Fits(r)'
  BY <1>1 DEF Fits, EntryFits, PortFits, FoundFits, Running, Alone, Found, EntriesOf
<1>3. ASSUME NEW q \in Requests \ {r} PROVE Other(q)
  BY <1>1 DEF Other, Signals, Found, EntriesOf
<1>4. UsesPort(r)' => UsesPort(r)
  BY <1>1 DEF UsesPort
<1>5. QED
  BY <1>1, <1>2, <1>3, <1>4 DEF StepOf, OwnMaps, OtherMaps, Moves

(* An entry whose child is not seen to end ends without it. *)
LEMMA ForceEndStep ==
    ASSUME SessionInv, RequestsAssumption, NEW r \in Requests, ForceEnd(r)
    PROVE  StepOf(r)
<1>1. SessionTypeOK /\ Fits(r) /\ Running(r) /\ signal[r] = "kill"
      /\ UNCHANGED <<aborted, child, signal, portOf>> /\ entry[r] # "none"
      /\ call[r] \notin {"idle", "port", "closing"}
  BY DEF SessionInv, ForceEnd, Fits, EntryFits, Running
<1>2. /\ entry'[r] = "ended" /\ messages'[r] = {}
      /\ \A q \in Requests \ {r} : /\ entry'[q] = entry[q] /\ messages'[q] = messages[q]
                                   /\ Found(q) => Found(q)'
      /\ OwnMaps(r) /\ (\A p \in Pids \ {PidOf[r]} : OtherMaps(p)) /\ latest' = Forget(r)
  BY <1>1, FinalizeEffect DEF ForceEnd
<1>3. /\ \A q \in Requests \ {r} : call'[q] = call[q] /\ (q \in holds' <=> q \in holds)
      /\ call'[r] = call[r] \/ (call[r] = "create" /\ call'[r] \in {"failed", "failing"})
      /\ r \in holds' => r \in holds
  BY <1>1, RejectedEffect DEF ForceEnd
<1>4. Fits(r)'
  BY <1>1, <1>2, <1>3 DEF Fits, EntryFits, PortFits, FoundFits, Running, Alone
<1>5. ASSUME NEW q \in Requests \ {r} PROVE Other(q)
  BY <1>1, <1>2, <1>3 DEF Other, Signals
<1>6. UsesPort(r)' => UsesPort(r)
  BY <1>1, <1>3 DEF UsesPort
<1>7. QED
  BY <1>1, <1>2, <1>3, <1>4, <1>5, <1>6 DEF StepOf, Moves

(* Every step of SessionNext is a step of one request. *)
LEMMA SessionSteps ==
    ASSUME SessionInv, RequestsAssumption, SessionNext
    PROVE  \E r \in Requests : StepOf(r)
<1>1. PICK r \in Requests :
        \/ \E port \in PortIds : PortTaken(r, port) \/ PortFound(r, port)
        \/ NoPort(r) \/ AfterClosing(r)
        \/ ChildListens(r) \/ Created(r) \/ CreateFails(r) \/ Tested(r)
        \/ PreviousClosed(r) \/ FailureClosed(r)
        \/ ChildExits(r) \/ ChildErrors(r) \/ CloseTimeout(r) \/ ForceEnd(r)
  BY DEF SessionNext
<1>2. CASE \E port \in PortIds : PortTaken(r, port) \/ PortFound(r, port)
  BY <1>2, PortTakenStep, PortFoundStep
<1>3. CASE NoPort(r) \/ AfterClosing(r)
  BY <1>3, NoPortStep, AfterClosingStep
<1>4. CASE ChildListens(r) \/ Created(r) \/ CreateFails(r) \/ Tested(r)
  BY <1>4, ChildListensStep, CreatedStep, TestedStep
<1>5. CASE PreviousClosed(r) \/ FailureClosed(r)
  BY <1>5, ClosedStep
<1>6. CASE ChildExits(r) \/ ChildErrors(r) \/ CloseTimeout(r) \/ ForceEnd(r)
  BY <1>6, ChildExitsStep, ChildErrorsStep, CloseTimeoutStep, ForceEndStep
<1>7. QED
  BY <1>1, <1>2, <1>3, <1>4, <1>5, <1>6

---------------------------------------------------------------------------
(* The steps that are not of SessionNext: a call is made, and the sessions *)
(* of some pids are closed.                                                *)

(* A new call is the latest of its pid: none made after it has begun. *)
LEMMA StartKeeps ==
    ASSUME SessionInv, RequestsAssumption, PortAssumption, NEW r \in Requests, Start(r)
    PROVE  SessionInv'
<1>1. SessionTypeOK /\ Fits(r) /\ call[r] = "idle" /\ PidOf[r] \in Pids
      /\ UNCHANGED <<awaits, aborted, childVars, active, pending, closing>>
  BY DEF SessionInv, Start, RequestsAssumption
<1>2. /\ call'[r] = "port" /\ r \in holds'
      /\ \A q \in Requests \ {r} : /\ call'[q] = call[q] /\ portOf'[q] = portOf[q]
                                   /\ (q \in holds') <=> (q \in holds)
  BY <1>1 DEF Start, SessionTypeOK
<1>3. SessionTypeOK'
  BY <1>1, TypeMoves
<1>4. ~UsesPort(r)' /\ Fits(r)'
  BY <1>1, <1>2 DEF childVars, Fits, EntryFits, PortFits, FoundFits, UsesPort, Running
<1>5. ASSUME NEW q \in Requests \ {r} PROVE Fits(q)' /\ (UsesPort(q)' => UsesPort(q))
  <2>1. Other(q) /\ Fits(q)
    BY <1>1, <1>2 DEF childVars, Other, Signals, Found, EntriesOf, SessionInv
  <2>2. Found(q) => Found(q)'
    BY <1>1 DEF Found, EntriesOf
  <2>3. QED
    BY <1>1, <1>2, <2>1, <2>2, OthersFit DEF UsesPort, childVars
<1>6. PortsApart'
  BY <1>2, <1>4, <1>5 DEF SessionInv, PortsApart
<1>7. MapsFit'
  BY <1>1 DEF SessionInv, MapsFit, EntriesOf
<1>8. \A q \in Requests : PidOf[q] = PidOf[r] /\ q < r => call[q] # "idle"
  BY DEF Start
<1>9. OrderFits'
  <2>1. SUFFICES ASSUME NEW q \in Requests, NEW s \in Requests, PidOf[q] = PidOf[s], q < s,
                        call'[q] = "idle"
                 PROVE  call'[s] = "idle"
    BY DEF OrderFits
  <2>2. call[q] = "idle" /\ q # r
    BY <1>2, <2>1
  <2>3. s # r /\ call[s] = "idle"
    BY <1>8, <2>1, <2>2 DEF SessionInv, OrderFits
  <2>4. QED
    BY <1>2, <2>3
<1>10. LatestFits'
  <2>1. SUFFICES ASSUME NEW p \in Pids, latest'[p] # NoRequest, NEW s \in Requests \ Tests,
                        PidOf[s] = p, s > latest'[p]
                 PROVE  call'[s] = "idle"
    BY DEF LatestFits
  <2>2. CASE r \notin Tests /\ p = PidOf[r]
    <3>1. latest'[p] = r
      BY <1>1, <2>2 DEF Start, SessionTypeOK
    <3>2. s \in Nat /\ r \in Nat
      BY DEF RequestsAssumption
    <3>3. r < s /\ s # r
      BY <2>1, <3>1, <3>2
    <3>4. call[s] = "idle"
      BY <1>1, <2>1, <2>2, <3>3 DEF SessionInv, OrderFits
    <3>5. QED
      BY <1>2, <3>3, <3>4
  <2>3. CASE ~(r \notin Tests /\ p = PidOf[r])
    <3>1. latest'[p] = latest[p] /\ s # r
      BY <1>1, <2>1, <2>3 DEF Start, SessionTypeOK
    <3>2. QED
      BY <1>2, <2>1, <3>1 DEF SessionInv, LatestFits
  <2>4. QED
    BY <2>2, <2>3
<1>11. QED
  BY <1>3, <1>4, <1>5, <1>6, <1>7, <1>9, <1>10 DEF SessionInv

(* What a close of some pids, and the messages to their sessions, leave. *)
CloseStep ==
    /\ UNCHANGED <<call, child, entry, portOf, holds, active, pending, latest>>
    /\ \A q \in Requests : Signals(q) /\ ("create" \in messages'[q] => "create" \in messages[q])
    /\ \A p \in Pids : closing'[p] \subseteq closing[p] \cup EntriesOf(p)

(* Such a step keeps the invariant. *)
LEMMA CloseKeeps ==
    ASSUME SessionInv, RequestsAssumption, SessionTypeOK', CloseStep
    PROVE  SessionInv'
<1>1. ASSUME NEW q \in Requests PROVE Fits(q)' /\ (UsesPort(q)' => UsesPort(q))
  <2>1. Fits(q) /\ (Found(q)' <=> Found(q))
    BY DEF SessionInv, CloseStep, Found, EntriesOf
  <2>2. EntryFits(q)' /\ PortFits(q)'
    BY <2>1 DEF Fits, EntryFits, PortFits, CloseStep, Signals, Running
  <2>3. FoundFits(q)'
    BY <2>1 DEF Fits, FoundFits, CloseStep, Signals, Running, Alone
  <2>4. UsesPort(q)' => UsesPort(q)
    BY DEF UsesPort, CloseStep, Signals
  <2>5. QED
    BY <2>2, <2>3, <2>4 DEF Fits
<1>2. PortsApart'
  BY <1>1 DEF SessionInv, PortsApart, CloseStep
<1>3. MapsFit'
  BY DEF SessionInv, MapsFit, CloseStep, EntriesOf
<1>4. OrderFits' /\ LatestFits'
  BY DEF SessionInv, OrderFits, LatestFits, CloseStep
<1>5. QED
  BY <1>1, <1>2, <1>3, <1>4 DEF SessionInv

(* The initial states satisfy the invariant. *)
LEMMA InitKeeps ==
    ASSUME RequestsAssumption, PortAssumption, SessionInit
    PROVE  SessionInv
<1>1. SessionTypeOK
  BY DEF SessionInit, SessionTypeOK, Calls, RequestsAssumption, PortAssumption
<1>2. PortsApart /\ MapsFit /\ OrderFits /\ LatestFits
  BY DEF SessionInit, PortsApart, UsesPort, MapsFit, EntriesOf, OrderFits, LatestFits
<1>3. ASSUME NEW r \in Requests PROVE Fits(r)
  BY DEF SessionInit, Fits, EntryFits, PortFits, FoundFits, Running
<1>4. QED
  BY <1>1, <1>2, <1>3 DEF SessionInv

(* The session of a pid changes hands only in favour of the latest call,   *)
(* after which nobody was asked for.                                       *)
LEMMA NewestMoves ==
    ASSUME SessionInv, RequestsAssumption, SessionNext, NEW p \in Pids,
           active'[p] # active[p], active'[p] # NoRequest,
           NEW q \in Requests \ Tests, PidOf[q] = p, call[q] \in {"opened", "previous"}
    PROVE  q < active'[p]
<1>1. SessionTypeOK
  BY DEF SessionInv
<1>2. ASSUME NEW r \in Requests, Finalize(r) PROVE FALSE
  BY <1>1, <1>2 DEF Finalize, SessionTypeOK
<1>3. PICK r \in Requests : Created(r)
  BY <1>2 DEF SessionNext, PortTaken, PortFound, NoPort, AfterClosing, ChildListens,
     CreateFails,
     Tested, PreviousClosed, FailureClosed, ChildExits, ChildErrors, CloseTimeout, ForceEnd,
        pidVars
<1>4. ~Stopped(r) /\ r \notin Tests /\ call[r] = "create"
  BY <1>3 DEF Created, Answers, SessionInv, Fits, EntryFits
<1>5. active' = [active EXCEPT ![PidOf[r]] = r] /\ latest[PidOf[r]] = r
  BY <1>3, <1>4 DEF Created, Register, Stopped, IsLatest
<1>6. PidOf[r] = p /\ active'[p] = r
  BY <1>1, <1>5 DEF SessionTypeOK
<1>7. r # NoRequest /\ r \in Nat /\ q \in Nat
  BY DEF RequestsAssumption
<1>8. q # r /\ ~(q > r)
  BY <1>4, <1>5, <1>6, <1>7 DEF SessionInv, LatestFits
<1>9. QED
  BY <1>6, <1>7, <1>8
=============================================================================
