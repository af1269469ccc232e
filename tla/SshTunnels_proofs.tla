-------------------------- MODULE SshTunnels_proofs --------------------------
(***************************************************************************)
(* Proofs about SshTunnels: types, that no listener but that of a racing   *)
(* start is left where no stop finds it, and that the test a tunnel shows  *)
(* is current, for any number of starts, events and reconnects in a row.   *)
(*                                                                         *)
(* The parts of the invariant are about the life of an entry, its          *)
(* reconnect, the number of its controllers, its probes and its evidence;  *)
(* each is preserved by every action, and its lemma has a step per action. *)
(***************************************************************************)
EXTENDS SshTunnels, TLAPS

Phases    == {"none", "opening", "open", "closing", "closed"}
CallIs    == {"none", "starting", "started", "failed"}
TunnelSet == [state : States, stopping : BOOLEAN, attached : BOOLEAN, timer : BOOLEAN,
              attempt : 0..MaxAttempts, reconnect : {"none", "closing", "starting"}]
ProbeSet  == [controller : Nat, generation : Nat, failures : Nat]
LastSet   == [verdict : Verdicts \cup {"none"}, controller : Nat, failures : Nat]
TestSet   == [state : Verdicts \cup {"untested", "testing"}, last : LastSet,
              evidence : BOOLEAN, generation : Nat, promise : ProbeSet]

(* The types, but for the range of the controllers' numbers. *)
Typed ==
    /\ session \in {"up", "lost", "killed"}
    /\ call \in [Entries -> CallIs]
    /\ registered \in Entries \cup {0}
    /\ overwritten \subseteq Entries /\ forgotten \subseteq Entries
    /\ tunnel \in [Entries -> TunnelSet]
    /\ current \in [Entries -> Nat]
    /\ controller \in [Entries -> [Numbers -> Phases]]
    /\ carried \in [Entries -> BOOLEAN]
    /\ traffic \in [Entries -> [controller : Nat, failures : Nat]]
    /\ test \in [Entries -> TestSet]
    /\ probes \in [Entries -> SUBSET ProbeSet]
    /\ failures \in [Entries -> Nat]
    /\ load \in Loads /\ events \in 0..load.events /\ tests \in 0..load.tests

(* An entry whose call has not returned is as it was made. *)
Unused(e) ==
    /\ current[e] = 1 /\ failures[e] = 0 /\ ~carried[e] /\ probes[e] = {}
    /\ test[e].generation = 0 /\ test[e].promise = NoProbe /\ ~test[e].evidence
    /\ ~tunnel[e].timer /\ ~tunnel[e].attached /\ tunnel[e].reconnect = "none"
    /\ traffic[e].controller = 0
StartedOK ==
    /\ registered # 0 => call[registered] = "started"
    /\ \A e \in Entries : call[e] # "started" => Unused(e)

(* A killed session has no tunnel but what a start brought there later. *)
KilledOK == ~HasRuntime /\ registered # 0 => registered \in forgotten

(* While it reconnects it hears of nothing and its old controller is not open. *)
ReconnectOK ==
    \A e \in Entries : tunnel[e].reconnect # "none" =>
        /\ ~tunnel[e].attached /\ ~tunnel[e].timer /\ ~test[e].evidence
        /\ controller[e][current[e]] # "open"

(* A controller is replaced after an event or the end of the connection.  *)
Pending(e) == tunnel[e].timer \/ tunnel[e].reconnect # "none"
CountOK ==
    \A e \in Entries :
        /\ current[e] >= 1
        /\ current[e] + (IF Pending(e) THEN 1 ELSE 0)
              <= events + (IF session = "up" THEN 1 ELSE 2)
        /\ traffic[e].controller <= current[e]

(* A probe of the present generation is of the present failure, too; the  *)
(* one that is awaited is under way.                                      *)
ProbesOK ==
    \A e \in Entries :
        /\ test[e].promise \in probes[e] \cup {NoProbe}
        /\ \A p \in probes[e] :
              /\ p.generation <= test[e].generation
              /\ p.generation = test[e].generation => p.failures = failures[e]

(* What counts as evidence went through the present controller. *)
Now(e) == [controller |-> current[e], failures |-> failures[e]]
CarriedOK ==
    \A e \in Entries :
        /\ load.kind # "local" /\ carried[e] /\ controller[e][current[e]] = "open" =>
              traffic[e] = Now(e)
        /\ session = "lost" => ~carried[e]
EvidenceOK ==
    registered # 0 =>
        LET e == registered
        IN  /\ test[e].state \in Verdicts \/ test[e].evidence =>
                  /\ test[e].last.controller = current[e]
                  /\ test[e].last.failures = failures[e]
            /\ test[e].state \in Verdicts => test[e].last.verdict = test[e].state
            /\ test[e].evidence => test[e].last.verdict = "passed"
            /\ load.kind # "local" /\ (test[e].state = "passed" \/ test[e].evidence) =>
                  traffic[e] = Now(e)

Inv == Typed /\ StartedOK /\ KilledOK /\ ReconnectOK /\ CountOK /\ OnlyStartsLeak
       /\ ProbesOK /\ CarriedOK /\ EvidenceOK

-----------------------------------------------------------------------------
(* What the helpers of several actions do to the entry they are about.     *)

(* Of the constants and of what is numbered. *)
LEMMA NumberFacts ==
    /\ 0 \notin Entries
    /\ NoProbe \in ProbeSet
    /\ Verdicts = {"passed", "unverified", "limited", "failed"}
    /\ \A n \in Nat : n <= MaxEvents + 2 /\ n >= 1 => n \in Numbers
    /\ 1 \in Numbers
<1>1. MaxStarts \in Nat /\ MaxEvents \in Nat
  BY BoundAssumption
<1>2. QED
  BY <1>1 DEF Entries, NoProbe, ProbeSet, Verdicts, Rank, Numbers

(* Scheduling a reconnect keeps the shape of a tunnel. *)
LEMMA ScheduledFacts ==
    ASSUME NEW t \in TunnelSet
    PROVE  /\ Scheduled(t) \in TunnelSet
           /\ Scheduled(t).reconnect = t.reconnect
           /\ Scheduled(t).attached = t.attached
           /\ Scheduled(t).stopping = t.stopping
<1>1. CASE t.timer
  BY <1>1 DEF Scheduled
<1>2. CASE ~t.timer /\ t.attempt = MaxAttempts
  BY <1>2 DEF Scheduled, TunnelSet, States
<1>3. CASE ~t.timer /\ t.attempt # MaxAttempts
  <2>1. t.attempt + 1 \in 0..MaxAttempts
    BY <1>3, BoundAssumption DEF TunnelSet
  <2>2. QED
    BY <1>3, <2>1 DEF Scheduled, TunnelSet
<1>4. QED
  BY <1>1, <1>2, <1>3 DEF TunnelSet

(* Invalidating a test starts a generation without evidence. *)
LEMMA InvalidatedFacts ==
    ASSUME NEW t \in TestSet
    PROVE  /\ Invalidated(t) \in TestSet
           /\ Invalidated(t).generation = t.generation + 1
           /\ Invalidated(t).promise = t.promise
           /\ Invalidated(t).evidence = FALSE
           /\ Invalidated(t).state = "untested"
<1>1. NoTest \in LastSet
  BY DEF NoTest, LastSet
<1>2. t.generation + 1 \in Nat
  BY DEF TestSet
<1>3. QED
  BY <1>1, <1>2 DEF Invalidated, TestSet

(* A failure of a class, whatever verdict its error is shown as. *)
FailedAs(e, class) == \E verdict \in {"limited", "failed"} : Failure(e, class, verdict)

(* A failure that is heeded makes what is shown a failed test of the next  *)
(* generation; one that is not ends the reconnect and nothing else.        *)
LEMMA FailureEffect ==
    ASSUME Typed, NEW e \in Entries, NEW class \in Classes, FailedAs(e, class)
    PROVE  /\ tunnel' \in [Entries -> TunnelSet]
           /\ test' \in [Entries -> TestSet]
           /\ failures' \in [Entries -> Nat]
           /\ \A d \in Entries \ {e} : /\ tunnel'[d] = tunnel[d] /\ test'[d] = test[d]
                                       /\ failures'[d] = failures[d]
           /\ tunnel'[e].reconnect = "none"
           /\ tunnel'[e].attached = tunnel[e].attached
           /\ tunnel'[e].stopping = tunnel[e].stopping
           /\ \/ /\ ~Heeded(e)
                 /\ test' = test /\ failures' = failures
                 /\ tunnel'[e].timer = tunnel[e].timer
              \/ /\ Heeded(e)
                 /\ failures'[e] = failures[e] + 1
                 /\ test'[e].generation = test[e].generation + 1
                 /\ test'[e].promise = test[e].promise
                 /\ ~test'[e].evidence /\ test'[e].state \in {"limited", "failed"}
                 /\ test'[e].last = [verdict |-> test'[e].state, controller |-> current[e],
                                     failures |-> failures[e] + 1]
<1>v. PICK verdict \in {"limited", "failed"} : Failure(e, class, verdict)
  BY DEF FailedAs
<1> DEFINE t == [tunnel[e] EXCEPT !.reconnect = "none"]
           f == [t EXCEPT !.state = class]
<1>0. tunnel[e] \in TunnelSet
  BY DEF Typed
<1>1a. /\ t \in TunnelSet /\ t.reconnect = "none" /\ t.timer = tunnel[e].timer
       /\ t.attached = tunnel[e].attached /\ t.stopping = tunnel[e].stopping
  BY <1>0 DEF TunnelSet
<1>1b. class \in States
  BY DEF States, Lost, Classes
<1>1c. /\ f \in TunnelSet /\ f.reconnect = t.reconnect
       /\ f.attached = t.attached /\ f.stopping = t.stopping
  <2> HIDE DEF t
  <2> QED BY <1>1a, <1>1b DEF TunnelSet
<1>1. /\ t \in TunnelSet /\ f \in TunnelSet
      /\ t.reconnect = "none" /\ f.reconnect = "none"
      /\ t.attached = tunnel[e].attached /\ f.attached = tunnel[e].attached
      /\ t.stopping = tunnel[e].stopping /\ f.stopping = tunnel[e].stopping
      /\ t.timer = tunnel[e].timer
  <2> HIDE DEF t, f
  <2> QED BY <1>1a, <1>1c
<1>2. /\ Scheduled(f) \in TunnelSet /\ Scheduled(f).reconnect = "none"
      /\ Scheduled(f).attached = tunnel[e].attached
      /\ Scheduled(f).stopping = tunnel[e].stopping
  <2> HIDE DEF f
  <2> QED BY <1>1, ScheduledFacts
<1>3. test[e] \in TestSet /\ failures[e] \in Nat /\ current[e] \in Nat
  BY DEF Typed
<1>4. /\ FailedTest(e, verdict) \in TestSet
      /\ FailedTest(e, verdict).generation = test[e].generation + 1
      /\ FailedTest(e, verdict).promise = test[e].promise
      /\ FailedTest(e, verdict).evidence = FALSE /\ FailedTest(e, verdict).state = verdict
      /\ FailedTest(e, verdict).last = [verdict |-> verdict, controller |-> current[e],
                               failures |-> failures[e] + 1]
  <2> DEFINE i == Invalidated(test[e])
             last == [verdict |-> verdict, controller |-> current[e],
                      failures |-> failures[e] + 1]
  <2>1. i \in TestSet /\ i.generation = test[e].generation + 1
        /\ i.promise = test[e].promise /\ i.evidence = FALSE
    BY <1>3, InvalidatedFacts
  <2>2. last \in LastSet
    BY <1>3, NumberFacts DEF LastSet
  <2> HIDE DEF i, last
  <2>3. FailedTest(e, verdict) = [i EXCEPT !.last = last, !.state = verdict]
    BY DEF FailedTest, i, last
  <2>4. verdict \in Verdicts
    BY NumberFacts
  <2>5. /\ FailedTest(e, verdict) \in TestSet
        /\ FailedTest(e, verdict).generation = i.generation /\ FailedTest(e, verdict).promise = i.promise
        /\ FailedTest(e, verdict).evidence = i.evidence /\ FailedTest(e, verdict).state = verdict
        /\ FailedTest(e, verdict).last = last
    BY <2>1, <2>2, <2>3, <2>4 DEF TestSet
  <2>6. QED
    BY <2>1, <2>5 DEF last
<1>5. CASE Heeded(e)
  <2>1. \E g \in {f, Scheduled(f)} : tunnel' = [tunnel EXCEPT ![e] = g]
    BY <1>v, <1>5 DEF Failure
  <2>2. /\ test' = [test EXCEPT ![e] = FailedTest(e, verdict)]
        /\ failures' = [failures EXCEPT ![e] = @ + 1]
    BY <1>v, <1>5 DEF Failure
  <2> HIDE DEF t, f
  <2>3. QED
    BY <1>v, <1>1, <1>2, <1>3, <1>4, <1>5, <2>1, <2>2 DEF Typed
<1>6. CASE ~Heeded(e)
  <2>1. tunnel' = [tunnel EXCEPT ![e] = t] /\ test' = test /\ failures' = failures
    BY <1>v, <1>6 DEF Failure
  <2> HIDE DEF t, f
  <2>2. QED
    BY <1>1, <1>6, <2>1 DEF Typed
<1>7. QED
  BY <1>5, <1>6

(* A test joins the probe that is under way or starts one of its own. *)
LEMMA ProbeEffect ==
    ASSUME Typed, NEW e \in Entries, NEW t \in TestSet, NEW number \in Nat,
           NEW failed \in Nat, RunsProbe(e, t, number, failed)
    PROVE  /\ test' \in [Entries -> TestSet]
           /\ probes' \in [Entries -> SUBSET ProbeSet]
           /\ \A d \in Entries \ {e} : test'[d] = test[d] /\ probes'[d] = probes[d]
           /\ test'[e].generation = t.generation
           /\ test'[e].evidence = t.evidence /\ test'[e].last = t.last
           /\ \/ /\ t.promise # NoProbe /\ test'[e] = t /\ probes' = probes
              \/ /\ t.promise = NoProbe /\ test'[e].state = "testing"
                 /\ test'[e].promise = [controller |-> number, generation |-> t.generation,
                                        failures |-> failed]
                 /\ probes'[e] = probes[e] \cup {test'[e].promise}
<1> DEFINE p == [controller |-> number, generation |-> t.generation, failures |-> failed]
           s == [t EXCEPT !.state = "testing", !.promise = p]
<1>1. p \in ProbeSet
  BY DEF ProbeSet, TestSet
<1>2. /\ s \in TestSet /\ s.generation = t.generation /\ s.evidence = t.evidence
      /\ s.last = t.last /\ s.state = "testing" /\ s.promise = p
  <2> HIDE DEF p
  <2> QED BY <1>1 DEF TestSet
<1>3. CASE t.promise # NoProbe
  <2>1. test' = [test EXCEPT ![e] = t] /\ probes' = probes
    BY <1>3 DEF RunsProbe
  <2>2. QED
    BY <1>3, <2>1 DEF Typed
<1>4. CASE t.promise = NoProbe
  <2>1. test' = [test EXCEPT ![e] = s] /\ probes' = [probes EXCEPT ![e] = @ \cup {p}]
    BY <1>4 DEF RunsProbe
  <2> HIDE DEF s, p
  <2>2. test' \in [Entries -> TestSet] /\ test'[e] = s
    BY <1>2, <2>1 DEF Typed
  <2>3. probes' \in [Entries -> SUBSET ProbeSet] /\ probes'[e] = probes[e] \cup {p}
    BY <1>1, <2>1 DEF Typed
  <2>4. \A d \in Entries \ {e} : test'[d] = test[d] /\ probes'[d] = probes[d]
    BY <2>1 DEF Typed
  <2>5. QED
    BY <1>2, <1>4, <2>2, <2>3, <2>4 DEF p
<1>5. QED
  BY <1>3, <1>4

(* Closing a controller keeps the shape of the table, opens nothing and    *)
(* leaves other entries alone.                                             *)
LEMMA ClosingFacts ==
    ASSUME Typed, NEW e \in Entries, NEW k \in Nat
    PROVE  /\ Closing(e, k) \in [Entries -> [Numbers -> Phases]]
           /\ \A d \in Entries \ {e} : Closing(e, k)[d] = controller[d]
           /\ \A n \in Numbers : Closing(e, k)[e][n] = "open" =>
                 n # k /\ controller[e][n] = "open"
<1> DEFINE row == controller[e]
           new == [row EXCEPT ![k] = IF @ = "open" THEN "closing" ELSE @]
<1>1. row \in [Numbers -> Phases]
  BY DEF Typed
<1>2. /\ new \in [Numbers -> Phases]
      /\ \A n \in Numbers : new[n] = "open" => n # k /\ row[n] = "open"
  <2> HIDE DEF row
  <2> QED BY <1>1 DEF Phases
<1>3. Closing(e, k) = [controller EXCEPT ![e] = new]
  BY DEF Closing, Typed
<1> HIDE DEF new
<1>4. QED
  BY <1>2, <1>3 DEF Typed

(* So does giving a controller another phase. *)
LEMMA PhaseFacts ==
    ASSUME Typed, NEW e \in Entries, NEW k \in Nat, NEW phase \in Phases
    PROVE  LET next == [controller EXCEPT ![e][k] = phase]
           IN  /\ next \in [Entries -> [Numbers -> Phases]]
               /\ \A d \in Entries \ {e} : next[d] = controller[d]
               /\ \A n \in Numbers : next[e][n] =
                     IF n = k THEN phase ELSE controller[e][n]
<1> DEFINE row == controller[e]
           new == [row EXCEPT ![k] = phase]
<1>1. row \in [Numbers -> Phases]
  BY DEF Typed
<1>2. /\ new \in [Numbers -> Phases]
      /\ \A n \in Numbers : new[n] = IF n = k THEN phase ELSE row[n]
  <2> HIDE DEF row
  <2> QED BY <1>1
<1>3. [controller EXCEPT ![e][k] = phase] = [controller EXCEPT ![e] = new]
  BY DEF Typed
<1> HIDE DEF new
<1>4. QED
  BY <1>2, <1>3 DEF Typed

(* The verdict of a probe is the worst of its stages: passed only if all   *)
(* of them are.                                                            *)
LEMMA WorstFacts ==
    ASSUME NEW S \in SUBSET Verdicts, "passed" \in S
    PROVE  /\ Worst(S) \in S
           /\ "unverified" \in S => Worst(S) # "passed"
<1>1. /\ Rank["passed"] = 1 /\ Rank["unverified"] = 2 /\ Rank["limited"] = 3
      /\ Rank["failed"] = 4
  BY DEF Rank
<1>2. S \subseteq {"passed", "unverified", "limited", "failed"}
  BY NumberFacts
<1>3. \E s \in S : \A q \in S : Rank[q] <= Rank[s]
  <2>1. CASE "failed" \in S
    BY <1>1, <1>2, <2>1
  <2>2. CASE "failed" \notin S /\ "limited" \in S
    BY <1>1, <1>2, <2>2
  <2>3. CASE "failed" \notin S /\ "limited" \notin S /\ "unverified" \in S
    BY <1>1, <1>2, <2>3
  <2>4. CASE S = {"passed"}
    BY <1>1, <2>4
  <2>5. QED
    BY <1>2, <2>1, <2>2, <2>3, <2>4
<1>4. Worst(S) \in S /\ \A q \in S : Rank[q] <= Rank[Worst(S)]
  BY <1>3 DEF Worst
<1>5. QED
  BY <1>1, <1>4

(* What a probe that applies leaves shown: its own result, or what real    *)
(* traffic has shown, and nothing if its promise is not the one awaited.   *)
LEMMA VerdictFacts ==
    ASSUME NEW e \in Entries, NEW p, NEW result
    PROVE  /\ Worst(Stages(e, p, result)) \in Verdicts
           /\ Worst(Stages(e, p, result)) = "passed" =>
                 /\ result \notin {"prohibited", "failed"}
                 /\ load.kind = "local" \/ (p.controller = current[e] /\ carried[e])
<1>1. CASE result = "prohibited"
  <2>1. Stages(e, p, result) = {"passed", "limited", "unverified"}
    BY <1>1 DEF Stages
  <2>2. QED
    BY <1>1, <2>1, WorstFacts, NumberFacts
<1>2. CASE result = "failed"
  <2>1. Stages(e, p, result) = {"passed", "failed", "unverified"}
    BY <1>2 DEF Stages
  <2>2. QED
    BY <1>2, <2>1, WorstFacts, NumberFacts
<1>3. CASE result \notin {"prohibited", "failed"}
  <2>1. CASE load.kind = "local" \/ (p.controller = current[e] /\ carried[e])
    <3>1. Stages(e, p, result) = {"passed"}
      BY <1>3, <2>1 DEF Stages
    <3>2. QED
      BY <1>3, <2>1, <3>1, WorstFacts, NumberFacts
  <2>2. CASE ~(load.kind = "local" \/ (p.controller = current[e] /\ carried[e]))
    <3>1. Stages(e, p, result) = {"passed", "unverified"}
      BY <1>3, <2>2 DEF Stages
    <3>2. QED
      BY <1>3, <2>2, <3>1, WorstFacts, NumberFacts
  <2>3. QED
    BY <2>1, <2>2
<1>4. QED
  BY <1>1, <1>2, <1>3

(* A result that applies is shown, but a weaker one does not replace what  *)
(* real traffic has shown.                                                 *)
LEMMA ShownFacts ==
    ASSUME Typed, NEW e \in Entries, NEW p \in ProbeSet, NEW verdict \in Verdicts,
           test[e].evidence => test[e].last.verdict \in Verdicts
    PROVE  /\ Shown(e, p, verdict) \in TestSet
           /\ Shown(e, p, verdict).generation = test[e].generation
           /\ Shown(e, p, verdict).promise = test[e].promise
           /\ \/ /\ Weaker(e, verdict) /\ test[e].evidence
                 /\ Shown(e, p, verdict).state = test[e].last.verdict
                 /\ Shown(e, p, verdict).last = test[e].last
                 /\ Shown(e, p, verdict).evidence = test[e].evidence
              \/ /\ ~Weaker(e, verdict)
                 /\ Shown(e, p, verdict).state = verdict
                 /\ Shown(e, p, verdict).last = [verdict |-> verdict,
                       controller |-> p.controller, failures |-> p.failures]
                 /\ Shown(e, p, verdict).evidence => test[e].evidence /\ verdict = "passed"
<1> DEFINE last == [verdict |-> verdict, controller |-> p.controller,
                    failures |-> p.failures]
           still == test[e].evidence /\ verdict \notin {"limited", "failed"}
<1>1. test[e] \in TestSet
  BY DEF Typed
<1>2. last \in LastSet /\ still \in BOOLEAN
  BY DEF LastSet, ProbeSet
<1>3. CASE Weaker(e, verdict)
  <2>1. Shown(e, p, verdict) = [test[e] EXCEPT !.state = test[e].last.verdict]
    BY <1>3 DEF Shown
  <2>2. test[e].evidence /\ test[e].last.verdict \in Verdicts
    BY <1>3 DEF Weaker
  <2>3. QED
    BY <1>1, <1>3, <2>1, <2>2 DEF TestSet
<1>4. CASE ~Weaker(e, verdict)
  <2>1. Shown(e, p, verdict) =
           [test[e] EXCEPT !.last = last, !.state = verdict, !.evidence = still]
    BY <1>1, <1>4 DEF Shown
  <2>2. still => test[e].evidence /\ verdict = "passed"
    BY <1>4, NumberFacts DEF Weaker
  <2> HIDE DEF last, still
  <2>3. /\ Shown(e, p, verdict) \in TestSet
        /\ Shown(e, p, verdict).generation = test[e].generation
        /\ Shown(e, p, verdict).promise = test[e].promise
        /\ Shown(e, p, verdict).state = verdict
        /\ Shown(e, p, verdict).last = last /\ Shown(e, p, verdict).evidence = still
    BY <1>1, <1>2, <2>1 DEF TestSet
  <2>4. QED
    BY <1>4, <2>2, <2>3 DEF last
<1>5. QED
  BY <1>3, <1>4

(* A test that passes cancels a pending reconnect, if it does anything. *)
LEMMA RecoveredFacts ==
    ASSUME NEW t \in TunnelSet
    PROVE  /\ Recovered(t) \in TunnelSet
           /\ Recovered(t).reconnect = t.reconnect
           /\ Recovered(t).attached = t.attached
           /\ Recovered(t).stopping = t.stopping
           /\ Recovered(t).timer => t.timer
<1>1. "healthy" \in States /\ 0 \in 0..MaxAttempts
  BY BoundAssumption DEF States
<1>2. QED
  BY <1>1 DEF Recovered, TunnelSet

(* The result of the probe is what the test shows. *)
TakesResult(e, p, result) ==
    \E verdict \in Verdicts :
        /\ test'[e].state = verdict
        /\ test'[e].last = [verdict |-> verdict, controller |-> p.controller,
                            failures |-> p.failures]
        /\ test'[e].evidence => test[e].evidence /\ verdict = "passed"
        /\ verdict = "passed" => /\ result \notin {"prohibited", "failed"}
                                 /\ load.kind = "local" \/ carried[e]

(* The return of a probe: its promise is cleared, and its result is shown  *)
(* if it applies and is not weaker than what is shown.                     *)
LEMMA ReturnEffect ==
    ASSUME Typed, EvidenceOK, NEW e \in Entries, NEW p \in probes[e], NEW result,
           ProbeReturns(e, p, result)
    PROVE  /\ test' \in [Entries -> TestSet]
           /\ tunnel' \in [Entries -> TunnelSet]
           /\ probes' \in [Entries -> SUBSET ProbeSet]
           /\ \A d \in Entries \ {e} : /\ tunnel'[d] = tunnel[d] /\ test'[d] = test[d]
                                       /\ probes'[d] = probes[d]
           /\ probes'[e] = probes[e] \ {p}
           /\ tunnel'[e].reconnect = tunnel[e].reconnect
           /\ tunnel'[e].attached = tunnel[e].attached
           /\ tunnel'[e].timer => tunnel[e].timer
           /\ test'[e].generation = test[e].generation
           /\ test'[e].promise = IF test[e].promise = p THEN NoProbe ELSE test[e].promise
           /\ \/ /\ test'[e].state = test[e].state /\ test'[e].last = test[e].last
                 /\ test'[e].evidence = test[e].evidence
              \/ /\ Applies(e, p) /\ test[e].evidence /\ test'[e].evidence
                 /\ test'[e].state = test[e].last.verdict
                 /\ test'[e].last = test[e].last
              \/ Applies(e, p) /\ TakesResult(e, p, result)
<1> DEFINE verdict == Worst(Stages(e, p, result))
           shown == Shown(e, p, verdict)
<1>1. p \in ProbeSet /\ test[e] \in TestSet /\ tunnel[e] \in TunnelSet
  BY DEF Typed
<1>2. /\ verdict \in Verdicts
      /\ verdict = "passed" => /\ result \notin {"prohibited", "failed"}
                               /\ load.kind = "local" \/ carried[e]
  BY VerdictFacts
<1>3. probes' \in [Entries -> SUBSET ProbeSet] /\ probes'[e] = probes[e] \ {p}
      /\ \A d \in Entries \ {e} : probes'[d] = probes[d]
  BY DEF ProbeReturns, Typed
<1>4. \A t \in TestSet :
         /\ Returned(t, p) \in TestSet
         /\ Returned(t, p).generation = t.generation /\ Returned(t, p).state = t.state
         /\ Returned(t, p).last = t.last /\ Returned(t, p).evidence = t.evidence
         /\ Returned(t, p).promise = IF t.promise = p THEN NoProbe ELSE t.promise
  BY NumberFacts DEF Returned, TestSet
<1>5. CASE Applies(e, p)
  <2>1. test' = [test EXCEPT ![e] = Returned(shown, p)]
    BY <1>5 DEF ProbeReturns
  <2>2. test[e].evidence => test[e].last.verdict \in Verdicts
    BY <1>5, NumberFacts DEF Applies, Heeded, EvidenceOK
  <2> HIDE DEF verdict
  <2>3. /\ shown \in TestSet /\ shown.generation = test[e].generation
        /\ shown.promise = test[e].promise
        /\ \/ /\ test[e].evidence /\ shown.state = test[e].last.verdict
              /\ shown.last = test[e].last /\ shown.evidence = test[e].evidence
           \/ /\ shown.state = verdict
              /\ shown.last = [verdict |-> verdict, controller |-> p.controller,
                               failures |-> p.failures]
              /\ shown.evidence => test[e].evidence /\ verdict = "passed"
    BY <1>1, <1>2, <2>2, ShownFacts
  <2>4. tunnel' = [tunnel EXCEPT ![e] = Recovered(tunnel[e])] \/ tunnel' = tunnel
    <3>1. tunnel' = [tunnel EXCEPT ![e] =
                        IF verdict = "passed" THEN Recovered(tunnel[e]) ELSE tunnel[e]]
      BY <1>5 DEF ProbeReturns, verdict
    <3>2. QED
      BY <3>1 DEF Typed
  <2>5. /\ tunnel' \in [Entries -> TunnelSet]
        /\ \A d \in Entries \ {e} : tunnel'[d] = tunnel[d]
        /\ tunnel'[e].reconnect = tunnel[e].reconnect
        /\ tunnel'[e].attached = tunnel[e].attached
        /\ tunnel'[e].timer => tunnel[e].timer
    BY <1>1, <2>4, RecoveredFacts DEF Typed
  <2> HIDE DEF shown
  <2>6. /\ test' \in [Entries -> TestSet]
        /\ \A d \in Entries \ {e} : test'[d] = test[d]
        /\ test'[e] = Returned(shown, p)
    BY <1>4, <2>1, <2>3 DEF Typed
  <2>7. QED
    BY <1>1, <1>2, <1>3, <1>4, <1>5, <2>3, <2>5, <2>6 DEF TakesResult
<1>6. CASE ~Applies(e, p)
  <2>1. test' = [test EXCEPT ![e] = Returned(test[e], p)] /\ tunnel' = tunnel
    BY <1>6 DEF ProbeReturns
  <2>2. QED
    BY <1>1, <1>3, <1>4, <2>1 DEF Typed
<1>7. QED
  BY <1>5, <1>6

(* Real traffic starts a generation, and shows a passed test if it is heeded. *)
LEMMA EvidentFacts ==
    ASSUME Typed, NEW e \in Entries
    PROVE  /\ Evident(e) \in TestSet
           /\ Evident(e).generation = test[e].generation + 1
           /\ Evident(e).promise = test[e].promise
           /\ Heeded(e) => /\ Evident(e).state = "passed" /\ Evident(e).evidence
                           /\ Evident(e).last = [verdict |-> "passed",
                                 controller |-> current[e], failures |-> failures[e]]
           /\ ~Heeded(e) => /\ Evident(e).evidence = test[e].evidence
                            /\ Evident(e).state = test[e].state
                            /\ Evident(e).last = test[e].last
<1> DEFINE t == [test[e] EXCEPT !.generation = @ + 1]
           last == [verdict |-> "passed", controller |-> current[e],
                    failures |-> failures[e]]
<1>1. test[e] \in TestSet /\ last \in LastSet /\ "passed" \in Verdicts
  BY NumberFacts DEF Typed, LastSet
<1>2. /\ t \in TestSet /\ t.generation = test[e].generation + 1
      /\ t.promise = test[e].promise /\ t.evidence = test[e].evidence
      /\ t.state = test[e].state /\ t.last = test[e].last
  BY <1>1 DEF TestSet
<1>3. Evident(e) = IF ~Heeded(e) THEN t
                   ELSE [t EXCEPT !.state = "passed", !.evidence = TRUE, !.last = last]
  BY DEF Evident
<1> HIDE DEF t, last
<1>4. QED
  <2>1. CASE ~Heeded(e)
    BY <1>2, <1>3, <2>1
  <2>2. CASE Heeded(e)
    <3>1. Evident(e) = [t EXCEPT !.state = "passed", !.evidence = TRUE, !.last = last]
      BY <1>3, <2>2
    <3>2. /\ Evident(e) \in TestSet /\ Evident(e).generation = t.generation
          /\ Evident(e).promise = t.promise
          /\ Evident(e).state = "passed" /\ Evident(e).evidence = TRUE
          /\ Evident(e).last = last
      BY <1>1, <1>2, <3>1 DEF TestSet
    <3>3. QED
      BY <1>2, <2>2, <3>2 DEF last
  <2>3. QED
    BY <2>1, <2>2

(* A new controller starts a generation and waits for no earlier probe. *)
LEMMA SwappedFacts ==
    ASSUME NEW t \in TestSet
    PROVE  /\ Swapped(t) \in TestSet
           /\ Swapped(t).generation = t.generation + 1
           /\ Swapped(t).promise = NoProbe
           /\ Swapped(t).evidence = t.evidence
<1>1. t.generation + 1 \in Nat
  BY DEF TestSet
<1>2. QED
  BY <1>1, NumberFacts DEF Swapped, TestSet

-----------------------------------------------------------------------------
(* Every step keeps every variable in its set. *)
LEMMA TypedMoves ==
    ASSUME Typed, EvidenceOK, [Next]_vars
    PROVE  Typed'
<1> USE NumberFacts DEF vars, lostVars, carriedVars, loadVars, HasRuntime
<1>1. ASSUME NEW e \in Entries, Start(e) PROVE Typed'
  <2>1. controller' \in [Entries -> [Numbers -> Phases]] /\ call' \in [Entries -> CallIs]
    <3>1. CASE registered # 0
      BY <1>1, <3>1 DEF Start, Typed, CallIs
    <3>2. CASE registered = 0
      BY <1>1, <3>2 DEF Start, Typed, CallIs, Phases
    <3>3. QED
      BY <3>1, <3>2
  <2>2. QED
    BY <1>1, <2>1 DEF Start, Typed
<1>2. ASSUME NEW e \in Entries, StartOpens(e) PROVE Typed'
  <2>1. test' \in [Entries -> TestSet] /\ probes' \in [Entries -> SUBSET ProbeSet]
    <3>1. RunsProbe(e, test[e], 1, 0) /\ test[e] \in TestSet
      BY <1>2 DEF StartOpens, Typed
    <3>2. QED
      BY <3>1, ProbeEffect
  <2>2. tunnel' \in [Entries -> TunnelSet]
    <3> DEFINE new == [tunnel[e] EXCEPT !.state = "healthy", !.attached = TRUE]
    <3>1. tunnel[e] \in TunnelSet
      BY DEF Typed
    <3>2. new \in TunnelSet
      BY <3>1 DEF TunnelSet, States
    <3>3. tunnel' = [tunnel EXCEPT ![e] = new]
      BY <1>2 DEF StartOpens, Typed
    <3> HIDE DEF new
    <3>4. QED
      BY <3>2, <3>3 DEF Typed
  <2>3. QED
    BY <1>2, <2>1, <2>2 DEF StartOpens, Typed, CallIs, Phases
<1>3. ASSUME NEW e \in Entries, StartFails(e) PROVE Typed'
  BY <1>3 DEF StartFails, Typed, CallIs, Phases
<1>4. ASSUME StopEntry, session' \in {"up", "lost", "killed"} PROVE Typed'
  <2>1. /\ registered \in Entries /\ registered' = 0
        /\ UNCHANGED <<call, lostVars, current, carried, traffic, probes, failures,
                       load, events, tests>>
    BY <1>4 DEF StopEntry, Typed
  <2>2. tunnel' \in [Entries -> TunnelSet]
    <3> DEFINE e == registered
               new == [tunnel[e] EXCEPT !.stopping = TRUE, !.timer = FALSE,
                                        !.attached = FALSE]
    <3>1. e \in Entries /\ tunnel[e] \in TunnelSet
      BY <2>1 DEF Typed
    <3>2. new \in TunnelSet
      BY <3>1 DEF TunnelSet
    <3>3. tunnel' = [tunnel EXCEPT ![e] = new]
      BY <1>4, <3>1 DEF StopEntry, Typed
    <3> HIDE DEF new
    <3>4. QED
      BY <3>1, <3>2, <3>3 DEF Typed
  <2>3. test' \in [Entries -> TestSet]
    <3> DEFINE e == registered
               new == [test[e] EXCEPT !.generation = @ + 1, !.promise = NoProbe]
    <3>1. e \in Entries /\ test[e] \in TestSet
      BY <2>1 DEF Typed
    <3>2. new \in TestSet
      <4>1. test[e].generation + 1 \in Nat
        BY <3>1 DEF TestSet
      <4>2. QED
        BY <3>1, <4>1 DEF TestSet
    <3>3. test' = [test EXCEPT ![e] = new]
      BY <1>4, <3>1 DEF StopEntry, Typed
    <3> HIDE DEF new
    <3>4. QED
      BY <3>1, <3>2, <3>3 DEF Typed
  <2>4. controller' \in [Entries -> [Numbers -> Phases]]
    BY <1>4, <2>1, ClosingFacts DEF StopEntry, Typed
  <2>5. QED
    BY <1>4, <2>1, <2>2, <2>3, <2>4 DEF Typed
<1>5. ASSUME NEW e \in Entries, Test(e) PROVE Typed'
  <2>1. test' \in [Entries -> TestSet] /\ probes' \in [Entries -> SUBSET ProbeSet]
    <3>1. /\ RunsProbe(e, test[e], current[e], failures[e])
          /\ test[e] \in TestSet /\ current[e] \in Nat /\ failures[e] \in Nat
      BY <1>5 DEF Test, Typed
    <3>2. QED
      BY <3>1, ProbeEffect
  <2>2. tests' \in 0..load'.tests /\ load' \in Loads
    BY <1>5, BoundAssumption DEF Test, Typed
  <2>3. QED
    BY <1>5, <2>1, <2>2 DEF Test, Typed
<1>6. ASSUME NEW e \in Entries, NEW p \in probes[e], NEW result, ProbeReturns(e, p, result)
      PROVE  Typed'
  <2>1. /\ test' \in [Entries -> TestSet] /\ tunnel' \in [Entries -> TunnelSet]
        /\ probes' \in [Entries -> SUBSET ProbeSet]
    BY <1>6, ReturnEffect
  <2>2. QED
    BY <1>6, <2>1 DEF ProbeReturns, Typed
<1>7. ASSUME NEW e \in Entries, NEW class \in {"failed", "session-lost"},
             ControllerError(e, class)
      PROVE  Typed'
  <2>1. class \in Classes /\ FailedAs(e, class)
    BY <1>7 DEF ControllerError, Classes, FailedAs, ErrorVerdicts
  <2>2. /\ test' \in [Entries -> TestSet] /\ tunnel' \in [Entries -> TunnelSet]
        /\ failures' \in [Entries -> Nat]
    BY <2>1, FailureEffect
  <2>3. load' = load /\ events' \in 0..load.events
    BY <1>7, BoundAssumption DEF ControllerError, Reports, Typed, FailedAs, ErrorVerdicts
  <2>4. QED
    BY <1>7, <2>2, <2>3 DEF ControllerError, Typed, FailedAs, ErrorVerdicts
<1>8. ASSUME NEW e \in Entries, Traffic(e) PROVE Typed'
  <2>1. load' = load /\ events' \in 0..load.events
    BY <1>8, BoundAssumption DEF Traffic, Reports, Typed
  <2>2. tunnel' \in [Entries -> TunnelSet]
    <3> DEFINE new == [tunnel[e] EXCEPT !.state = "healthy", !.attempt = 0]
    <3>1. tunnel[e] \in TunnelSet /\ 0 \in 0..MaxAttempts
      BY BoundAssumption DEF Typed
    <3>2. new \in TunnelSet
      BY <3>1 DEF TunnelSet, States
    <3>3. tunnel' = tunnel \/ tunnel' = [tunnel EXCEPT ![e] = new]
      BY <1>8 DEF Traffic, Typed
    <3> HIDE DEF new
    <3>4. QED
      BY <3>2, <3>3 DEF Typed
  <2>3. Evident(e) \in TestSet
    BY EvidentFacts
  <2>4. test' \in [Entries -> TestSet]
    BY <1>8, <2>3 DEF Traffic, Typed
  <2>5. QED
    BY <1>8, <2>1, <2>2, <2>4 DEF Traffic, Typed
<1>9. ASSUME ConnectionCloses PROVE Typed'
  <2>1. /\ test' \in [Entries -> TestSet] /\ tunnel' \in [Entries -> TunnelSet]
        /\ failures' \in [Entries -> Nat]
    <3>1. CASE registered # 0 /\ tunnel[registered].attached
      <4>1. /\ registered \in Entries /\ "session-lost" \in Classes
            /\ FailedAs(registered, "session-lost")
        BY <1>9, <3>1 DEF ConnectionCloses, Typed, Classes, FailedAs
      <4>2. QED
        BY <4>1, FailureEffect
    <3>2. CASE ~(registered # 0 /\ tunnel[registered].attached)
      BY <1>9, <3>2 DEF ConnectionCloses, Typed
    <3>3. QED
      BY <3>1, <3>2
  <2>2. controller' \in [Entries -> [Numbers -> Phases]]
    BY <1>9 DEF ConnectionCloses, Typed, Phases
  <2>3. QED
    BY <1>9, <2>1, <2>2 DEF ConnectionCloses, Typed
<1>10. ASSUME NEW e \in Entries, NEW k \in Numbers, Closed(e, k) PROVE Typed'
  BY <1>10 DEF Closed, Typed, Phases
<1>11. ASSUME NEW e \in Entries, Reconnect(e) PROVE Typed'
  <2>1. tunnel' \in [Entries -> TunnelSet]
    <3> DEFINE new == [tunnel[e] EXCEPT !.timer = FALSE, !.state = "reconnecting",
                                        !.attached = FALSE, !.reconnect = "closing"]
               off == [tunnel[e] EXCEPT !.timer = FALSE]
    <3>1. tunnel[e] \in TunnelSet
      BY DEF Typed
    <3>2. new \in TunnelSet /\ off \in TunnelSet
      BY <3>1 DEF TunnelSet, States, Lost
    <3>3. tunnel' = [tunnel EXCEPT ![e] = new] \/ tunnel' = [tunnel EXCEPT ![e] = off]
      BY <1>11 DEF Reconnect, Typed
    <3> HIDE DEF new, off
    <3>4. QED
      BY <3>2, <3>3 DEF Typed
  <2>2. test' \in [Entries -> TestSet]
    <3>1. test[e] \in TestSet
      BY DEF Typed
    <3>2. Invalidated(test[e]) \in TestSet
      BY <3>1, InvalidatedFacts
    <3>3. test' = test \/ test' = [test EXCEPT ![e] = Invalidated(test[e])]
      BY <1>11 DEF Reconnect
    <3>4. QED
      BY <3>2, <3>3 DEF Typed
  <2>3. controller' \in [Entries -> [Numbers -> Phases]]
    BY <1>11, ClosingFacts DEF Reconnect, Typed
  <2>4. failures' \in [Entries -> Nat]
    BY <1>11 DEF Reconnect, Typed
  <2>5. QED
    BY <1>11, <2>1, <2>2, <2>3, <2>4 DEF Reconnect, Typed
<1>12. ASSUME NEW e \in Entries, StartAgain(e) PROVE Typed'
  <2>1. CASE ~HasRuntime
    <3>1. "failed" \in Classes /\ FailedAs(e, "failed")
      BY <1>12, <2>1 DEF StartAgain, Classes, FailedAs
    <3>2. /\ test' \in [Entries -> TestSet] /\ tunnel' \in [Entries -> TunnelSet]
          /\ failures' \in [Entries -> Nat]
      BY <3>1, FailureEffect
    <3>3. QED
      BY <1>12, <2>1, <3>2 DEF StartAgain, Typed
  <2>2. CASE HasRuntime
    <3>1. tunnel' \in [Entries -> TunnelSet]
      <4> DEFINE new == [tunnel[e] EXCEPT !.reconnect = "starting"]
      <4>1. tunnel[e] \in TunnelSet
        BY DEF Typed
      <4>2. new \in TunnelSet
        BY <4>1 DEF TunnelSet
      <4>3. tunnel' = [tunnel EXCEPT ![e] = new]
        BY <1>12, <2>2 DEF StartAgain, Typed
      <4> HIDE DEF new
      <4>4. QED
        BY <4>2, <4>3 DEF Typed
    <3>2. QED
      <4>1. controller' \in [Entries -> [Numbers -> Phases]]
        <5>1. /\ controller' = [controller EXCEPT ![e][current[e] + 1] = "opening"]
              /\ current[e] + 1 \in Nat
          BY <1>12, <2>2 DEF StartAgain, Typed
        <5>2. QED
          BY <5>1, PhaseFacts DEF Phases
      <4>2. QED
        BY <1>12, <2>2, <3>1, <4>1 DEF StartAgain, Typed
  <2>3. QED
    BY <2>1, <2>2
<1>13. ASSUME NEW e \in Entries, Reconnected(e) PROVE Typed'
  <2>1. tunnel' \in [Entries -> TunnelSet]
    <3> DEFINE new == [tunnel[e] EXCEPT !.reconnect = "none", !.attempt = 0,
                                        !.attached = TRUE, !.state = "healthy"]
               off == [tunnel[e] EXCEPT !.reconnect = "none"]
    <3>1. tunnel[e] \in TunnelSet /\ 0 \in 0..MaxAttempts
      BY BoundAssumption DEF Typed
    <3>2. new \in TunnelSet /\ off \in TunnelSet
      BY <3>1 DEF TunnelSet, States
    <3>3. tunnel' = [tunnel EXCEPT ![e] = new] \/ tunnel' = [tunnel EXCEPT ![e] = off]
      BY <1>13 DEF Reconnected, Typed
    <3> HIDE DEF new, off
    <3>4. QED
      BY <3>2, <3>3 DEF Typed
  <2>2. test' \in [Entries -> TestSet] /\ probes' \in [Entries -> SUBSET ProbeSet]
    <3>1. CASE Abandoned(e)
      BY <1>13, <3>1 DEF Reconnected, Typed
    <3>2. CASE ~Abandoned(e)
      <4>1. /\ RunsProbe(e, Swapped(test[e]), current[e] + 1, failures[e])
            /\ Swapped(test[e]) \in TestSet
            /\ current[e] + 1 \in Nat /\ failures[e] \in Nat
        BY <1>13, <3>2, SwappedFacts DEF Reconnected, Typed
      <4>2. QED
        BY <4>1, ProbeEffect
    <3>3. QED
      BY <3>1, <3>2
  <2>3. controller' \in [Entries -> [Numbers -> Phases]] /\ current' \in [Entries -> Nat]
    <3>1. CASE Abandoned(e)
      <4>1. /\ controller' = [controller EXCEPT ![e][current[e] + 1] = "closing"]
            /\ current' = current
        BY <1>13, <3>1 DEF Reconnected
      <4>2. QED
        BY <4>1, PhaseFacts DEF Typed, Phases
    <3>2. CASE ~Abandoned(e)
      <4>1. /\ controller' = [controller EXCEPT ![e][current[e] + 1] = "open"]
            /\ current' = [current EXCEPT ![e] = current[e] + 1]
        BY <1>13, <3>2 DEF Reconnected
      <4>2. QED
        BY <4>1, PhaseFacts DEF Typed, Phases
    <3>3. QED
      BY <3>1, <3>2
  <2>4. QED
    BY <1>13, <2>1, <2>2, <2>3 DEF Reconnected, Typed
<1>14. ASSUME NEW e \in Entries, NEW class \in Classes, ReconnectFails(e, class)
       PROVE  Typed'
  <2>1. /\ test' \in [Entries -> TestSet] /\ tunnel' \in [Entries -> TunnelSet]
        /\ failures' \in [Entries -> Nat]
    BY <1>14, FailureEffect DEF ReconnectFails, FailedAs, ErrorVerdicts
  <2>2. QED
    BY <1>14, <2>1 DEF ReconnectFails, Typed, Phases, FailedAs, ErrorVerdicts
<1>15. ASSUME Stop \/ Kill PROVE Typed'
  <2>1. CASE StopEntry
    BY <1>4, <1>15, <2>1 DEF Stop, Kill, Typed
  <2>2. CASE ~StopEntry
    BY <1>15, <2>2 DEF Stop, Kill, Typed
  <2>3. QED
    BY <2>1, <2>2
<1>16. CASE UNCHANGED vars
  BY <1>16 DEF Typed
<1>17. QED
  BY <1>1, <1>2, <1>3, <1>5, <1>6, <1>7, <1>8, <1>9, <1>10, <1>11, <1>12, <1>13, <1>14,
     <1>15, <1>16 DEF Next, Opens, Reconnects, Probed

-----------------------------------------------------------------------------
(* What the actions do to the entry they are about, field by field.        *)

(* The entry is registered with its first controller and its first probe. *)
LEMMA OpenEffect ==
    ASSUME Typed, StartedOK, NEW e \in Entries, StartOpens(e)
    PROVE  /\ registered' = e /\ overwritten' = overwritten \cup ({registered} \ {0})
           /\ registered # e
           /\ \A d \in Entries \ {e} : /\ tunnel'[d] = tunnel[d] /\ test'[d] = test[d]
                                       /\ probes'[d] = probes[d]
                                       /\ controller'[d] = controller[d]
           /\ ~tunnel'[e].timer /\ tunnel'[e].reconnect = "none"
           /\ \A n \in Numbers : controller'[e][n] = IF n = 1 THEN "open"
                                                     ELSE controller[e][n]
           /\ test'[e].state = "testing" /\ ~test'[e].evidence
           /\ test'[e].generation = 0 /\ probes'[e] = {test'[e].promise}
           /\ test'[e].promise = [controller |-> 1, generation |-> 0, failures |-> 0]
<1>1. /\ RunsProbe(e, test[e], 1, 0) /\ test[e] \in TestSet /\ tunnel[e] \in TunnelSet
      /\ registered # e /\ Unused(e)
  BY NumberFacts DEF StartOpens, StartedOK, Typed
<1>2. /\ ~tunnel'[e].timer /\ tunnel'[e].reconnect = "none"
      /\ \A d \in Entries \ {e} : tunnel'[d] = tunnel[d]
  BY <1>1 DEF StartOpens, Unused, Typed
<1>3. /\ \A d \in Entries \ {e} : controller'[d] = controller[d]
      /\ \A n \in Numbers : controller'[e][n] = IF n = 1 THEN "open"
                                                ELSE controller[e][n]
  BY PhaseFacts DEF StartOpens, Phases
<1>4. /\ \A d \in Entries \ {e} : test'[d] = test[d] /\ probes'[d] = probes[d]
      /\ test'[e].state = "testing" /\ ~test'[e].evidence
      /\ test'[e].generation = 0 /\ probes'[e] = {test'[e].promise}
      /\ test'[e].promise = [controller |-> 1, generation |-> 0, failures |-> 0]
  <2>1. /\ test[e].promise = NoProbe /\ ~test[e].evidence /\ test[e].generation = 0
        /\ probes[e] = {}
    BY <1>1 DEF Unused
  <2>2. /\ \A d \in Entries \ {e} : test'[d] = test[d] /\ probes'[d] = probes[d]
        /\ test'[e].generation = test[e].generation
        /\ test'[e].evidence = test[e].evidence /\ test'[e].state = "testing"
        /\ test'[e].promise = [controller |-> 1, generation |-> test[e].generation,
                               failures |-> 0]
        /\ probes'[e] = probes[e] \cup {test'[e].promise}
    BY <1>1, <2>1, ProbeEffect
  <2>3. QED
    BY <2>1, <2>2
<1>5. registered' = e /\ overwritten' = overwritten \cup ({registered} \ {0})
  BY DEF StartOpens
<1>6. QED
  BY <1>1, <1>2, <1>3, <1>4, <1>5

(* The entry is out of the map, its reconnect cancelled, its test of another
   generation and its controller not open. *)
LEMMA StopEffect ==
    ASSUME Typed, NEW e \in Entries, e = registered, StopEntry
    PROVE  /\ registered' = 0
           /\ \A d \in Entries \ {e} : /\ tunnel'[d] = tunnel[d] /\ test'[d] = test[d]
                                       /\ controller'[d] = controller[d]
           /\ ~tunnel'[e].timer /\ ~tunnel'[e].attached
           /\ tunnel'[e].reconnect = tunnel[e].reconnect
           /\ test'[e].generation = test[e].generation + 1
           /\ test'[e].promise = NoProbe /\ test'[e].evidence = test[e].evidence
           /\ \A n \in Numbers : controller'[e][n] = "open" =>
                 n # current[e] /\ controller[e][n] = "open"
<1>1. tunnel[e] \in TunnelSet /\ test[e] \in TestSet /\ current[e] \in Nat
  BY DEF Typed
<1>2. /\ \A d \in Entries \ {e} : tunnel'[d] = tunnel[d]
      /\ ~tunnel'[e].timer /\ ~tunnel'[e].attached
      /\ tunnel'[e].reconnect = tunnel[e].reconnect
  BY <1>1 DEF StopEntry, Typed, TunnelSet
<1>3. /\ \A d \in Entries \ {e} : test'[d] = test[d]
      /\ test'[e].generation = test[e].generation + 1
      /\ test'[e].promise = NoProbe /\ test'[e].evidence = test[e].evidence
  BY <1>1 DEF StopEntry, Typed, TestSet
<1>4. /\ \A d \in Entries \ {e} : controller'[d] = controller[d]
      /\ \A n \in Numbers : controller'[e][n] = "open" =>
            n # current[e] /\ controller[e][n] = "open"
  <2>1. controller' = Closing(e, current[e])
    BY DEF StopEntry
  <2>2. QED
    BY <1>1, <2>1, ClosingFacts
<1>5. registered' = 0
  BY DEF StopEntry
<1>6. QED
  BY <1>2, <1>3, <1>4, <1>5

(* Traffic is dated, and is evidence at most of a passed test. *)
LEMMA TrafficEffect ==
    ASSUME Typed, NEW e \in Entries, Traffic(e)
    PROVE  /\ \A d \in Entries \ {e} : /\ tunnel'[d] = tunnel[d] /\ test'[d] = test[d]
                                       /\ carried'[d] = carried[d]
                                       /\ traffic'[d] = traffic[d]
           /\ traffic'[e] = Now(e) /\ session = "up" /\ tunnel[e].attached
           /\ tunnel'[e].timer = tunnel[e].timer
           /\ tunnel'[e].attached = tunnel[e].attached
           /\ tunnel'[e].reconnect = tunnel[e].reconnect
           /\ test'[e].promise = test[e].promise
           /\ \/ test' = test
              \/ /\ test'[e].generation = test[e].generation + 1
                 /\ Heeded(e) => /\ test'[e].state = "passed" /\ test'[e].evidence
                                 /\ test'[e].last = [verdict |-> "passed",
                                       controller |-> current[e],
                                       failures |-> failures[e]]
                 /\ ~Heeded(e) => /\ test'[e].evidence = test[e].evidence
                                  /\ test'[e].state = test[e].state
                                  /\ test'[e].last = test[e].last
<1>1. tunnel[e] \in TunnelSet
  BY DEF Typed
<1>2. /\ \A d \in Entries \ {e} : carried'[d] = carried[d] /\ traffic'[d] = traffic[d]
      /\ traffic'[e] = Now(e) /\ session = "up" /\ tunnel[e].attached
  BY DEF Traffic, Reports, Typed, Now
<1>3. /\ \A d \in Entries \ {e} : tunnel'[d] = tunnel[d]
      /\ tunnel'[e].timer = tunnel[e].timer
      /\ tunnel'[e].attached = tunnel[e].attached
      /\ tunnel'[e].reconnect = tunnel[e].reconnect
  BY <1>1 DEF Traffic, Typed, TunnelSet
<1>4. test' = test \/ test' = [test EXCEPT ![e] = Evident(e)]
  BY DEF Traffic, Typed
<1>5. QED
  BY <1>2, <1>3, <1>4, EvidentFacts DEF Typed

(* The timer is used up; if it is heeded the tunnel leaves its controller,
   its test and its handlers behind. *)
LEMMA ReconnectEffect ==
    ASSUME Typed, NEW e \in Entries, Reconnect(e)
    PROVE  /\ \A d \in Entries \ {e} : /\ tunnel'[d] = tunnel[d] /\ test'[d] = test[d]
                                       /\ controller'[d] = controller[d]
                                       /\ failures'[d] = failures[d]
           /\ tunnel[e].timer /\ ~tunnel'[e].timer
           /\ \/ /\ Heeded(e)
                 /\ tunnel'[e].reconnect = "closing" /\ ~tunnel'[e].attached
                 /\ test'[e].state = "untested" /\ ~test'[e].evidence
                 /\ test'[e].generation = test[e].generation + 1
                 /\ test'[e].promise = test[e].promise
                 /\ failures'[e] = failures[e] + 1
                 /\ \A n \in Numbers : controller'[e][n] = "open" =>
                       n # current[e] /\ controller[e][n] = "open"
              \/ /\ ~Heeded(e) /\ UNCHANGED <<test, failures, controller>>
                 /\ tunnel'[e].reconnect = tunnel[e].reconnect
                 /\ tunnel'[e].attached = tunnel[e].attached
<1>1. tunnel[e] \in TunnelSet /\ test[e] \in TestSet /\ current[e] \in Nat
  BY DEF Typed
<1>2. CASE Heeded(e)
  <2> DEFINE new == [tunnel[e] EXCEPT !.timer = FALSE, !.state = "reconnecting",
                                      !.attached = FALSE, !.reconnect = "closing"]
  <2>1. ~new.timer /\ new.reconnect = "closing" /\ ~new.attached
    BY <1>1 DEF TunnelSet
  <2>2. tunnel' = [tunnel EXCEPT ![e] = new] /\ tunnel[e].timer
    BY <1>2 DEF Reconnect, Typed
  <2> HIDE DEF new
  <2>3. /\ \A d \in Entries \ {e} : tunnel'[d] = tunnel[d]
        /\ ~tunnel'[e].timer /\ tunnel'[e].reconnect = "closing" /\ ~tunnel'[e].attached
    BY <2>1, <2>2 DEF Typed
  <2>4. /\ \A d \in Entries \ {e} : failures'[d] = failures[d]
        /\ failures'[e] = failures[e] + 1
    BY <1>2 DEF Reconnect, Typed
  <2>5. test' = [test EXCEPT ![e] = Invalidated(test[e])]
    BY <1>2 DEF Reconnect
  <2>6. controller' = Closing(e, current[e])
    BY <1>2 DEF Reconnect
  <2>7. /\ \A d \in Entries \ {e} : test'[d] = test[d]
        /\ test'[e].state = "untested" /\ ~test'[e].evidence
        /\ test'[e].generation = test[e].generation + 1
        /\ test'[e].promise = test[e].promise
    <3>1. test'[e] = Invalidated(test[e]) /\ \A d \in Entries \ {e} : test'[d] = test[d]
      BY <2>5 DEF Typed
    <3>2. QED
      BY <1>1, <3>1, InvalidatedFacts
  <2>8. /\ \A d \in Entries \ {e} : controller'[d] = controller[d]
        /\ \A n \in Numbers : controller'[e][n] = "open" =>
              n # current[e] /\ controller[e][n] = "open"
    BY <1>1, <2>6, ClosingFacts
  <2>9. QED
    BY <1>2, <2>2, <2>3, <2>7, <2>8, <2>4
<1>3. CASE ~Heeded(e)
  <2> DEFINE new == [tunnel[e] EXCEPT !.timer = FALSE]
  <2>1. ~new.timer /\ new.reconnect = tunnel[e].reconnect
        /\ new.attached = tunnel[e].attached
    BY <1>1 DEF TunnelSet
  <2>2. /\ tunnel' = [tunnel EXCEPT ![e] = new] /\ tunnel[e].timer
        /\ UNCHANGED <<test, failures, controller>>
    BY <1>3 DEF Reconnect, Typed
  <2> HIDE DEF new
  <2>3. QED
    BY <1>3, <2>1, <2>2 DEF Typed
<1>4. QED
  BY <1>2, <1>3

(* The new controller closes at once or becomes the one of the entry, with a
   probe of its own. *)
LEMMA ReconnectedEffect ==
    ASSUME Typed, NEW e \in Entries, Reconnected(e)
    PROVE  /\ \A d \in Entries \ {e} : /\ tunnel'[d] = tunnel[d] /\ test'[d] = test[d]
                                       /\ controller'[d] = controller[d]
                                       /\ probes'[d] = probes[d] /\ carried'[d] = carried[d]
                                       /\ current'[d] = current[d]
           /\ tunnel[e].reconnect = "starting" /\ tunnel'[e].reconnect = "none"
           /\ tunnel'[e].timer = tunnel[e].timer
           /\ \/ /\ Abandoned(e) /\ UNCHANGED <<current, carried, test, probes>>
                 /\ \A n \in Numbers : controller'[e][n] = IF n = current[e] + 1
                                             THEN "closing" ELSE controller[e][n]
              \/ /\ ~Abandoned(e)
                 /\ current'[e] = current[e] + 1 /\ ~carried'[e]
                 /\ \A n \in Numbers : controller'[e][n] = IF n = current[e] + 1
                                             THEN "open" ELSE controller[e][n]
                 /\ test'[e].state = "testing"
                 /\ test'[e].evidence = test[e].evidence
                 /\ test'[e].generation = test[e].generation + 1
                 /\ test'[e].promise = [controller |-> current[e] + 1,
                       generation |-> test[e].generation + 1, failures |-> failures[e]]
                 /\ probes'[e] = probes[e] \cup {test'[e].promise}
<1>1. tunnel[e] \in TunnelSet /\ test[e] \in TestSet /\ current[e] \in Nat
  BY DEF Typed
<1>2. /\ \A d \in Entries \ {e} : tunnel'[d] = tunnel[d]
      /\ tunnel[e].reconnect = "starting" /\ tunnel'[e].reconnect = "none"
      /\ tunnel'[e].timer = tunnel[e].timer
  <2> DEFINE new == [tunnel[e] EXCEPT !.reconnect = "none", !.attempt = 0,
                                      !.attached = TRUE, !.state = "healthy"]
             off == [tunnel[e] EXCEPT !.reconnect = "none"]
  <2>1. \A t \in {new, off} : t.reconnect = "none" /\ t.timer = tunnel[e].timer
    BY <1>1 DEF TunnelSet
  <2>2. \E t \in {new, off} : tunnel' = [tunnel EXCEPT ![e] = t]
    BY DEF Reconnected, Typed
  <2>3. tunnel[e].reconnect = "starting"
    BY DEF Reconnected, Starting
  <2> HIDE DEF new, off
  <2>4. QED
    BY <2>1, <2>2, <2>3 DEF Typed
<1>3. CASE Abandoned(e)
  <2>1. /\ controller' = [controller EXCEPT ![e][current[e] + 1] = "closing"]
        /\ UNCHANGED <<current, carried, test, probes>>
    BY <1>3 DEF Reconnected
  <2>2. QED
    BY <1>1, <1>2, <1>3, <2>1, PhaseFacts DEF Phases
<1>4. CASE ~Abandoned(e)
  <2>1. controller' = [controller EXCEPT ![e][current[e] + 1] = "open"]
    BY <1>4 DEF Reconnected
  <2>2. /\ \A d \in Entries \ {e} : controller'[d] = controller[d]
        /\ \A n \in Numbers : controller'[e][n] = IF n = current[e] + 1
                                    THEN "open" ELSE controller[e][n]
    BY <1>1, <2>1, PhaseFacts DEF Phases
  <2>3. /\ RunsProbe(e, Swapped(test[e]), current[e] + 1, failures[e])
        /\ failures[e] \in Nat /\ current[e] + 1 \in Nat
    BY <1>1, <1>4 DEF Reconnected, Typed
  <2>4. /\ Swapped(test[e]) \in TestSet /\ Swapped(test[e]).promise = NoProbe
        /\ Swapped(test[e]).generation = test[e].generation + 1
        /\ Swapped(test[e]).evidence = test[e].evidence
    BY <1>1, SwappedFacts
  <2>5. /\ test'[e].state = "testing" /\ test'[e].evidence = test[e].evidence
        /\ test'[e].generation = test[e].generation + 1
        /\ test'[e].promise = [controller |-> current[e] + 1,
              generation |-> test[e].generation + 1, failures |-> failures[e]]
        /\ probes'[e] = probes[e] \cup {test'[e].promise}
        /\ \A d \in Entries \ {e} : test'[d] = test[d] /\ probes'[d] = probes[d]
    BY <2>3, <2>4, ProbeEffect
  <2>6. /\ current'[e] = current[e] + 1 /\ ~carried'[e]
        /\ \A d \in Entries \ {e} : carried'[d] = carried[d] /\ current'[d] = current[d]
    BY <1>1, <1>4 DEF Reconnected, Typed
  <2>7. QED
    BY <1>2, <1>4, <2>2, <2>5, <2>6
<1>5. QED
  BY <1>3, <1>4

(* An entry is as it was made until its call returns, and only those whose *)
(* call has returned are registered.                                       *)
LEMMA StartedMoves ==
    ASSUME Typed, StartedOK, EvidenceOK, [Next]_vars
    PROVE  StartedOK'
<1> USE NumberFacts DEF vars, lostVars, carriedVars, loadVars, HasRuntime, StartedOK, Unused
<1>1. ASSUME NEW e \in Entries, Start(e) PROVE StartedOK'
  BY <1>1 DEF Start, Typed, CallIs
<1>2. ASSUME NEW e \in Entries, StartOpens(e) PROVE StartedOK'
  <2>1. RunsProbe(e, test[e], 1, 0) /\ test[e] \in TestSet
    BY <1>2 DEF StartOpens, Typed
  <2>2. \A d \in Entries \ {e} : /\ test'[d] = test[d] /\ probes'[d] = probes[d]
                                 /\ tunnel'[d] = tunnel[d] /\ call'[d] = call[d]
    BY <1>2, <2>1, ProbeEffect DEF StartOpens, Typed
  <2>3. call'[e] = "started" /\ registered' = e
    BY <1>2 DEF StartOpens, Typed
  <2>4. QED
    BY <1>2, <2>2, <2>3 DEF StartOpens
<1>3. ASSUME NEW e \in Entries, StartFails(e) PROVE StartedOK'
  BY <1>3 DEF StartFails, Typed, CallIs
<1>4. ASSUME StopEntry PROVE StartedOK'
  <2>1. /\ registered \in Entries /\ call[registered] = "started" /\ registered' = 0
    BY <1>4 DEF StopEntry, Typed
  <2>2. \A d \in Entries \ {registered} : test'[d] = test[d] /\ tunnel'[d] = tunnel[d]
    BY <1>4, <2>1 DEF StopEntry, Typed
  <2>3. QED
    BY <1>4, <2>1, <2>2 DEF StopEntry
<1>5. ASSUME NEW e \in Entries, Test(e) PROVE StartedOK'
  <2>1. /\ RunsProbe(e, test[e], current[e], failures[e]) /\ call[e] = "started"
        /\ test[e] \in TestSet /\ current[e] \in Nat /\ failures[e] \in Nat
    BY <1>5 DEF Test, Typed
  <2>2. \A d \in Entries \ {e} : test'[d] = test[d] /\ probes'[d] = probes[d]
    BY <2>1, ProbeEffect
  <2>3. QED
    BY <1>5, <2>1, <2>2 DEF Test
<1>6. ASSUME NEW e \in Entries, NEW p \in probes[e], NEW result, ProbeReturns(e, p, result)
      PROVE  StartedOK'
  <2>1. call[e] = "started"
    BY <1>6
  <2>2. \A d \in Entries \ {e} : /\ tunnel'[d] = tunnel[d] /\ test'[d] = test[d]
                                 /\ probes'[d] = probes[d] /\ carried'[d] = carried[d]
    <3>1. \A d \in Entries \ {e} : carried'[d] = carried[d]
      BY <1>6 DEF ProbeReturns, Typed
    <3>2. \A d \in Entries \ {e} : /\ tunnel'[d] = tunnel[d] /\ test'[d] = test[d]
                                   /\ probes'[d] = probes[d]
      <4> HIDE DEF StartedOK, Unused, vars, lostVars, carriedVars, loadVars
      <4> QED BY <1>6, ReturnEffect
    <3>3. QED
      BY <3>1, <3>2
  <2>3. QED
    BY <1>6, <2>1, <2>2 DEF ProbeReturns
<1>7. ASSUME NEW e \in Entries, NEW class \in Classes, FailedAs(e, class),
             call[e] = "started", call' = call, registered' = registered,
             current' = current, traffic' = traffic, probes' = probes,
             \A d \in Entries : carried'[d] => carried[d]
      PROVE  StartedOK'
  <2>1. \A d \in Entries \ {e} : /\ tunnel'[d] = tunnel[d] /\ test'[d] = test[d]
                                 /\ failures'[d] = failures[d]
    BY <1>7, FailureEffect
  <2>2. QED
    BY <1>7, <2>1
<1>8. ASSUME NEW e \in Entries, NEW class \in {"failed", "session-lost"},
             ControllerError(e, class)
      PROVE  StartedOK'
  <2>1. call[e] = "started" /\ class \in Classes
    BY <1>8 DEF ControllerError, Reports, Classes, FailedAs, ErrorVerdicts
  <2>2. QED
    BY <1>7, <1>8, <2>1 DEF ControllerError, Typed, FailedAs, ErrorVerdicts
<1>9. ASSUME NEW e \in Entries, Traffic(e) PROVE StartedOK'
  <2>1. call[e] = "started"
    BY <1>9 DEF Traffic, Reports
  <2>2. \A d \in Entries \ {e} : /\ tunnel'[d] = tunnel[d] /\ test'[d] = test[d]
                                 /\ carried'[d] = carried[d] /\ traffic'[d] = traffic[d]
    BY <1>9 DEF Traffic, Typed
  <2>3. QED
    BY <1>9, <2>1, <2>2 DEF Traffic
<1>10. ASSUME ConnectionCloses PROVE StartedOK'
  <2>1. \A d \in Entries : carried'[d] = FALSE
    BY <1>10 DEF ConnectionCloses
  <2>2. CASE registered # 0 /\ tunnel[registered].attached
    <3>1. /\ registered \in Entries /\ "session-lost" \in Classes
          /\ FailedAs(registered, "session-lost") /\ call[registered] = "started"
      BY <1>10, <2>2 DEF ConnectionCloses, Typed, Classes, FailedAs
    <3>2. QED
      BY <1>7, <1>10, <2>1, <3>1 DEF ConnectionCloses
  <2>3. CASE ~(registered # 0 /\ tunnel[registered].attached)
    BY <1>10, <2>1, <2>3 DEF ConnectionCloses
  <2>4. QED
    BY <2>2, <2>3
<1>11. ASSUME NEW e \in Entries, NEW k \in Numbers, Closed(e, k) PROVE StartedOK'
  BY <1>11 DEF Closed
<1>12. ASSUME NEW e \in Entries, Reconnect(e) PROVE StartedOK'
  <2>1. call[e] = "started"
    BY <1>12 DEF Reconnect
  <2>2. \A d \in Entries \ {e} : /\ tunnel'[d] = tunnel[d] /\ test'[d] = test[d]
                                 /\ failures'[d] = failures[d]
    BY <1>12 DEF Reconnect, Typed
  <2>3. QED
    BY <1>12, <2>1, <2>2 DEF Reconnect
<1>13. ASSUME NEW e \in Entries, StartAgain(e) PROVE StartedOK'
  <2>1. call[e] = "started"
    BY <1>13 DEF StartAgain
  <2>2. CASE ~HasRuntime
    <3>1. "failed" \in Classes /\ FailedAs(e, "failed")
      BY <1>13, <2>2 DEF StartAgain, Classes, FailedAs
    <3>2. QED
      BY <1>7, <1>13, <2>1, <3>1 DEF StartAgain
  <2>3. CASE HasRuntime
    <3>1. \A d \in Entries \ {e} : tunnel'[d] = tunnel[d]
      BY <1>13, <2>3 DEF StartAgain, Typed
    <3>2. QED
      BY <1>13, <2>1, <2>3, <3>1 DEF StartAgain
  <2>4. QED
    BY <2>2, <2>3
<1>14. ASSUME NEW e \in Entries, Reconnected(e) PROVE StartedOK'
  <2>1. call[e] = "started"
    BY <1>14 DEF Reconnected, Starting
  <2>2. \A d \in Entries \ {e} : tunnel'[d] = tunnel[d]
    BY <1>14 DEF Reconnected, Typed
  <2>3. CASE Abandoned(e)
    BY <1>14, <2>1, <2>2, <2>3 DEF Reconnected
  <2>4. CASE ~Abandoned(e)
    <3>1. /\ RunsProbe(e, Swapped(test[e]), current[e] + 1, failures[e])
          /\ Swapped(test[e]) \in TestSet
          /\ current[e] + 1 \in Nat /\ failures[e] \in Nat
      BY <1>14, <2>4, SwappedFacts DEF Reconnected, Typed
    <3>2. \A d \in Entries \ {e} : /\ test'[d] = test[d] /\ probes'[d] = probes[d]
                                   /\ carried'[d] = carried[d] /\ current'[d] = current[d]
      <4>1. \A d \in Entries \ {e} : /\ carried'[d] = carried[d]
                                     /\ current'[d] = current[d]
        BY <1>14, <2>4 DEF Reconnected, Typed
      <4>2. QED
        BY <3>1, <4>1, ProbeEffect
    <3>3. QED
      BY <1>14, <2>1, <2>2, <3>2 DEF Reconnected
  <2>5. QED
    BY <2>3, <2>4
<1>15. ASSUME NEW e \in Entries, NEW class \in Classes, ReconnectFails(e, class)
       PROVE  StartedOK'
  <2>1. call[e] = "started"
    BY <1>15 DEF ReconnectFails, Starting, FailedAs, ErrorVerdicts
  <2>2. QED
    BY <1>7, <1>15, <2>1 DEF ReconnectFails, FailedAs, ErrorVerdicts
<1>16. ASSUME Stop \/ Kill PROVE StartedOK'
  BY <1>4, <1>16 DEF Stop, Kill
<1>17. CASE UNCHANGED vars
  BY <1>17
<1>18. QED
  BY <1>1, <1>2, <1>3, <1>5, <1>6, <1>8, <1>9, <1>10, <1>11, <1>12, <1>13, <1>14,
     <1>15, <1>16, <1>17 DEF Next, Opens, Reconnects, Probed

-----------------------------------------------------------------------------
(* The numbers of its controllers stay in the range of the table. *)
LEMMA CurrentFacts ==
    ASSUME Typed, CountOK
    PROVE  /\ \A e \in Entries : current[e] \in Numbers
           /\ \A e \in Entries : Pending(e) => current[e] + 1 \in Numbers
           /\ \A e \in Entries : traffic[e].controller \in Numbers \cup {0}
<1>1. load.events \in 0..MaxEvents /\ events \in 0..load.events /\ MaxEvents \in Nat
  BY BoundAssumption DEF Typed
<1>2. ASSUME NEW e \in Entries
      PROVE  /\ current[e] \in Nat /\ current[e] >= 1
             /\ current[e] + (IF Pending(e) THEN 1 ELSE 0) <= MaxEvents + 2
             /\ traffic[e].controller \in Nat /\ traffic[e].controller <= current[e]
  <2>1. current[e] \in Nat /\ traffic[e].controller \in Nat
    BY DEF Typed
  <2>2. QED
    BY <1>1, <2>1 DEF CountOK
<1>3. QED
  BY <1>1, <1>2 DEF Numbers

(* What a tunnel that reconnects has left behind stays behind: the timer   *)
(* and the handlers are gone, the evidence is dropped and the controller   *)
(* is closing or closed.                                                   *)
LEMMA ReconnectMoves ==
    ASSUME Typed, StartedOK, EvidenceOK, CountOK, ReconnectOK, [Next]_vars
    PROVE  ReconnectOK'
<1> USE DEF vars, lostVars, carriedVars, loadVars, HasRuntime
<1>0. \A e \in Entries : current[e] \in Numbers /\ current[e] \in Nat
  BY CurrentFacts DEF Typed
<1>1. ASSUME NEW e \in Entries, Start(e) \/ StartFails(e) PROVE ReconnectOK'
  <2>1. /\ UNCHANGED <<tunnel, test, current>>
        /\ \/ controller' = controller
           \/ \E phase \in {"opening", "none"} :
                 controller' = [controller EXCEPT ![e][1] = phase]
    BY <1>1 DEF Start, StartFails
  <2>2. \A d \in Entries : \A n \in Numbers :
           controller'[d][n] = "open" => controller[d][n] = "open"
    BY <2>1, PhaseFacts DEF Phases
  <2>3. QED
    BY <1>0, <2>1, <2>2 DEF ReconnectOK
<1>2. ASSUME NEW e \in Entries, StartOpens(e) PROVE ReconnectOK'
  <2>1. current' = current
    BY <1>2 DEF StartOpens
  <2>2. QED
    BY <1>2, <2>1, OpenEffect DEF ReconnectOK
<1>3. ASSUME StopEntry PROVE ReconnectOK'
  <2>1. registered \in Entries /\ current' = current
    BY <1>3 DEF StopEntry, Typed
  <2>2. QED
    BY <1>0, <1>3, <2>1, StopEffect DEF ReconnectOK
<1>4. ASSUME NEW e \in Entries, Test(e) PROVE ReconnectOK'
  <2>1. /\ RunsProbe(e, test[e], current[e], failures[e])
        /\ test[e] \in TestSet /\ current[e] \in Nat /\ failures[e] \in Nat
        /\ UNCHANGED <<tunnel, current, controller>>
    BY <1>4 DEF Test, Typed
  <2>2. /\ \A d \in Entries \ {e} : test'[d] = test[d]
        /\ test'[e].evidence = test[e].evidence
    BY <2>1, ProbeEffect
  <2>3. QED
    BY <2>1, <2>2 DEF ReconnectOK
<1>5. ASSUME NEW e \in Entries, NEW p \in probes[e], NEW result, ProbeReturns(e, p, result)
      PROVE  ReconnectOK'
  <2>1. current' = current /\ controller' = controller
    BY <1>5 DEF ProbeReturns
  <2>2. /\ \A d \in Entries \ {e} : tunnel'[d] = tunnel[d] /\ test'[d] = test[d]
        /\ tunnel'[e].reconnect = tunnel[e].reconnect
        /\ tunnel'[e].attached = tunnel[e].attached
        /\ tunnel'[e].timer => tunnel[e].timer
    BY <1>5, ReturnEffect
  <2>3. test'[e].evidence => test[e].evidence
    BY <1>5, ReturnEffect DEF TakesResult
  <2>4. QED
    BY <2>1, <2>2, <2>3 DEF ReconnectOK
<1>6. ASSUME NEW e \in Entries, NEW class \in Classes, FailedAs(e, class),
             current' = current,
             \A d \in Entries \ {e} : \A n \in Numbers :
                controller'[d][n] = "open" => controller[d][n] = "open"
      PROVE  ReconnectOK'
  <2>1. /\ \A d \in Entries \ {e} : tunnel'[d] = tunnel[d] /\ test'[d] = test[d]
        /\ tunnel'[e].reconnect = "none"
    BY <1>6, FailureEffect
  <2>2. QED
    BY <1>0, <1>6, <2>1 DEF ReconnectOK
<1>7. ASSUME NEW e \in Entries, NEW class \in {"failed", "session-lost"},
             ControllerError(e, class)
      PROVE  ReconnectOK'
  <2>1. /\ class \in Classes /\ FailedAs(e, class)
        /\ current' = current /\ controller' = controller
    BY <1>7 DEF ControllerError, Classes, FailedAs, ErrorVerdicts
  <2>2. QED
    BY <1>6, <2>1
<1>8. ASSUME NEW e \in Entries, Traffic(e) PROVE ReconnectOK'
  <2>1. current' = current /\ controller' = controller
    BY <1>8 DEF Traffic
  <2>2. /\ \A d \in Entries \ {e} : tunnel'[d] = tunnel[d] /\ test'[d] = test[d]
        /\ tunnel[e].attached /\ tunnel'[e].reconnect = tunnel[e].reconnect
    BY <1>8, TrafficEffect
  <2>3. QED
    BY <2>1, <2>2 DEF ReconnectOK
<1>9. ASSUME ConnectionCloses PROVE ReconnectOK'
  <2>1. /\ current' = current
        /\ \A d \in Entries : \A n \in Numbers : controller'[d][n] # "open"
    BY <1>9 DEF ConnectionCloses
  <2>2. CASE registered # 0 /\ tunnel[registered].attached
    <3>1. /\ registered \in Entries /\ "session-lost" \in Classes
          /\ FailedAs(registered, "session-lost")
      BY <1>9, <2>2 DEF ConnectionCloses, Typed, Classes, FailedAs
    <3>2. QED
      BY <1>6, <2>1, <3>1
  <2>3. CASE ~(registered # 0 /\ tunnel[registered].attached)
    <3>1. tunnel' = tunnel /\ test' = test
      BY <1>9, <2>3 DEF ConnectionCloses
    <3>2. QED
      BY <1>0, <2>1, <3>1 DEF ReconnectOK
  <2>4. QED
    BY <2>2, <2>3
<1>10. ASSUME NEW e \in Entries, NEW k \in Numbers, Closed(e, k) PROVE ReconnectOK'
  <2>1. /\ UNCHANGED <<tunnel, test, current>> /\ k \in Nat
        /\ controller' = [controller EXCEPT ![e][k] = "closed"]
    BY <1>10 DEF Closed, Numbers
  <2>2. \A d \in Entries : \A n \in Numbers :
           controller'[d][n] = "open" => controller[d][n] = "open"
    BY <2>1, PhaseFacts DEF Phases
  <2>3. QED
    BY <1>0, <2>1, <2>2 DEF ReconnectOK
<1>11. ASSUME NEW e \in Entries, Reconnect(e) PROVE ReconnectOK'
  <2>1. current' = current
    BY <1>11 DEF Reconnect
  <2>2. CASE Heeded(e)
    BY <1>0, <1>11, <2>1, <2>2, ReconnectEffect DEF ReconnectOK
  <2>3. CASE ~Heeded(e)
    BY <1>0, <1>11, <2>1, <2>3, ReconnectEffect DEF ReconnectOK
  <2>4. QED
    BY <2>2, <2>3
<1>12. ASSUME NEW e \in Entries, StartAgain(e) PROVE ReconnectOK'
  <2>1. current' = current /\ tunnel[e].reconnect = "closing"
    BY <1>12 DEF StartAgain
  <2>2. CASE ~HasRuntime
    <3>1. "failed" \in Classes /\ FailedAs(e, "failed") /\ controller' = controller
      BY <1>12, <2>2 DEF StartAgain, Classes, FailedAs
    <3>2. QED
      BY <1>6, <2>1, <3>1
  <2>3. CASE HasRuntime
    <3> DEFINE new == [tunnel[e] EXCEPT !.reconnect = "starting"]
    <3>1. new.attached = tunnel[e].attached /\ new.timer = tunnel[e].timer
      <4>1. tunnel[e] \in TunnelSet
        BY DEF Typed
      <4>2. QED
        BY <4>1 DEF TunnelSet
    <3>2. /\ tunnel' = [tunnel EXCEPT ![e] = new] /\ test' = test
          /\ controller' = [controller EXCEPT ![e][current[e] + 1] = "opening"]
      BY <1>12, <2>3 DEF StartAgain, Typed
    <3> HIDE DEF new
    <3>3. \A d \in Entries : \A n \in Numbers :
             controller'[d][n] = "open" => controller[d][n] = "open"
      <4>1. current[e] + 1 \in Nat
        BY <1>0
      <4>2. QED
        BY <3>2, <4>1, PhaseFacts DEF Phases
    <3>4. \A d \in Entries : /\ tunnel'[d].attached = tunnel[d].attached
                             /\ tunnel'[d].timer = tunnel[d].timer
                             /\ tunnel'[d].reconnect # "none" =>
                                   tunnel[d].reconnect # "none"
      BY <2>1, <3>1, <3>2 DEF Typed
    <3>5. QED
      BY <1>0, <2>1, <3>2, <3>3, <3>4 DEF ReconnectOK
  <2>4. QED
    BY <2>2, <2>3
<1>13. ASSUME NEW e \in Entries, Reconnected(e) PROVE ReconnectOK'
  <2>1. \A d \in Entries \ {e} : tunnel'[d] = tunnel[d] /\ test'[d] = test[d]
    BY <1>13, ReconnectedEffect
  <2>2. \A d \in Entries \ {e} : controller'[d] = controller[d] /\ current'[d] = current[d]
    BY <1>13, ReconnectedEffect
  <2>3. tunnel'[e].reconnect = "none"
    BY <1>13, ReconnectedEffect
  <2>4. QED
    BY <2>1, <2>2, <2>3 DEF ReconnectOK
<1>14. ASSUME NEW e \in Entries, NEW class \in Classes, ReconnectFails(e, class)
       PROVE  ReconnectOK'
  <2>1. /\ FailedAs(e, class) /\ current' = current /\ current[e] + 1 \in Nat
        /\ controller' = [controller EXCEPT ![e][current[e] + 1] = "none"]
    BY <1>0, <1>14 DEF ReconnectFails, FailedAs, ErrorVerdicts
  <2>2. \A d \in Entries : \A n \in Numbers :
           controller'[d][n] = "open" => controller[d][n] = "open"
    BY <2>1, PhaseFacts DEF Phases
  <2>3. QED
    BY <1>6, <2>1, <2>2
<1>15. ASSUME Stop \/ Kill PROVE ReconnectOK'
  BY <1>3, <1>15 DEF Stop, Kill, ReconnectOK
<1>16. CASE UNCHANGED vars
  BY <1>16 DEF ReconnectOK
<1>17. QED
  BY <1>1, <1>2, <1>4, <1>5, <1>7, <1>8, <1>9, <1>10, <1>11, <1>12, <1>13, <1>14,
     <1>15, <1>16 DEF Next, Opens, Reconnects, Probed

(* A controller is replaced only after an event or the end of the          *)
(* connection, each of which is the reason of one reconnect at most.       *)
LEMMA CountMoves ==
    ASSUME Typed, StartedOK, EvidenceOK, CountOK, ReconnectOK, [Next]_vars
    PROVE  CountOK'
<1> USE DEF vars, lostVars, carriedVars, loadVars, HasRuntime
<1>0. /\ events \in Nat /\ session \in {"up", "lost", "killed"}
      /\ \A e \in Entries : current[e] \in Nat /\ traffic[e].controller \in Nat
  BY DEF Typed
<1>1. ASSUME current' = current, traffic' = traffic, session' = session, events' = events,
             \A e \in Entries : Pending(e)' => Pending(e)
      PROVE  CountOK'
  BY <1>0, <1>1 DEF CountOK
<1>2. ASSUME NEW e \in Entries, Start(e) \/ StartFails(e) \/ Test(e) PROVE CountOK'
  BY <1>1, <1>2 DEF Start, StartFails, Test, Pending
<1>3. ASSUME NEW e \in Entries, StartOpens(e) PROVE CountOK'
  <2>1. UNCHANGED <<current, traffic, session, events>>
    BY <1>3 DEF StartOpens
  <2>2. /\ \A d \in Entries \ {e} : tunnel'[d] = tunnel[d]
        /\ ~tunnel'[e].timer /\ tunnel'[e].reconnect = "none"
    BY <1>3, OpenEffect
  <2>3. QED
    BY <1>1, <2>1, <2>2 DEF Pending
<1>4. ASSUME StopEntry, session' \in {session, "killed"} PROVE CountOK'
  <2>1. registered \in Entries /\ UNCHANGED <<current, traffic, events>>
    BY <1>4 DEF StopEntry, Typed
  <2>2. \A d \in Entries : Pending(d)' => Pending(d)
    BY <1>4, <2>1, StopEffect DEF Pending
  <2>3. QED
    BY <1>0, <1>4, <2>1, <2>2 DEF CountOK
<1>5. ASSUME NEW e \in Entries, NEW p \in probes[e], NEW result, ProbeReturns(e, p, result)
      PROVE  CountOK'
  <2>1. UNCHANGED <<current, traffic, session, events>>
    BY <1>5 DEF ProbeReturns
  <2>2. /\ \A d \in Entries \ {e} : tunnel'[d] = tunnel[d]
        /\ tunnel'[e].reconnect = tunnel[e].reconnect
        /\ tunnel'[e].timer => tunnel[e].timer
    BY <1>5, ReturnEffect
  <2>3. QED
    BY <1>1, <2>1, <2>2 DEF Pending
<1>6. ASSUME NEW e \in Entries, NEW class \in {"failed", "session-lost"},
             ControllerError(e, class)
      PROVE  CountOK'
  <2>1. UNCHANGED <<current, traffic, session>> /\ events' = events + 1
    BY <1>6 DEF ControllerError, Reports, FailedAs, ErrorVerdicts
  <2>2. QED
    BY <1>0, <2>1 DEF CountOK, Pending
<1>7. ASSUME NEW e \in Entries, Traffic(e) PROVE CountOK'
  <2>1. UNCHANGED <<current, session>> /\ events' = events + 1
    BY <1>7 DEF Traffic, Reports
  <2>2. \A d \in Entries : traffic'[d].controller <= current[d]
    <3>1. traffic'[e] = Now(e) /\ \A d \in Entries \ {e} : traffic'[d] = traffic[d]
      BY <1>7, TrafficEffect
    <3>2. QED
      BY <1>0, <3>1 DEF CountOK, Now
  <2>3. QED
    BY <1>0, <2>1, <2>2 DEF CountOK, Pending
<1>8. ASSUME ConnectionCloses PROVE CountOK'
  <2>1. /\ UNCHANGED <<current, traffic, events>> /\ session = "up" /\ session' = "lost"
    BY <1>8 DEF ConnectionCloses
  <2>2. QED
    BY <1>0, <2>1 DEF CountOK, Pending
<1>9. ASSUME NEW e \in Entries, NEW k \in Numbers, Closed(e, k) PROVE CountOK'
  BY <1>1, <1>9 DEF Closed, Pending
<1>10. ASSUME NEW e \in Entries, Reconnect(e) PROVE CountOK'
  <2>1. UNCHANGED <<current, traffic, session, events>>
    BY <1>10 DEF Reconnect
  <2>2. \A d \in Entries \ {e} : tunnel'[d] = tunnel[d]
    BY <1>10, ReconnectEffect
  <2>3. tunnel[e].timer
    BY <1>10 DEF Reconnect
  <2>4. QED
    BY <1>1, <2>1, <2>2, <2>3 DEF Pending
<1>11. ASSUME NEW e \in Entries, NEW class \in Classes, FailedAs(e, class),
              tunnel[e].reconnect # "none", UNCHANGED <<current, traffic, session, events>>
       PROVE  CountOK'
  <2>1. \A d \in Entries \ {e} : tunnel'[d] = tunnel[d]
    BY <1>11, FailureEffect
  <2>2. QED
    BY <1>1, <1>11, <2>1 DEF Pending
<1>12. ASSUME NEW e \in Entries, StartAgain(e) PROVE CountOK'
  <2>1. /\ UNCHANGED <<current, traffic, session, events>>
        /\ tunnel[e].reconnect = "closing"
    BY <1>12 DEF StartAgain
  <2>2. CASE ~HasRuntime
    <3>1. "failed" \in Classes /\ FailedAs(e, "failed")
      BY <1>12, <2>2 DEF StartAgain, Classes, FailedAs
    <3>2. QED
      BY <1>11, <2>1, <3>1
  <2>3. CASE HasRuntime
    <3>1. \A d \in Entries \ {e} : tunnel'[d] = tunnel[d]
      BY <1>12, <2>3 DEF StartAgain, Typed
    <3>2. QED
      BY <1>1, <2>1, <3>1 DEF Pending
  <2>4. QED
    BY <2>2, <2>3
<1>13. ASSUME NEW e \in Entries, NEW class \in Classes, ReconnectFails(e, class)
       PROVE  CountOK'
  BY <1>11, <1>13 DEF ReconnectFails, Starting, FailedAs, ErrorVerdicts
<1>14. ASSUME NEW e \in Entries, Reconnected(e) PROVE CountOK'
  <2>1. UNCHANGED <<traffic, session, events>>
    BY <1>14 DEF Reconnected
  <2>2. \A d \in Entries \ {e} : tunnel'[d] = tunnel[d]
    BY <1>14, ReconnectedEffect
  <2>3. \A d \in Entries \ {e} : current'[d] = current[d]
    BY <1>14, ReconnectedEffect
  <2>4. current'[e] \in {current[e], current[e] + 1}
    BY <1>14, ReconnectedEffect
  <2>5. Pending(e) /\ ~Pending(e)'
    <3>1. tunnel[e].reconnect = "starting" /\ tunnel'[e].reconnect = "none"
      BY <1>14, ReconnectedEffect
    <3>2. tunnel'[e].timer = tunnel[e].timer
      BY <1>14, ReconnectedEffect
    <3>3. QED
      BY <3>1, <3>2 DEF Pending, ReconnectOK
  <2>6. \A d \in Entries \ {e} : Pending(d)' = Pending(d)
    BY <2>2 DEF Pending
  <2>7. QED
    <3>1. ASSUME NEW d \in Entries
          PROVE  /\ current'[d] >= 1
                 /\ current'[d] + (IF Pending(d)' THEN 1 ELSE 0)
                       <= events + (IF session = "up" THEN 1 ELSE 2)
                 /\ traffic[d].controller <= current'[d]
      <4>1. CASE d = e
        <5>1. /\ current[e] >= 1 /\ current[e] + 1 <= events + (IF session = "up" THEN 1 ELSE 2)
              /\ traffic[e].controller <= current[e]
          BY <2>5 DEF CountOK
        <5>2. QED
          BY <1>0, <2>4, <2>5, <4>1, <5>1
      <4>2. CASE d # e
        <5>1. /\ current[d] >= 1 /\ traffic[d].controller <= current[d]
              /\ current[d] + (IF Pending(d) THEN 1 ELSE 0)
                       <= events + (IF session = "up" THEN 1 ELSE 2)
          BY DEF CountOK
        <5>2. current'[d] = current[d] /\ Pending(d)' = Pending(d)
          BY <2>3, <2>6, <4>2
        <5>3. QED
          BY <5>1, <5>2
      <4>3. QED
        BY <4>1, <4>2
    <3>2. QED
      BY <2>1, <3>1 DEF CountOK
<1>15. ASSUME Stop \/ Kill PROVE CountOK'
  <2>1. CASE StopEntry
    BY <1>4, <1>15, <2>1 DEF Stop, Kill
  <2>2. CASE ~StopEntry
    <3>1. /\ UNCHANGED <<current, traffic, tunnel, events>>
          /\ session # "killed" /\ session' = "killed"
      BY <1>15, <2>2 DEF Stop, Kill
    <3>2. QED
      BY <1>0, <3>1 DEF CountOK, Pending
  <2>3. QED
    BY <2>1, <2>2
<1>16. CASE UNCHANGED vars
  BY <1>16 DEF CountOK, Pending
<1>17. QED
  BY <1>2, <1>3, <1>5, <1>6, <1>7, <1>8, <1>9, <1>10, <1>12, <1>13, <1>14,
     <1>15, <1>16 DEF Next, Opens, Reconnects, Probed

(* Only a start fills the map of a killed session. *)
LEMMA KilledMoves ==
    ASSUME Typed, KilledOK, [Next]_vars
    PROVE  KilledOK'
<1> USE DEF vars, lostVars, carriedVars, loadVars, HasRuntime
<1>1. CASE \E e \in Entries : StartOpens(e)
  BY <1>1 DEF StartOpens, KilledOK
<1>2. CASE Stop \/ Kill
  BY <1>2 DEF Stop, Kill, StopEntry, KilledOK
<1>3. CASE UNCHANGED <<registered, forgotten>> /\ HasRuntime' = HasRuntime
  BY <1>3 DEF KilledOK
<1>4. ASSUME NEW e \in Entries,
             \/ Start(e) \/ Test(e) \/ Traffic(e) \/ StartFails(e) \/ Reconnected(e)
             \/ Reconnects(e) \/ Probed(e)
             \/ \E class \in Classes : ReconnectFails(e, class) \/ ControllerError(e, class)
      PROVE  UNCHANGED <<registered, forgotten, session>>
  BY <1>4 DEF Start, Test, Traffic, StartFails, Reconnected, ReconnectFails, Reconnects,
     Reconnect, StartAgain, Closed, Probed, ProbeReturns, ControllerError
<1>5. CASE ConnectionCloses
  BY <1>3, <1>5 DEF ConnectionCloses
<1>6. CASE UNCHANGED vars
  BY <1>3, <1>6
<1>7. QED
  BY <1>1, <1>2, <1>3, <1>4, <1>5, <1>6 DEF Next, Opens, Classes

(* A controller becomes open only as the one of its registered entry, and  *)
(* one that leaves its place there has been told to close.                 *)
LEMMA ListenerMoves ==
    ASSUME Typed, StartedOK, KilledOK, EvidenceOK, CountOK, ReconnectOK,
           OnlyStartsLeak, [Next]_vars
    PROVE  OnlyStartsLeak'
<1> USE DEF vars, lostVars, carriedVars, loadVars
<1>0. \A e \in Entries : current[e] \in Numbers /\ current[e] \in Nat
  BY CurrentFacts DEF Typed
<1>1. ASSUME UNCHANGED <<registered, lostVars, current>>, HasRuntime' = HasRuntime,
             \A e \in Entries : \A k \in Numbers :
                controller'[e][k] = "open" => controller[e][k] = "open"
      PROVE  OnlyStartsLeak'
  BY <1>1 DEF OnlyStartsLeak, Found
<1>2. ASSUME NEW e \in Entries, NEW k \in Nat, NEW phase \in Phases \ {"open"},
             controller' = [controller EXCEPT ![e][k] = phase],
             UNCHANGED <<registered, lostVars, current>>, HasRuntime' = HasRuntime
      PROVE  OnlyStartsLeak'
  <2>1. \A d \in Entries : \A n \in Numbers :
           controller'[d][n] = "open" => controller[d][n] = "open"
    BY <1>2, PhaseFacts
  <2>2. QED
    BY <1>1, <1>2, <2>1
<1>3. ASSUME NEW e \in Entries, Start(e) PROVE OnlyStartsLeak'
  <2>1. UNCHANGED <<registered, lostVars, current>> /\ HasRuntime' = HasRuntime
    BY <1>3 DEF Start, HasRuntime
  <2>2. CASE registered # 0
    BY <1>1, <1>3, <2>1, <2>2 DEF Start, HasRuntime
  <2>3. CASE registered = 0
    <3>1. controller' = [controller EXCEPT ![e][1] = "opening"]
      BY <1>3, <2>3 DEF Start, HasRuntime
    <3>2. QED
      BY <1>2, <2>1, <3>1 DEF Phases
  <2>4. QED
    BY <2>2, <2>3
<1>4. ASSUME NEW e \in Entries, StartOpens(e) PROVE OnlyStartsLeak'
  <2>1. current' = current /\ current[e] = 1 /\ session' = session
    BY <1>4 DEF StartOpens, StartedOK, Unused
  <2>2. /\ registered' = e /\ overwritten' = overwritten \cup ({registered} \ {0})
        /\ forgotten \subseteq forgotten'
        /\ ~HasRuntime => e \in forgotten'
    BY <1>4 DEF StartOpens
  <2>3. \A d \in Entries \ {e} : controller'[d] = controller[d]
    BY <1>4, OpenEffect
  <2>4. \A n \in Numbers : controller'[e][n] = IF n = 1 THEN "open" ELSE controller[e][n]
    BY <1>4, OpenEffect
  <2>5. ASSUME NEW d \in Entries, NEW k \in Numbers, controller'[d][k] = "open"
        PROVE  k = current'[d] /\ (Found(d)' \/ d \in overwritten' \cup forgotten')
    <3>1. CASE d = e
      <4>1. k = 1 \/ controller[e][k] = "open"
        BY <2>4, <2>5, <3>1
      <4>2. k = current[e]
        BY <2>1, <4>1 DEF OnlyStartsLeak
      <4>3. QED
        BY <2>1, <2>2, <3>1, <4>2 DEF Found, HasRuntime
    <3>2. CASE d # e
      <4>1. controller[d][k] = "open"
        BY <2>3, <2>5, <3>2
      <4>2. k = current[d] /\ (registered = d \/ d \in overwritten \cup forgotten)
        BY <4>1 DEF OnlyStartsLeak, Found
      <4>3. QED
        BY <2>1, <2>2, <4>2, NumberFacts DEF Found, HasRuntime
    <3>3. QED
      BY <3>1, <3>2
  <2>6. QED
    BY <2>5 DEF OnlyStartsLeak
<1>5. ASSUME NEW e \in Entries, StartFails(e) PROVE OnlyStartsLeak'
  BY <1>2, <1>5 DEF StartFails, Phases, HasRuntime
<1>6. ASSUME StopEntry PROVE OnlyStartsLeak'
  <2> DEFINE e == registered
  <2>1. e \in Entries /\ current' = current /\ UNCHANGED lostVars
    BY <1>6 DEF StopEntry, Typed
  <2>2. \A d \in Entries \ {e} : controller'[d] = controller[d]
    BY <1>6, <2>1, StopEffect
  <2>3. \A n \in Numbers : controller'[e][n] = "open" =>
           n # current[e] /\ controller[e][n] = "open"
    BY <1>6, <2>1, StopEffect
  <2>4. ASSUME NEW d \in Entries, NEW k \in Numbers, controller'[d][k] = "open"
        PROVE  k = current[d] /\ d \in overwritten \cup forgotten
    <3>1. d # e
      BY <2>3, <2>4 DEF OnlyStartsLeak
    <3>2. QED
      BY <2>2, <2>4, <3>1 DEF OnlyStartsLeak, Found
  <2>5. QED
    BY <2>1, <2>4 DEF OnlyStartsLeak
<1>7. ASSUME NEW e \in Entries, Reconnect(e) PROVE OnlyStartsLeak'
  <2>1. UNCHANGED <<registered, lostVars, current>> /\ HasRuntime' = HasRuntime
    BY <1>7 DEF Reconnect, HasRuntime
  <2>2. controller' = controller \/ controller' = Closing(e, current[e])
    BY <1>7 DEF Reconnect, HasRuntime
  <2>3. \A d \in Entries : \A n \in Numbers :
           controller'[d][n] = "open" => controller[d][n] = "open"
    <3>1. CASE controller' = controller
      BY <3>1
    <3>2. CASE controller' = Closing(e, current[e])
      <4>1. /\ \A d \in Entries \ {e} : controller'[d] = controller[d]
            /\ \A n \in Numbers : controller'[e][n] = "open" => controller[e][n] = "open"
        BY <1>0, <3>2, ClosingFacts
      <4>2. QED
        BY <4>1
    <3>3. QED
      BY <2>2, <3>1, <3>2
  <2>4. QED
    BY <1>1, <2>1, <2>3
<1>8. ASSUME NEW e \in Entries, StartAgain(e) PROVE OnlyStartsLeak'
  <2>1. UNCHANGED <<registered, lostVars, current>> /\ HasRuntime' = HasRuntime /\ current[e] + 1 \in Nat
    BY <1>0, <1>8 DEF StartAgain, HasRuntime
  <2>2. \/ controller' = controller
        \/ controller' = [controller EXCEPT ![e][current[e] + 1] = "opening"]
    BY <1>8 DEF StartAgain, HasRuntime
  <2>3. QED
    BY <1>1, <1>2, <2>1, <2>2 DEF Phases
<1>9. ASSUME NEW e \in Entries, Reconnected(e) PROVE OnlyStartsLeak'
  <2>1. UNCHANGED <<registered, lostVars>> /\ HasRuntime' = HasRuntime
    BY <1>9 DEF Reconnected, HasRuntime
  <2>2. CASE Abandoned(e)
    <3>1. /\ current' = current /\ current[e] + 1 \in Nat
          /\ controller' = [controller EXCEPT ![e][current[e] + 1] = "closing"]
      BY <1>0, <1>9, <2>2 DEF Reconnected
    <3>2. QED
      BY <1>2, <2>1, <3>1 DEF Phases
  <2>3. CASE ~Abandoned(e)
    <3>1. \A d \in Entries \ {e} : controller'[d] = controller[d] /\ current'[d] = current[d]
      BY <1>9, ReconnectedEffect
    <3>2. /\ current'[e] = current[e] + 1
          /\ \A n \in Numbers : controller'[e][n] = IF n = current[e] + 1 THEN "open"
                                                    ELSE controller[e][n]
      BY <1>9, <2>3, ReconnectedEffect
    <3>3. controller[e][current[e]] # "open"
      BY <1>9 DEF Reconnected, Starting, ReconnectOK
    <3>4. Found(e) \/ e \in forgotten
      BY <2>3, NumberFacts DEF Abandoned, KilledOK, Found
    <3>5. ASSUME NEW d \in Entries, NEW k \in Numbers, controller'[d][k] = "open"
          PROVE  k = current'[d] /\ (Found(d) \/ d \in overwritten \cup forgotten)
      <4>1. CASE d = e
        BY <3>2, <3>3, <3>4, <3>5, <4>1 DEF OnlyStartsLeak
      <4>2. CASE d # e
        BY <3>1, <3>5, <4>2 DEF OnlyStartsLeak
      <4>3. QED
        BY <4>1, <4>2
    <3>6. QED
      BY <2>1, <3>5 DEF OnlyStartsLeak, Found
  <2>4. QED
    BY <2>2, <2>3
<1>10. ASSUME NEW e \in Entries, NEW class \in Classes, ReconnectFails(e, class)
       PROVE  OnlyStartsLeak'
  <2>1. /\ UNCHANGED <<registered, lostVars, current>> /\ HasRuntime' = HasRuntime /\ current[e] + 1 \in Nat
        /\ controller' = [controller EXCEPT ![e][current[e] + 1] = "none"]
    BY <1>0, <1>10 DEF ReconnectFails, FailedAs, ErrorVerdicts, HasRuntime
  <2>2. QED
    BY <1>2, <2>1 DEF Phases
<1>11. ASSUME NEW e \in Entries, NEW k \in Numbers, Closed(e, k) PROVE OnlyStartsLeak'
  <2>1. /\ UNCHANGED <<registered, lostVars, current>> /\ HasRuntime' = HasRuntime
        /\ controller' = [controller EXCEPT ![e][k] = "closed"]
    BY <1>11 DEF Closed, HasRuntime
  <2>2. k \in Nat /\ "closed" \in Phases \ {"open"}
    BY DEF Phases, Numbers
  <2>3. QED
    BY <1>2, <2>1, <2>2
<1>12. ASSUME ConnectionCloses PROVE OnlyStartsLeak'
  BY <1>1, <1>12 DEF ConnectionCloses, HasRuntime
<1>13. ASSUME NEW e \in Entries,
              \/ Test(e) \/ Traffic(e)
              \/ \E p \in probes[e] : \E result \in Results(e, p) : ProbeReturns(e, p, result)
              \/ \E class \in {"failed", "session-lost"} : ControllerError(e, class)
       PROVE  OnlyStartsLeak'
  <2>1. UNCHANGED <<registered, lostVars, current, controller>> /\ HasRuntime' = HasRuntime
    BY <1>13 DEF Test, Traffic, ProbeReturns, ControllerError, HasRuntime
  <2>2. QED
    BY <1>1, <2>1
<1>14. ASSUME Stop \/ Kill PROVE OnlyStartsLeak'
  <2>1. CASE StopEntry
    BY <1>6, <2>1
  <2>2. CASE ~StopEntry
    <3>1. registered = 0 /\ UNCHANGED <<registered, lostVars, current, controller>>
      BY <1>14, <2>2 DEF Stop, Kill
    <3>2. \A d \in Entries : ~Found(d)
      BY <3>1, NumberFacts DEF Found
    <3>3. QED
      BY <3>1, <3>2 DEF OnlyStartsLeak
  <2>3. QED
    BY <2>1, <2>2
<1>15. CASE UNCHANGED vars
  BY <1>1, <1>15 DEF HasRuntime
<1>16. QED
  BY <1>3, <1>4, <1>5, <1>7, <1>8, <1>9, <1>10, <1>11, <1>12, <1>13, <1>14, <1>15
     DEF Next, Opens, Reconnects, Probed

(* The probes of the present generation are those begun since the last     *)
(* failure: what counts a failure starts a generation.                     *)
LEMMA ProbesMoves ==
    ASSUME Typed, StartedOK, EvidenceOK, ReconnectOK, ProbesOK, [Next]_vars
    PROVE  ProbesOK'
<1> USE DEF vars, lostVars, carriedVars, loadVars, HasRuntime
<1>0. \A e \in Entries : /\ test[e] \in TestSet /\ test[e].generation \in Nat
                         /\ probes[e] \subseteq ProbeSet
                         /\ failures[e] \in Nat /\ current[e] \in Nat
                         /\ \A p \in probes[e] : p.generation \in Nat
  BY DEF Typed, TestSet, ProbeSet
<1>1. ASSUME NEW e \in Entries, probes' = probes,
             \A d \in Entries \ {e} : test'[d] = test[d] /\ failures'[d] = failures[d],
             test'[e].promise = test[e].promise,
             \/ test'[e].generation = test[e].generation + 1
             \/ test'[e].generation = test[e].generation /\ failures'[e] = failures[e]
      PROVE  ProbesOK'
  <2>1. ASSUME NEW d \in Entries
        PROVE  /\ test'[d].promise \in probes[d] \cup {NoProbe}
               /\ \A p \in probes[d] :
                     /\ p.generation <= test'[d].generation
                     /\ p.generation = test'[d].generation => p.failures = failures'[d]
    <3>1. CASE d # e
      BY <1>1, <3>1 DEF ProbesOK
    <3>2. CASE d = e
      <4>1. test'[e].promise \in probes[e] \cup {NoProbe}
        BY <1>1 DEF ProbesOK
      <4>2. ASSUME NEW p \in probes[e]
            PROVE  /\ p.generation <= test'[e].generation
                   /\ p.generation = test'[e].generation => p.failures = failures'[e]
        <5>1. /\ p.generation <= test[e].generation /\ p.generation \in Nat
              /\ p.generation = test[e].generation => p.failures = failures[e]
              /\ test[e].generation \in Nat
          BY <1>0 DEF ProbesOK
        <5>2. QED
          BY <1>1, <5>1
      <4>3. QED
        BY <3>2, <4>1, <4>2
    <3>3. QED
      BY <3>1, <3>2
  <2>2. QED
    BY <1>1, <2>1 DEF ProbesOK
<1>2. ASSUME NEW e \in Entries, NEW p,
             \A d \in Entries \ {e} : test'[d] = test[d] /\ probes'[d] = probes[d],
             failures' = failures, probes'[e] = probes[e] \cup {p},
             test'[e].promise = p, test'[e].generation = p.generation,
             p.failures = failures[e], p.generation \in Nat,
             p.generation >= test[e].generation
      PROVE  ProbesOK'
  <2>1. ASSUME NEW q \in probes[e] \cup {p}
        PROVE  /\ q.generation <= p.generation
               /\ q.generation = p.generation => q.failures = failures[e]
    <3>1. CASE q = p
      BY <1>2, <3>1
    <3>2. CASE q # p
      <4>1. /\ q.generation <= test[e].generation /\ q.generation \in Nat
            /\ q.generation = test[e].generation => q.failures = failures[e]
            /\ test[e].generation \in Nat
        BY <1>0, <2>1, <3>2 DEF ProbesOK
      <4>2. QED
        BY <1>2, <4>1
    <3>3. QED
      BY <3>1, <3>2
  <2>2. QED
    BY <1>2, <2>1 DEF ProbesOK
<1>3. ASSUME UNCHANGED <<test, probes, failures>> PROVE ProbesOK'
  BY <1>3 DEF ProbesOK
<1>4. ASSUME NEW e \in Entries, Start(e) \/ StartFails(e) \/ \E k \in Numbers : Closed(e, k)
      PROVE  ProbesOK'
  BY <1>3, <1>4 DEF Start, StartFails, Closed
<1>5. ASSUME NEW e \in Entries, StartOpens(e) PROVE ProbesOK'
  <2>1. \A d \in Entries \ {e} : test'[d] = test[d] /\ probes'[d] = probes[d]
    BY <1>5, OpenEffect
  <2>2. /\ test'[e].generation = 0 /\ probes'[e] = {test'[e].promise}
        /\ test'[e].promise = [controller |-> 1, generation |-> 0, failures |-> 0]
    BY <1>5, OpenEffect
  <2>3. failures' = failures /\ failures[e] = 0
    BY <1>5 DEF StartOpens, StartedOK, Unused
  <2>4. ASSUME NEW q \in probes'[e]
        PROVE  q.generation = 0 /\ q.failures = 0
    BY <2>2, <2>4
  <2>5. QED
    BY <2>1, <2>2, <2>3, <2>4 DEF ProbesOK
<1>6. ASSUME StopEntry PROVE ProbesOK'
  <2> DEFINE e == registered
  <2>1. e \in Entries /\ probes' = probes /\ failures' = failures
    BY <1>6 DEF StopEntry, Typed
  <2>2. \A d \in Entries \ {e} : test'[d] = test[d]
    BY <1>6, <2>1, StopEffect
  <2>3. test'[e].generation = test[e].generation + 1 /\ test'[e].promise = NoProbe
    BY <1>6, <2>1, StopEffect
  <2>4. ASSUME NEW p \in probes[e] PROVE p.generation < test'[e].generation
    <3>1. /\ p.generation <= test[e].generation /\ p.generation \in Nat
          /\ test[e].generation \in Nat
      BY <1>0, <2>1 DEF ProbesOK
    <3>2. QED
      BY <2>3, <3>1
  <2>5. ASSUME NEW p \in probes[e]
        PROVE  p.generation <= test'[e].generation /\ p.generation # test'[e].generation
    <3>1. p.generation \in Nat /\ test'[e].generation \in Nat
      BY <1>0, <2>1, <2>3
    <3>2. QED
      BY <2>4, <3>1
  <2>6. QED
    BY <2>1, <2>2, <2>3, <2>5 DEF ProbesOK
<1>7. ASSUME NEW e \in Entries, Test(e) PROVE ProbesOK'
  <2>1. /\ RunsProbe(e, test[e], current[e], failures[e]) /\ failures' = failures
        /\ test[e] \in TestSet /\ current[e] \in Nat /\ failures[e] \in Nat
    BY <1>0, <1>7 DEF Test
  <2>2. \A d \in Entries \ {e} : test'[d] = test[d] /\ probes'[d] = probes[d]
    BY <2>1, ProbeEffect
  <2>3. CASE test[e].promise # NoProbe
    <3>1. test'[e] = test[e] /\ probes' = probes
      BY <2>1, <2>3, ProbeEffect
    <3>2. QED
      BY <1>1, <2>1, <2>2, <3>1
  <2>4. CASE test[e].promise = NoProbe
    <3> DEFINE p == [controller |-> current[e], generation |-> test[e].generation,
                     failures |-> failures[e]]
    <3>1. test'[e].promise = p /\ probes'[e] = probes[e] \cup {p}
      BY <2>1, <2>4, ProbeEffect
    <3>2. test'[e].generation = test[e].generation
      BY <2>1, ProbeEffect
    <3>3. p.generation = test[e].generation /\ p.failures = failures[e]
      OBVIOUS
    <3> HIDE DEF p
    <3>4. QED
      BY <1>0, <1>2, <2>1, <2>2, <3>1, <3>2, <3>3
  <2>5. QED
    BY <2>3, <2>4
<1>8. ASSUME NEW e \in Entries, NEW p \in probes[e], NEW result, ProbeReturns(e, p, result)
      PROVE  ProbesOK'
  <2>1. failures' = failures
    BY <1>8 DEF ProbeReturns
  <2>2. /\ \A d \in Entries \ {e} : test'[d] = test[d] /\ probes'[d] = probes[d]
        /\ probes'[e] = probes[e] \ {p} /\ test'[e].generation = test[e].generation
    BY <1>8, ReturnEffect
  <2>3. test'[e].promise = IF test[e].promise = p THEN NoProbe ELSE test[e].promise
    BY <1>8, ReturnEffect
  <2>4. QED
    BY <2>1, <2>2, <2>3 DEF ProbesOK
<1>9. ASSUME NEW e \in Entries, NEW class \in Classes, FailedAs(e, class), probes' = probes
      PROVE  ProbesOK'
  <2>1. \A d \in Entries \ {e} : test'[d] = test[d] /\ failures'[d] = failures[d]
    BY <1>9, FailureEffect
  <2>2. CASE Heeded(e)
    BY <1>1, <1>9, <2>1, <2>2, FailureEffect
  <2>3. CASE ~Heeded(e)
    BY <1>3, <1>9, <2>3, FailureEffect
  <2>4. QED
    BY <2>2, <2>3
<1>10. ASSUME NEW e \in Entries, NEW class \in {"failed", "session-lost"},
              ControllerError(e, class)
       PROVE  ProbesOK'
  BY <1>9, <1>10 DEF ControllerError, Classes, FailedAs, ErrorVerdicts
<1>11. ASSUME NEW e \in Entries, Traffic(e) PROVE ProbesOK'
  <2>1. failures' = failures /\ probes' = probes
    BY <1>11 DEF Traffic
  <2>2. \A d \in Entries \ {e} : test'[d] = test[d]
    BY <1>11, TrafficEffect
  <2>3. test'[e].promise = test[e].promise
    BY <1>11, TrafficEffect
  <2>4. test' = test \/ test'[e].generation = test[e].generation + 1
    BY <1>11, TrafficEffect
  <2>5. QED
    BY <1>1, <2>1, <2>2, <2>3, <2>4
<1>12. ASSUME ConnectionCloses PROVE ProbesOK'
  <2>1. CASE registered # 0 /\ tunnel[registered].attached
    BY <1>9, <1>12, <2>1 DEF ConnectionCloses, Typed, Classes, FailedAs
  <2>2. CASE ~(registered # 0 /\ tunnel[registered].attached)
    BY <1>3, <1>12, <2>2 DEF ConnectionCloses
  <2>3. QED
    BY <2>1, <2>2
<1>13. ASSUME NEW e \in Entries, Reconnect(e) PROVE ProbesOK'
  <2>1. probes' = probes
    BY <1>13 DEF Reconnect
  <2>2. CASE Heeded(e)
    <3>1. \A d \in Entries \ {e} : test'[d] = test[d] /\ failures'[d] = failures[d]
      BY <1>13, ReconnectEffect
    <3>2. /\ test'[e].generation = test[e].generation + 1
          /\ test'[e].promise = test[e].promise
      BY <1>13, <2>2, ReconnectEffect
    <3>3. QED
      BY <1>1, <2>1, <3>1, <3>2
  <2>3. CASE ~Heeded(e)
    <3>1. test' = test /\ failures' = failures
      BY <1>13, <2>3 DEF Reconnect
    <3>2. QED
      BY <1>3, <2>1, <3>1
  <2>4. QED
    BY <2>2, <2>3
<1>14. ASSUME NEW e \in Entries, StartAgain(e) PROVE ProbesOK'
  <2>1. CASE ~HasRuntime
    BY <1>9, <1>14, <2>1 DEF StartAgain, Classes, FailedAs
  <2>2. CASE HasRuntime
    BY <1>3, <1>14, <2>2 DEF StartAgain
  <2>3. QED
    BY <2>1, <2>2
<1>15. ASSUME NEW e \in Entries, Reconnected(e) PROVE ProbesOK'
  <2>1. failures' = failures
    BY <1>15 DEF Reconnected
  <2>2. CASE Abandoned(e)
    BY <1>3, <1>15, <2>1, <2>2 DEF Reconnected
  <2>3. CASE ~Abandoned(e)
    <3> DEFINE p == [controller |-> current[e] + 1,
                     generation |-> test[e].generation + 1, failures |-> failures[e]]
    <3>1. /\ \A d \in Entries \ {e} : test'[d] = test[d]
          /\ \A d \in Entries \ {e} : probes'[d] = probes[d]
      <4>1. \A d \in Entries \ {e} : test'[d] = test[d]
        BY <1>15, ReconnectedEffect
      <4>2. \A d \in Entries \ {e} : probes'[d] = probes[d]
        BY <1>15, ReconnectedEffect
      <4>3. QED
        BY <4>1, <4>2
    <3>2. test'[e].promise = p /\ test'[e].generation = test[e].generation + 1
      BY <1>15, <2>3, ReconnectedEffect
    <3>3. probes'[e] = probes[e] \cup {test'[e].promise}
      BY <1>15, <2>3, ReconnectedEffect
    <3>4. p.generation = test[e].generation + 1 /\ p.failures = failures[e]
      OBVIOUS
    <3> HIDE DEF p
    <3>5. p.generation \in Nat /\ p.generation >= test[e].generation
      BY <1>0, <3>4
    <3>6. QED
      BY <1>2, <2>1, <3>1, <3>2, <3>3, <3>4, <3>5
  <2>4. QED
    BY <2>2, <2>3
<1>16. ASSUME NEW e \in Entries, NEW class \in Classes, ReconnectFails(e, class)
       PROVE  ProbesOK'
  BY <1>9, <1>16 DEF ReconnectFails, FailedAs, ErrorVerdicts
<1>17. ASSUME Stop \/ Kill PROVE ProbesOK'
  BY <1>3, <1>6, <1>17 DEF Stop, Kill
<1>18. CASE UNCHANGED vars
  BY <1>3, <1>18
<1>19. QED
  BY <1>4, <1>5, <1>7, <1>8, <1>10, <1>11, <1>12, <1>13, <1>14, <1>15, <1>16, <1>17,
     <1>18 DEF Next, Opens, Reconnects, Probed

(* The load is that of the behaviour. *)
LEMMA LoadStays ==
    ASSUME [Next]_vars PROVE load' = load
<1> USE DEF vars, lostVars, loadVars, HasRuntime
<1>1. ASSUME Stop \/ Kill \/ ConnectionCloses PROVE load' = load
  BY <1>1 DEF Stop, Kill, StopEntry, ConnectionCloses
<1>2. ASSUME NEW e \in Entries, Start(e) \/ Test(e) \/ Traffic(e) PROVE load' = load
  BY <1>2 DEF Start, Test, Traffic
<1>3. ASSUME NEW e \in Entries, Opens(e) PROVE load' = load
  BY <1>3 DEF Opens, StartOpens, StartFails, Reconnected, ReconnectFails
<1>4. ASSUME NEW e \in Entries, Reconnects(e) PROVE load' = load
  BY <1>4 DEF Reconnects, Reconnect, StartAgain, Closed
<1>5. ASSUME NEW e \in Entries, Probed(e) PROVE load' = load
  BY <1>5 DEF Probed, ProbeReturns
<1>6. ASSUME NEW e \in Entries, \E class \in {"failed", "session-lost"} :
                                   ControllerError(e, class)
      PROVE  load' = load
  BY <1>6 DEF ControllerError, FailedAs, ErrorVerdicts
<1>7. QED
  BY <1>1, <1>2, <1>3, <1>4, <1>5, <1>6 DEF Next

(* What was carried by an open controller was carried since the last       *)
(* failure: a failure or another controller forgets it.                    *)
LEMMA CarriedMoves ==
    ASSUME Typed, StartedOK, EvidenceOK, CountOK, ReconnectOK, CarriedOK, [Next]_vars
    PROVE  CarriedOK'
<1> USE DEF vars, lostVars, carriedVars, loadVars, HasRuntime
<1>0. \A e \in Entries : current[e] \in Numbers /\ current[e] \in Nat
  BY CurrentFacts DEF Typed
(* Nothing the statement is about grows, but perhaps where nothing was     *)
(* carried or no controller is open.                                       *)
<1>1. ASSUME traffic' = traffic, current' = current, session' \in {session, "killed"},
             \A d \in Entries : carried'[d] => carried[d],
             \A d \in Entries :
                \/ ~carried'[d] \/ controller'[d][current[d]] # "open"
                \/ /\ failures'[d] = failures[d]
                   /\ controller[d][current[d]] = "open"
      PROVE  CarriedOK'
  BY LoadStays, <1>1 DEF CarriedOK, Now
<1>2. ASSUME UNCHANGED <<carried, traffic, current, failures>>,
             session' \in {session, "killed"},
             \A d \in Entries : \A n \in Numbers :
                controller'[d][n] = "open" => controller[d][n] = "open"
      PROVE  CarriedOK'
  BY <1>0, <1>1, <1>2
<1>3. ASSUME NEW e \in Entries, Start(e) PROVE CarriedOK'
  <2>1. /\ UNCHANGED <<carried, traffic, current, failures, session>>
        /\ \/ controller' = controller
           \/ controller' = [controller EXCEPT ![e][1] = "opening"]
    BY <1>3 DEF Start
  <2>2. \A d \in Entries : \A n \in Numbers :
           controller'[d][n] = "open" => controller[d][n] = "open"
    BY <2>1, PhaseFacts DEF Phases
  <2>3. QED
    BY <1>2, <2>1, <2>2
<1>4. ASSUME NEW e \in Entries, StartOpens(e) PROVE CarriedOK'
  <2>1. /\ UNCHANGED <<carried, traffic, current, failures, session>> /\ ~carried[e]
    BY <1>4 DEF StartOpens, StartedOK, Unused
  <2>2. \A d \in Entries \ {e} : controller'[d] = controller[d]
    BY <1>4, OpenEffect
  <2>3. QED
    BY <1>1, <2>1, <2>2
<1>5. ASSUME NEW e \in Entries, NEW k \in Nat, NEW phase \in Phases \ {"open"},
             controller' = [controller EXCEPT ![e][k] = phase],
             UNCHANGED <<carried, traffic, current, failures, session>>
      PROVE  CarriedOK'
  <2>1. \A d \in Entries : \A n \in Numbers :
           controller'[d][n] = "open" => controller[d][n] = "open"
    BY <1>5, PhaseFacts
  <2>2. QED
    BY <1>2, <1>5, <2>1
<1>6. ASSUME NEW e \in Entries, StartFails(e) PROVE CarriedOK'
  BY <1>5, <1>6 DEF StartFails, Phases
<1>7. ASSUME StopEntry, session' \in {session, "killed"} PROVE CarriedOK'
  <2> DEFINE e == registered
  <2>1. e \in Entries /\ UNCHANGED <<carried, traffic, current, failures>>
    BY <1>7 DEF StopEntry, Typed
  <2>2. \A d \in Entries \ {e} : controller'[d] = controller[d]
    BY <1>7, <2>1, StopEffect
  <2>3. \A n \in Numbers : controller'[e][n] = "open" => controller[e][n] = "open"
    BY <1>7, <2>1, StopEffect
  <2>4. QED
    BY <1>2, <1>7, <2>1, <2>2, <2>3
<1>8. ASSUME NEW e \in Entries, Test(e) PROVE CarriedOK'
  BY <1>2, <1>8 DEF Test
<1>9. ASSUME NEW e \in Entries, NEW p \in probes[e], NEW result, ProbeReturns(e, p, result)
      PROVE  CarriedOK'
  <2>1. UNCHANGED <<traffic, current, failures, session, controller>>
    BY <1>9 DEF ProbeReturns
  <2>2. \A d \in Entries : carried'[d] => carried[d]
    BY <1>9 DEF ProbeReturns, Typed
  <2>3. QED
    BY <1>1, <2>1, <2>2 DEF CarriedOK
<1>10. ASSUME NEW e \in Entries, NEW class \in Classes, FailedAs(e, class),
              UNCHANGED <<traffic, current, session>>,
              \A d \in Entries : carried'[d] => carried[d],
              \A d \in Entries : \A n \in Numbers :
                 controller'[d][n] = "open" => controller[d][n] = "open",
              ~carried'[e] \/ controller[e][current[e]] # "open"
       PROVE  CarriedOK'
  <2>1. \A d \in Entries \ {e} : failures'[d] = failures[d]
    BY <1>10, FailureEffect
  <2>2. QED
    BY <1>0, <1>1, <1>10, <2>1
<1>11. ASSUME NEW e \in Entries, NEW class \in {"failed", "session-lost"},
              ControllerError(e, class)
       PROVE  CarriedOK'
  <2>1. /\ class \in Classes /\ FailedAs(e, class)
        /\ UNCHANGED <<traffic, current, session, controller>>
    BY <1>11 DEF ControllerError, Classes, FailedAs, ErrorVerdicts
  <2>2. ~carried'[e] /\ \A d \in Entries : carried'[d] => carried[d]
    BY <1>11 DEF ControllerError, Typed, FailedAs, ErrorVerdicts
  <2>3. QED
    BY <1>10, <2>1, <2>2
<1>12. ASSUME NEW e \in Entries, Traffic(e) PROVE CarriedOK'
  <2>1. UNCHANGED <<current, failures, session, controller>>
    BY <1>12 DEF Traffic
  <2>2. \A d \in Entries \ {e} : carried'[d] = carried[d] /\ traffic'[d] = traffic[d]
    BY <1>12, TrafficEffect
  <2>3. traffic'[e] = Now(e) /\ session = "up"
    BY <1>12, TrafficEffect
  <2>4. QED
    BY LoadStays, <2>1, <2>2, <2>3 DEF CarriedOK, Now
<1>13. ASSUME ConnectionCloses PROVE CarriedOK'
  BY <1>13 DEF ConnectionCloses, CarriedOK
<1>14. ASSUME NEW e \in Entries, NEW k \in Numbers, Closed(e, k) PROVE CarriedOK'
  <2>1. /\ UNCHANGED <<carried, traffic, current, failures, session>>
        /\ controller' = [controller EXCEPT ![e][k] = "closed"]
    BY <1>14 DEF Closed
  <2>2. k \in Nat /\ "closed" \in Phases \ {"open"}
    BY DEF Phases, Numbers
  <2>3. QED
    BY <1>5, <2>1, <2>2
<1>15. ASSUME NEW e \in Entries, Reconnect(e) PROVE CarriedOK'
  <2>1. UNCHANGED <<carried, traffic, current, session>>
    BY <1>15 DEF Reconnect
  <2>2. CASE Heeded(e)
    <3>1. \A d \in Entries \ {e} : controller'[d] = controller[d] /\ failures'[d] = failures[d]
      BY <1>15, ReconnectEffect
    <3>2. \A n \in Numbers : controller'[e][n] = "open" => n # current[e]
      BY <1>15, <2>2, ReconnectEffect
    <3>3. QED
      BY <1>0, <1>1, <2>1, <3>1, <3>2
  <2>3. CASE ~Heeded(e)
    BY <1>2, <1>15, <2>1, <2>3 DEF Reconnect
  <2>4. QED
    BY <2>2, <2>3
<1>16. ASSUME NEW e \in Entries, StartAgain(e) PROVE CarriedOK'
  <2>1. /\ UNCHANGED <<carried, traffic, current, session>> /\ current[e] + 1 \in Nat
        /\ controller[e][current[e]] = "closed"
    BY <1>0, <1>16 DEF StartAgain
  <2>2. CASE ~HasRuntime
    <3>1. "failed" \in Classes /\ FailedAs(e, "failed") /\ controller' = controller
      BY <1>16, <2>2 DEF StartAgain, Classes, FailedAs
    <3>2. QED
      BY <1>10, <2>1, <3>1
  <2>3. CASE HasRuntime
    <3>1. /\ controller' = [controller EXCEPT ![e][current[e] + 1] = "opening"]
          /\ failures' = failures
      BY <1>16, <2>3 DEF StartAgain
    <3>2. QED
      BY <1>5, <2>1, <3>1 DEF Phases
  <2>4. QED
    BY <2>2, <2>3
<1>17. ASSUME NEW e \in Entries, Reconnected(e) PROVE CarriedOK'
  <2>1. UNCHANGED <<traffic, failures, session>> /\ current[e] + 1 \in Nat
    BY <1>0, <1>17 DEF Reconnected
  <2>2. CASE Abandoned(e)
    <3>1. /\ UNCHANGED <<current, carried>>
          /\ controller' = [controller EXCEPT ![e][current[e] + 1] = "closing"]
      BY <1>17, <2>2 DEF Reconnected
    <3>2. QED
      BY <1>5, <2>1, <3>1 DEF Phases
  <2>3. CASE ~Abandoned(e)
    <3>1. \A d \in Entries \ {e} : controller'[d] = controller[d]
      BY <1>17, ReconnectedEffect
    <3>2. \A d \in Entries \ {e} : carried'[d] = carried[d] /\ current'[d] = current[d]
      BY <1>17, ReconnectedEffect
    <3>3. ~carried'[e]
      BY <1>17, <2>3, ReconnectedEffect
    <3>4. QED
      BY LoadStays, <2>1, <3>1, <3>2, <3>3 DEF CarriedOK, Now
  <2>4. QED
    BY <2>2, <2>3
<1>18. ASSUME NEW e \in Entries, NEW class \in Classes, ReconnectFails(e, class)
       PROVE  CarriedOK'
  <2>1. /\ FailedAs(e, class) /\ UNCHANGED <<carried, traffic, current, session>>
        /\ controller' = [controller EXCEPT ![e][current[e] + 1] = "none"]
        /\ controller[e][current[e]] # "open" /\ current[e] + 1 \in Nat
    BY <1>0, <1>18 DEF ReconnectFails, Starting, ReconnectOK, FailedAs, ErrorVerdicts
  <2>2. \A d \in Entries : \A n \in Numbers :
           controller'[d][n] = "open" => controller[d][n] = "open"
    BY <2>1, PhaseFacts DEF Phases
  <2>3. QED
    BY <1>10, <2>1, <2>2
<1>19. ASSUME Stop \/ Kill PROVE CarriedOK'
  <2>1. CASE StopEntry
    BY <1>7, <1>19, <2>1 DEF Stop, Kill
  <2>2. CASE ~StopEntry
    BY <1>2, <1>19, <2>2 DEF Stop, Kill
  <2>3. QED
    BY <2>1, <2>2
<1>20. CASE UNCHANGED vars
  BY <1>2, <1>20
<1>21. QED
  BY <1>3, <1>4, <1>6, <1>8, <1>9, <1>11, <1>12, <1>13, <1>14, <1>15, <1>16, <1>17,
     <1>18, <1>19, <1>20 DEF Next, Opens, Reconnects, Probed

(* A probe that found all of the way to the target did so through an open  *)
(* controller that had carried traffic, but for that of a local forward.   *)
LEMMA ReachedFacts ==
    ASSUME Typed, CarriedOK, NEW e \in Entries, NEW p \in probes[e],
           NEW result \in Results(e, p), result \notin {"prohibited", "failed"},
           p.controller = current[e], carried[e], load.kind # "local"
    PROVE  traffic[e] = Now(e)
<1>1. load.kind \in {"remote", "dynamic"} /\ session # "lost"
  BY BoundAssumption DEF Typed, CarriedOK
<1>2. controller[e][current[e]] = "open"
  BY <1>1 DEF Results
<1>3. QED
  BY <1>2 DEF CarriedOK

(* What the test of the registered tunnel shows was measured through its   *)
(* present controller after its last failure.                              *)
LEMMA EvidenceMoves ==
    ASSUME Typed, StartedOK, ReconnectOK, ProbesOK, CarriedOK, EvidenceOK, [Next]_vars
    PROVE  EvidenceOK'
<1> USE DEF vars, lostVars, carriedVars, loadVars, HasRuntime
<1>0. /\ registered # 0 => registered \in Entries
      /\ "testing" \notin Verdicts /\ "untested" \notin Verdicts
      /\ "passed" \in Verdicts /\ "failed" \in Verdicts /\ 0 \notin Entries
  BY NumberFacts DEF Typed
(* The entry of the map is the same and nothing of it moves. *)
<1>1. ASSUME registered' = registered, registered # 0,
             LET e == registered
             IN  /\ test'[e] = test[e] /\ current'[e] = current[e]
                 /\ failures'[e] = failures[e] /\ traffic'[e] = traffic[e]
      PROVE  EvidenceOK'
  BY <1>1, LoadStays DEF EvidenceOK, Now
<1>2. ASSUME UNCHANGED <<registered, test, current, failures, traffic>>
      PROVE  EvidenceOK'
  BY <1>2, LoadStays DEF EvidenceOK, Now
(* The test of the entry of the map shows nothing. *)
<1>3. ASSUME registered' # 0, ~test'[registered'].evidence,
             test'[registered'].state \in {"testing", "untested"}
      PROVE  EvidenceOK'
  BY <1>0, <1>3 DEF EvidenceOK
<1>4. ASSUME NEW e \in Entries, Start(e) \/ StartFails(e) \/ \E k \in Numbers : Closed(e, k)
      PROVE  EvidenceOK'
  BY <1>2, <1>4 DEF Start, StartFails, Closed
<1>5. ASSUME NEW e \in Entries, StartOpens(e) PROVE EvidenceOK'
  <2>1. registered' = e
    BY <1>5, OpenEffect
  <2>2. test'[e].state = "testing" /\ ~test'[e].evidence
    BY <1>5, OpenEffect
  <2>3. QED
    BY <1>0, <1>3, <2>1, <2>2
<1>6. ASSUME StopEntry PROVE EvidenceOK'
  BY <1>6 DEF StopEntry, EvidenceOK
<1>7. ASSUME NEW e \in Entries, Test(e) PROVE EvidenceOK'
  <2>1. /\ RunsProbe(e, test[e], current[e], failures[e])
        /\ UNCHANGED <<registered, current, failures, traffic>> /\ registered = e
        /\ test[e] \in TestSet /\ current[e] \in Nat /\ failures[e] \in Nat
    BY <1>7 DEF Test, Typed
  <2>2. test'[e].last = test[e].last /\ test'[e].evidence = test[e].evidence
    BY <2>1, ProbeEffect
  <2>3. test'[e].state \in {test[e].state, "testing"}
    BY <2>1, ProbeEffect
  <2>4. QED
    BY <1>0, <2>1, <2>2, <2>3, LoadStays DEF EvidenceOK, Now
<1>8. ASSUME NEW e \in Entries, NEW p \in probes[e], NEW result \in Results(e, p),
             ProbeReturns(e, p, result)
      PROVE  EvidenceOK'
  <2>1. UNCHANGED <<registered, current, failures, traffic>>
    BY <1>8 DEF ProbeReturns
  <2>2. \A d \in Entries \ {e} : test'[d] = test[d]
    BY <1>8, ReturnEffect
  <2>3. CASE registered # e
    BY <1>0, <1>1, <2>1, <2>2, <2>3 DEF EvidenceOK
  <2>4. CASE /\ registered = e
             /\ test'[e].state = test[e].state /\ test'[e].last = test[e].last
             /\ test'[e].evidence = test[e].evidence
    BY <2>1, <2>4, LoadStays DEF EvidenceOK, Now
  <2>5. CASE /\ registered = e /\ test[e].evidence /\ test'[e].evidence
             /\ test'[e].state = test[e].last.verdict /\ test'[e].last = test[e].last
    BY <1>0, <2>1, <2>5, LoadStays DEF EvidenceOK, Now
  <2>6. ASSUME registered = e, Applies(e, p), NEW verdict \in Verdicts,
               test'[e].state = verdict,
               test'[e].last = [verdict |-> verdict, controller |-> p.controller,
                                failures |-> p.failures],
               test'[e].evidence => test[e].evidence /\ verdict = "passed",
               verdict = "passed" => /\ result \notin {"prohibited", "failed"}
                                     /\ load.kind = "local" \/ carried[e]
        PROVE  EvidenceOK'
    <3>1. p.controller = current[e] /\ p.failures = failures[e]
      BY <2>6 DEF Applies, ProbesOK
    <3>2. load.kind # "local" /\ verdict = "passed" => traffic[e] = Now(e)
      BY <1>8, <2>6, <3>1, ReachedFacts
    <3>3. /\ test'[e].last.verdict = verdict
          /\ test'[e].last.controller = current[e]
          /\ test'[e].last.failures = failures[e]
      BY <2>6, <3>1
    <3>4. QED
      BY <2>1, <2>6, <3>2, <3>3, LoadStays DEF EvidenceOK, Now
  <2>7. QED
    <3>1. CASE registered = e
      <4>1. \/ /\ test'[e].state = test[e].state /\ test'[e].last = test[e].last
               /\ test'[e].evidence = test[e].evidence
            \/ /\ Applies(e, p) /\ test[e].evidence /\ test'[e].evidence
               /\ test'[e].state = test[e].last.verdict
               /\ test'[e].last = test[e].last
            \/ Applies(e, p) /\ TakesResult(e, p, result)
        BY <1>8, ReturnEffect
      <4>2. QED
        BY <2>4, <2>5, <2>6, <3>1, <4>1 DEF TakesResult
    <3>2. QED
      BY <2>3, <3>1
<1>9. ASSUME NEW e \in Entries, NEW class \in Classes, FailedAs(e, class),
             UNCHANGED <<registered, current, traffic>>
      PROVE  EvidenceOK'
  <2>1. \A d \in Entries \ {e} : test'[d] = test[d] /\ failures'[d] = failures[d]
    BY <1>9, FailureEffect
  <2>2. CASE registered # e
    BY <1>0, <1>1, <1>9, <2>1, <2>2 DEF EvidenceOK
  <2>3. CASE registered = e /\ ~Heeded(e)
    <3>1. test' = test /\ failures' = failures
      BY <1>9, <2>3, FailureEffect
    <3>2. QED
      BY <1>2, <1>9, <3>1
  <2>4. CASE registered = e /\ Heeded(e)
    <3>1. /\ failures'[e] = failures[e] + 1 /\ ~test'[e].evidence
          /\ test'[e].last = [verdict |-> test'[e].state, controller |-> current[e],
                              failures |-> failures[e] + 1]
          /\ test'[e].state # "passed"
      BY <1>9, <2>4, FailureEffect
    <3>2. QED
      BY <1>9, <2>4, <3>1 DEF EvidenceOK
  <2>5. QED
    BY <2>2, <2>3, <2>4
<1>10. ASSUME NEW e \in Entries, NEW class \in {"failed", "session-lost"},
              ControllerError(e, class)
       PROVE  EvidenceOK'
  BY <1>9, <1>10 DEF ControllerError, Classes, FailedAs, ErrorVerdicts
<1>11. ASSUME NEW e \in Entries, Traffic(e) PROVE EvidenceOK'
  <2>1. UNCHANGED <<registered, current, failures>>
    BY <1>11 DEF Traffic
  <2>2. \A d \in Entries \ {e} : test'[d] = test[d] /\ traffic'[d] = traffic[d]
    BY <1>11, TrafficEffect
  <2>3. traffic'[e] = Now(e)
    BY <1>11, TrafficEffect
  <2>4. CASE registered # e
    BY <1>0, <1>1, <2>1, <2>2, <2>4 DEF EvidenceOK
  <2>5. CASE registered = e /\ test'[e].evidence = test[e].evidence
             /\ test'[e].state = test[e].state /\ test'[e].last = test[e].last
    BY <2>1, <2>3, <2>5, LoadStays DEF EvidenceOK, Now
  <2>6. CASE /\ registered = e /\ test'[e].state = "passed" /\ test'[e].evidence
             /\ test'[e].last = [verdict |-> "passed", controller |-> current[e],
                                 failures |-> failures[e]]
    BY <2>1, <2>3, <2>6 DEF EvidenceOK, Now
  <2>7. QED
    <3>1. \/ test' = test
          \/ Heeded(e) => /\ test'[e].state = "passed" /\ test'[e].evidence
                          /\ test'[e].last = [verdict |-> "passed",
                                controller |-> current[e], failures |-> failures[e]]
      BY <1>11, TrafficEffect
    <3>2. \/ test' = test
          \/ ~Heeded(e) => /\ test'[e].evidence = test[e].evidence
                           /\ test'[e].state = test[e].state
                           /\ test'[e].last = test[e].last
      BY <1>11, TrafficEffect
    <3>3. QED
      BY <2>4, <2>5, <2>6, <3>1, <3>2
<1>12. ASSUME ConnectionCloses PROVE EvidenceOK'
  <2>1. UNCHANGED <<registered, current, traffic>>
    BY <1>12 DEF ConnectionCloses
  <2>2. CASE registered # 0 /\ tunnel[registered].attached
    BY <1>0, <1>9, <1>12, <2>1, <2>2 DEF ConnectionCloses, Classes, FailedAs
  <2>3. CASE ~(registered # 0 /\ tunnel[registered].attached)
    BY <1>2, <1>12, <2>1, <2>3 DEF ConnectionCloses
  <2>4. QED
    BY <2>2, <2>3
<1>13. ASSUME NEW e \in Entries, Reconnect(e) PROVE EvidenceOK'
  <2>1. UNCHANGED <<registered, current, traffic>>
    BY <1>13 DEF Reconnect
  <2>2. CASE Heeded(e)
    <3>1. test'[e].state = "untested" /\ ~test'[e].evidence
      BY <1>13, <2>2, ReconnectEffect
    <3>2. QED
      BY <1>0, <1>3, <2>1, <2>2, <3>1 DEF Heeded
  <2>3. CASE ~Heeded(e)
    BY <1>2, <1>13, <2>1, <2>3 DEF Reconnect
  <2>4. QED
    BY <2>2, <2>3
<1>14. ASSUME NEW e \in Entries, StartAgain(e) PROVE EvidenceOK'
  <2>1. CASE ~HasRuntime
    BY <1>9, <1>14, <2>1 DEF StartAgain, Classes, FailedAs
  <2>2. CASE HasRuntime
    BY <1>2, <1>14, <2>2 DEF StartAgain
  <2>3. QED
    BY <2>1, <2>2
<1>15. ASSUME NEW e \in Entries, Reconnected(e) PROVE EvidenceOK'
  <2>1. UNCHANGED <<registered, failures, traffic>>
    BY <1>15 DEF Reconnected
  <2>2. CASE Abandoned(e)
    BY <1>2, <1>15, <2>1, <2>2 DEF Reconnected
  <2>3. CASE ~Abandoned(e)
    <3>1. registered = e /\ ~test[e].evidence
      BY <1>15, <2>3 DEF Abandoned, Reconnected, Starting, ReconnectOK
    <3>2. test'[e].state = "testing"
      BY <1>15, <2>3, ReconnectedEffect
    <3>3. test'[e].evidence = test[e].evidence
      BY <1>15, <2>3, ReconnectedEffect
    <3>4. QED
      BY <1>0, <1>3, <2>1, <3>1, <3>2, <3>3
  <2>4. QED
    BY <2>2, <2>3
<1>16. ASSUME NEW e \in Entries, NEW class \in Classes, ReconnectFails(e, class)
       PROVE  EvidenceOK'
  BY <1>9, <1>16 DEF ReconnectFails, FailedAs, ErrorVerdicts
<1>17. ASSUME Stop \/ Kill PROVE EvidenceOK'
  BY <1>2, <1>6, <1>17 DEF Stop, Kill
<1>18. CASE UNCHANGED vars
  BY <1>2, <1>18
<1>19. QED
  BY <1>4, <1>5, <1>7, <1>8, <1>10, <1>11, <1>12, <1>13, <1>14, <1>15, <1>16, <1>17,
     <1>18 DEF Next, Opens, Reconnects, Probed

-----------------------------------------------------------------------------
(* The parts hold of a runtime without tunnels, and each is preserved given
   the others. *)
LEMMA InvStarts == Init => Inv
<1> SUFFICES ASSUME Init PROVE Inv
  OBVIOUS
<1>1. Typed
  BY BoundAssumption, NumberFacts
     DEF Init, Typed, CallIs, TunnelSet, States, Lost, Phases, TestSet, LastSet, NoTest
<1>2. StartedOK /\ KilledOK /\ ReconnectOK
  BY NumberFacts DEF Init, StartedOK, Unused, KilledOK, ReconnectOK
<1>3. CountOK
  BY DEF Init, CountOK, Pending
<1>4. OnlyStartsLeak
  BY DEF Init, OnlyStartsLeak
<1>5. ProbesOK /\ CarriedOK /\ EvidenceOK
  BY DEF Init, ProbesOK, CarriedOK, EvidenceOK
<1>6. QED
  BY <1>1, <1>2, <1>3, <1>4, <1>5 DEF Inv

(* No step leaves the invariant. *)
LEMMA InvMoves == Inv /\ [Next]_vars => Inv'
  BY TypedMoves, StartedMoves, KilledMoves, ReconnectMoves, CountMoves, ListenerMoves,
     ProbesMoves, CarriedMoves, EvidenceMoves DEF Inv

\* The invariant holds in every state the runtime reaches.
THEOREM Invariance == Spec => []Inv
  BY InvStarts, InvMoves, PTL DEF Spec

\* The variables keep to their types, and the controllers' numbers to the table.
THEOREM TypeCorrectness == Spec => []TypeOK
<1>1. Inv => TypeOK
  <2> SUFFICES ASSUME Inv PROVE TypeOK
    OBVIOUS
  <2>1. Typed /\ ProbesOK /\ CountOK
    BY DEF Inv
  <2>2. /\ \A e \in Entries : current[e] \in Numbers
        /\ \A e \in Entries : traffic[e].controller \in Numbers \cup {0}
    BY <2>1, CurrentFacts
  <2>3. \A e \in Entries :
           /\ test[e].state \in Verdicts \cup {"untested", "testing"}
           /\ test[e].last.verdict \in Verdicts \cup {"none"}
           /\ test[e].evidence \in BOOLEAN /\ test[e].generation \in Nat
    BY <2>1 DEF Typed, TestSet, LastSet
  <2>4. \A e \in Entries : /\ test[e].promise \in probes[e] \cup {NoProbe}
                           /\ \A p \in probes[e] : IsProbe(p)
    BY <2>1 DEF Typed, ProbesOK, ProbeSet, IsProbe
  <2>5. /\ current \in [Entries -> Numbers]
        /\ traffic \in [Entries -> [controller : Numbers \cup {0}, failures : Nat]]
    BY <2>1, <2>2 DEF Typed
  <2>6. QED
    BY <2>1, <2>3, <2>4, <2>5 DEF TypeOK, Typed, CallIs, TunnelSet, Phases
<1>2. QED
  BY <1>1, Invariance, PTL

\* However many starts, events, reconnects, stops and kills there are and wherever
\* they meet, what a stop or closeAll does not find open was left by a start that was
\* under way beside another one or when the session was killed.
THEOREM LeaksAreOfStarts == Spec => []OnlyStartsLeak
<1>1. Inv => OnlyStartsLeak
  BY DEF Inv
<1>2. QED
  BY <1>1, Invariance, PTL

\* What a tunnel shows as its test was measured through its present controller
\* after its last failure, and shown as passed only if the way to the target was
\* gone, for any number of probes, failures and reconnects.
THEOREM ShownTestsAreCurrent == Spec => []TestIsCurrent
<1>1. Inv => TestIsCurrent
  BY DEF Inv, EvidenceOK, TestIsCurrent, Now
<1>2. QED
  BY <1>1, Invariance, PTL
=============================================================================
