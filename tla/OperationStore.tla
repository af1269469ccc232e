-------------------------- MODULE OperationStore --------------------------
(***************************************************************************)
(* The persisted table of safety operations and the way the renderer       *)
(* reaches it (transaction-store.js over client/common/db.js).             *)
(*                                                                         *)
(* Every read and write is one request to the main process over one        *)
(* channel: requests are served, and their answers come back, in the order *)
(* they were sent.  A request is named by the caller that waits for it; a  *)
(* caller has at most one.  The action that answers the head request also  *)
(* runs the caller's code up to its next await, because nothing else runs  *)
(* in the renderer between the answer and that await.                      *)
(*                                                                         *)
(* A patch is a read, a merge and a write.  enqueuePatch makes the patches *)
(* of one record wait for each other, so that each merges into the record  *)
(* the previous one wrote; saveOperation takes no place in that queue.     *)
(***************************************************************************)
EXTENDS Naturals, Sequences

CONSTANTS
    Ops,      \* operation identifiers
    Callers   \* the other callers of the store, the calls of cancel

ASSUME CallersAssumption == Ops # {} /\ Ops \cap Callers = {}

VARIABLES
    state,    \* state[o]: the persisted state of operation o
    dbq,      \* the requests sent to the main process, oldest first
    patchq    \* patchq[o]: the callers whose patch of o is queued or running

storeVars == <<state, dbq, patchq>>

Actors == Ops \cup Callers

(* operationStates of models.js; "absent" is a record never saved *)
Terminal == {"verification-passed", "rollback-available", "kept",
             "restored", "failed", "cancelled"}
Cancellable == {"preparing", "recovery-ready", "awaiting-confirmation",
                "executing", "rolling-back"}
States == {"absent"} \cup Terminal \cup Cancellable

StoreInit ==
    /\ state = [o \in Ops |-> "absent"]
    /\ dbq = << >>
    /\ patchq = [o \in Ops |-> << >>]

StoreTypeOK ==
    /\ state \in [Ops -> States]
    /\ dbq \in Seq(Actors)
    /\ patchq \in [Ops -> Seq(Actors)]

(* the answer to a's request is the next to arrive *)
Answered(a) == dbq # << >> /\ Head(dbq) = a

(* a's first request, sent while it waits for nothing *)
Ask(a) == dbq' = Append(dbq, a)

(* a's request is answered and it sends another, or none *)
AskAgain(a) == dbq' = Append(Tail(dbq), a)
AskNoMore == dbq' = Tail(dbq)

(* a's request is answered and it calls patchOperation: its patch reads at *)
(* once when no other patch of o is queued, and waits otherwise            *)
PatchAtOnce(a, o) ==
    /\ patchq' = [patchq EXCEPT ![o] = Append(@, a)]
    /\ dbq' = Append(Tail(dbq), a)
EnqueuePatch(a, o) ==
    /\ patchq' = [patchq EXCEPT ![o] = Append(@, a)]
    /\ dbq' = IF patchq[o] = << >> THEN Append(Tail(dbq), a) ELSE Tail(dbq)

(* the same call made after a wait that was not for the store *)
StartPatch(a, o) ==
    /\ patchq' = [patchq EXCEPT ![o] = Append(@, a)]
    /\ dbq' = IF patchq[o] = << >> THEN Append(dbq, a) ELSE dbq

(* the caller at the head of o's patches settles; the next one sends its   *)
(* read, and `after` are the requests the settled caller's code sends next *)
NoneWoken(o) == << >>
NextPatch(o) == IF Len(patchq[o]) > 1 THEN <<patchq[o][2]>> ELSE << >>
SettlePatch(o, after) ==
    /\ patchq' = [patchq EXCEPT ![o] = Tail(@)]
    /\ dbq' = Tail(dbq) \o NextPatch(o) \o after

(* every request and every queue is in the renderer's memory *)
LoseRequests ==
    /\ dbq' = << >>
    /\ patchq' = [o \in Ops |-> << >>]
============================================================================
