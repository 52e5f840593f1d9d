---------------------------- MODULE RemoteCall ----------------------------
(***************************************************************************)
(* The service the call resources promise to the clients of a node: a call  *)
(* is started, completes, and its result is kept until it was delivered.    *)
(* Connections, lists and callbacks do not appear here; CallResource        *)
(* implements this specification.                                           *)
(***************************************************************************)
EXTENDS Naturals

CONSTANT MaxCalls   \* bound on the number of call ids

VARIABLES
    phase,  \* how far each call has come
    up      \* the server is serving

Calls == 0 .. MaxCalls - 1

Init ==
    /\ phase = [id \in Calls |-> "none"]
    /\ up = TRUE

Step(id, from, to) ==
    /\ up
    /\ phase[id] \in from
    /\ phase' = [phase EXCEPT ![id] = to]
    /\ UNCHANGED up

\* Ids are handed out in increasing order and never again.
Start(id) ==
    /\ \A later \in Calls : later > id => phase[later] = "none"
    /\ Step(id, {"none"}, "started")

\* An asynchronous result is kept for its reader.
Complete(id) == Step(id, {"started"}, "completed")

\* A synchronous result is delivered as it arrives, an asynchronous one when
\* it is read.
Deliver(id) == Step(id, {"started", "completed"}, "delivered")

\* Only a delivered result is discarded.
Discard(id) == Step(id, {"delivered"}, "gone")

\* The server stops, in order or not; an orderly stop discards the calls.
Stop ==
    /\ up
    /\ up' = FALSE
    /\ \/ phase' = phase
       \/ phase' = [id \in Calls |->
                      IF phase[id] = "none" THEN "none" ELSE "gone"]

Next ==
    \/ \E id \in Calls : Start(id) \/ Complete(id) \/ Deliver(id) \/ Discard(id)
    \/ Stop

vars == <<phase, up>>

Spec == Init /\ [][Next]_vars
===========================================================================
