---------------------------- MODULE AuraClient ----------------------------
(***************************************************************************)
(* The scripts of www/aura.js as clients of CallResource: auraCall() and    *)
(* auraCallAsync(), which polls the resource of its call with               *)
(* doPollForResult(). A browser sends the requests of all its scripts over  *)
(* a few connections that it keeps alive, so that a script may find its     *)
(* requests on any of them, behind those of other scripts.                  *)
(*                                                                          *)
(* The browser (connections, the callbacks of $.ajax, timers) is external.  *)
(* A request and the handler it reaches are one step, and so are a reply    *)
(* and the callback it makes. Connections may break at any time.            *)
(***************************************************************************)
EXTENDS CallResource

CONSTANTS
    Jobs,       \* calls scripts make, each with its closure
    NoCall      \* no call was started

ASSUME NoCallAssumption == NoCall \notin Nat

VARIABLES
    job,        \* where the script of each call is
    kind,       \* "call" (auraCall) or "acall" (auraCallAsync)
    conn,       \* the connection the script's request is on
    own,        \* the call the server has started for the script
    loc,        \* the Location the script polls
    handled,    \* what the handler was given
    lost        \* history: a connection broke under a request of the script

jobVars == <<job, kind, conn, own, loc, handled, lost>>
allVars == <<vars, jobVars>>

ClientTypeOK ==
    /\ TypeOK
    /\ job \in [Jobs -> {"new", "calling", "ready", "polling", "sleeping",
                         "done", "dead"}]
    /\ kind \in [Jobs -> {"call", "acall"}]
    /\ conn \in [Jobs -> Conns \cup {NoConn}]
    /\ own \in [Jobs -> Calls \cup {NoCall}]
    /\ loc \in [Jobs -> Calls \cup {NoCall}]
    /\ handled \in [Jobs -> {"nothing", "error", "result"}]
    /\ lost \in [Jobs -> BOOLEAN]

ClientInit ==
    /\ Init
    /\ job = [k \in Jobs |-> "new"]
    /\ kind \in [Jobs -> {"call", "acall"}]
    /\ conn = [k \in Jobs |-> NoConn]
    /\ own = [k \in Jobs |-> NoCall]
    /\ loc = [k \in Jobs |-> NoCall]
    /\ handled = [k \in Jobs |-> "nothing"]
    /\ lost = [k \in Jobs |-> FALSE]

Goto(k, place) == job' = [job EXCEPT ![k] = place]
Handle(k, what) == handled' = [handled EXCEPT ![k] = what]

\* No script has a request on c.
Free(c) == \A k \in Jobs : conn[k] # c

---------------------------------------------------------------------------
(* Requests                                                                *)

\* PUT .../call/<method> or .../acall/<method>, which starts a call or is
\* refused.
SendCall(k, c) ==
    /\ job[k] = "new"
    /\ Goto(k, "calling")
    /\ conn' = [conn EXCEPT ![k] = c]
    /\ UNCHANGED <<kind, loc, handled, lost>>

CallStarted(k, c) ==
    /\ SendCall(k, c)
    /\ CallCreate(c, IF kind[k] = "acall" THEN 1 ELSE 0)
    /\ own' = [own EXCEPT ![k] = callid]

CallRefused(k, c) ==
    /\ SendCall(k, c)
    /\ RejectCall(c) \/ CallStartFails(c)
    /\ UNCHANGED own

\* doPollForResult(): at once after the 202, later when the timer has fired.
Poll(k, c) ==
    /\ job[k] \in {"ready", "sleeping"}
    /\ ReadoutDone(c, loc[k]) \/ ReadoutPending(c, loc[k]) \/ ReadoutGone(c, loc[k])
    /\ Goto(k, "polling")
    /\ conn' = [conn EXCEPT ![k] = c]
    /\ UNCHANGED <<kind, own, loc, handled, lost>>

---------------------------------------------------------------------------
(* Replies                                                                 *)

\* A reply other than an error has come in; the connection is kept alive.
Received(k, place, r) ==
    /\ job[k] = place
    /\ reply[conn[k]] = r
    /\ FlushReply(conn[k])
    /\ conn' = [conn EXCEPT ![k] = NoConn]
    /\ UNCHANGED <<kind, own, lost>>

\* Faulty variant: "var loc" without "var", a variable all scripts share.
AcceptedShared(k) ==
    /\ Received(k, "calling", "accepted")
    /\ loc' = [j \in Jobs |-> own[k]]
    /\ Goto(k, "ready")
    /\ UNCHANGED handled

\* auraCallAsync(): 202, and the Location of the resource.
Accepted(k) ==
    /\ Received(k, "calling", "accepted")
    /\ loc' = [loc EXCEPT ![k] = own[k]]
    /\ Goto(k, "ready")
    /\ UNCHANGED handled

\* auraCall(): the result.
CallReturned(k) ==
    /\ Received(k, "calling", "completed")
    /\ Goto(k, "done")
    /\ Handle(k, "result")
    /\ UNCHANGED loc

\* Faulty variant: the timer is not set again.
StillPendingGivesUp(k) ==
    /\ Received(k, "polling", "status_pending")
    /\ Goto(k, "dead")
    /\ UNCHANGED <<loc, handled>>

\* doPollForResult(): the call is still pending, a timer is set.
StillPending(k) ==
    /\ Received(k, "polling", "status_pending")
    /\ Goto(k, "sleeping")
    /\ UNCHANGED <<loc, handled>>

\* Faulty variant: polling goes on after the result was handed over.
PollReturnedPollsOn(k) ==
    /\ Received(k, "polling", "completed")
    /\ Goto(k, "sleeping")
    /\ Handle(k, "result")
    /\ UNCHANGED loc

\* doPollForResult(): the result.
PollReturned(k) ==
    /\ Received(k, "polling", "completed")
    /\ Goto(k, "done")
    /\ Handle(k, "result")
    /\ UNCHANGED loc

\* A request has failed: the handler of a PUT is told, the GET of
\* doPollForResult() has no error callback and the script never hears of it.
RequestFails(k) ==
    /\ conn' = [conn EXCEPT ![k] = NoConn]
    /\ \/ job[k] = "calling" /\ Goto(k, "done") /\ Handle(k, "error")
       \/ job[k] = "polling" /\ Goto(k, "dead") /\ UNCHANGED handled
    /\ UNCHANGED <<kind, own, loc>>

\* An error reply, behind which the server closes the connection.
ErrorReceived(k) ==
    /\ conn[k] # NoConn
    /\ reply[conn[k]] = "error"
    /\ CloseConn(conn[k])
    /\ RequestFails(k)
    /\ UNCHANGED lost

\* The connection breaks while the request or its reply is under way.
ConnectionLost(k) ==
    /\ conn[k] # NoConn
    /\ reply[conn[k]] # "error"
    /\ CloseConn(conn[k])
    /\ RequestFails(k)
    /\ lost' = [lost EXCEPT ![k] = TRUE]

\* The server has crashed under the request.
ServerLost(k) ==
    /\ server # "running"
    /\ conn[k] # NoConn
    /\ RequestFails(k)
    /\ UNCHANGED <<vars, lost>>

\* A connection nobody uses is opened or closed, by either side.
ConnectionUnused(c) ==
    /\ Free(c)
    /\ Connect(c) \/ CloseConn(c)
    /\ UNCHANGED jobVars

Completion(id) == CallCompleted(id) /\ UNCHANGED jobVars

---------------------------------------------------------------------------
ReplyTaken(k) ==
    \/ Accepted(k) \/ CallReturned(k) \/ StillPending(k) \/ PollReturned(k)
    \/ ErrorReceived(k)

ClientNext ==
    \/ \E k \in Jobs : \/ \E c \in Conns : CallStarted(k, c) \/ CallRefused(k, c)
                                            \/ Poll(k, c)
                       \/ ReplyTaken(k) \/ ConnectionLost(k) \/ ServerLost(k)
    \/ \E c \in Conns : ConnectionUnused(c)
    \/ \E id \in Calls : Completion(id)

ClientSpec == ClientInit /\ [][ClientNext]_allVars

\* Fairness. Calls complete as in CallResource. A browser opens a connection
\* for a request that waits for one, hands in a reply that has come, and runs a
\* timer that has fired: a script that wants to poll is not kept from it for
\* ever by the scripts it shares the connections with.
ClientFairness ==
    /\ \A id \in Calls : WF_allVars(Completion(id))
    /\ \A c \in Conns : WF_allVars(Free(c) /\ Connect(c) /\ UNCHANGED jobVars)
    /\ \A k \in Jobs : /\ WF_allVars(ReplyTaken(k))
                       /\ SF_allVars(\E c \in Conns : Poll(k, c))

ClientFairSpec == ClientSpec /\ ClientFairness

---------------------------------------------------------------------------
(* Properties.                                                             *)

\* A handler is given the result of the call its script made: the reply that
\* reaches it was made of that call's record, although the scripts' requests
\* share connections and each connection remembers one call only.
OwnResult ==
    [][\A k \in Jobs :
         handled[k] # "result" /\ handled'[k] = "result" =>
            closecb[conn[k]] = own[k]]_allVars

\* The resource a script is going to poll is there: no connection that breaks
\* or is closed between two polls, its own or another's, takes it away.
ResourceStays ==
    server = "running" =>
        \A k \in Jobs : job[k] \in {"ready", "sleeping"} => loc[k] \in paths

\* Scripts keep to the way of use CallResource is safe in: no close callback
\* finds a freed record, and only a connection lost under an auraCall() brings
\* the server down.
ScriptsSafe ==
    /\ fault # "dangling_call"
    /\ server = "crashed" => \E k \in Jobs : kind[k] = "call" /\ lost[k]

\* Every call a script makes ends in its handler, unless a connection was lost
\* under one of the script's requests or the server crashed.
HandlerRuns ==
    \A k \in Jobs :
        job[k] = "calling" ~>
            handled[k] # "nothing" \/ lost[k] \/ server = "crashed"
===========================================================================
