--------------------------- MODULE CallResource ---------------------------
(***************************************************************************)
(* Remote calls of a node mountpoint and the temporary HTTP resources that  *)
(* carry their results: call_resource.c, the request handlers of fs_node.c  *)
(* that create the calls, /control/terminate of fs_control.c and the part   *)
(* of ahttpd_server_destroy() that tears the calls down.                    *)
(*                                                                          *)
(* The server is one libevent loop, so a handler, a completion callback or  *)
(* a close callback runs to its end before the next one starts: each is one *)
(* action, and the interleavings are those of clients, of the remote node   *)
(* and of connections going away.                                           *)
(*                                                                          *)
(* libevent (connections, replies, the ONE close callback a connection      *)
(* holds) and the aura core (calls in flight) are external; they are        *)
(* modelled from the way this code uses them.                               *)
(***************************************************************************)
EXTENDS Naturals

CONSTANTS
    Conns,      \* client connections the server can hold open at once
    MaxCalls,   \* bound: how many call ids (nd->callid) a behaviour may consume
    NoConn,     \* res->request after its connection went away (evcon == NULL)
    NoCb,       \* a connection without a close callback
    TermCb      \* the close callback terminate_rq_close_cb

ASSUME ConnsAssumption == NoConn \notin Conns
ASSUME MaxCallsAssumption == MaxCalls \in Nat
ASSUME CbAssumption == NoCb \notin Nat /\ TermCb \notin Nat /\ NoCb # TermCb

\* The ids nd->callid hands out; an id stands for its ahttpd_pending_call.
Calls == 0 .. MaxCalls - 1

VARIABLES
    callid,     \* nd->callid, the next id
    list,       \* where each ahttpd_pending_call is linked, or that it was freed
    async,      \* res->is_async
    request,    \* the connection behind res->request
    retbuf,     \* res->retbuf: NULL, or the result as JSON
    status,     \* res->resource_status
    inflight,   \* calls the aura core still owes a call_completed_cb
    paths,      \* ids whose .../pending/<id> is registered with evhttp
    cstate,     \* state of each client connection
    reply,      \* what the last reply on each connection carried
    closecb,    \* the connection's close callback: NoCb, TermCb or a call
    exiting,    \* aura_eventloop_loopexit() has been scheduled
    server,     \* the process
    fault,      \* the memory fault or failed assertion that ended the process
    readers     \* history: connections the result of each call was sent on

callVars == <<callid, list, async, request, retbuf, status, readers>>
connVars == <<cstate, reply, closecb>>
procVars == <<exiting, server, fault>>
vars == <<callVars, inflight, paths, connVars, procVars>>

\* A call record that has been allocated, linked and not freed.
Allocated(id) == list[id] \in {"pending", "gc"}

TypeOK ==
    /\ callid \in 0 .. MaxCalls
    /\ list \in [Calls -> {"unused", "pending", "gc", "freed"}]
    /\ async \in [Calls -> {0, 1}]
    /\ request \in [Calls -> Conns \cup {NoConn}]
    /\ retbuf \in [Calls -> {"NULL", "json"}]
    /\ status \in [Calls -> {"pending", "dead"}]
    /\ inflight \in SUBSET Calls
    /\ paths \in SUBSET Calls
    /\ cstate \in [Conns -> {"closed", "idle", "waiting", "replied"}]
    /\ reply \in [Conns -> {"none", "error", "accepted",
                            "status_pending", "completed"}]
    /\ closecb \in [Conns -> Calls \cup {NoCb, TermCb}]
    /\ exiting \in BOOLEAN
    /\ server \in {"running", "stopped", "crashed"}
    /\ fault \in {"none", "bug", "dangling_request", "dangling_call",
                  "dangling_call_at_exit"}
    /\ readers \in [Calls -> SUBSET Conns]

Init ==
    /\ callid = 0
    /\ list = [id \in Calls |-> "unused"]
    /\ async = [id \in Calls |-> 0]
    /\ request = [id \in Calls |-> NoConn]
    /\ retbuf = [id \in Calls |-> "NULL"]
    /\ status = [id \in Calls |-> "pending"]
    /\ inflight = {}
    /\ paths = {}
    /\ cstate = [c \in Conns |-> "closed"]
    /\ reply = [c \in Conns |-> "none"]
    /\ closecb = [c \in Conns |-> NoCb]
    /\ exiting = FALSE
    /\ server = "running"
    /\ fault = "none"
    /\ readers = [id \in Calls |-> {}]

---------------------------------------------------------------------------
(* Connections and replies, as libevent provides them.                     *)

\* A handler runs for connection c only while c has no request under way.
Serving(c) == server = "running" /\ cstate[c] = "idle"

\* evhttp_send_reply / evhttp_send_error on connection c.
Reply(c, r) ==
    /\ cstate' = [cstate EXCEPT ![c] = "replied"]
    /\ reply' = [reply EXCEPT ![c] = r]

\* The process dies: the kernel closes every connection, nothing else is
\* cleaned up.
Crash(f) ==
    /\ server' = "crashed"
    /\ fault' = f
    /\ cstate' = [c \in Conns |-> "closed"]
    /\ UNCHANGED <<callVars, inflight, paths, reply, closecb, exiting>>

Connect(c) ==
    /\ server = "running"
    /\ cstate[c] = "closed"
    /\ cstate' = [cstate EXCEPT ![c] = "idle"]
    /\ reply' = [reply EXCEPT ![c] = "none"]
    /\ UNCHANGED <<callVars, inflight, paths, closecb, procVars>>

\* The reply is on the wire and the connection is kept alive. An error reply
\* carries Connection: close, so its connection only closes.
FlushReply(c) ==
    /\ server = "running"
    /\ cstate[c] = "replied"
    /\ reply[c] # "error"
    /\ cstate' = [cstate EXCEPT ![c] = "idle"]
    /\ UNCHANGED <<callVars, inflight, paths, reply, closecb, procVars>>

---------------------------------------------------------------------------
(* Creating calls: /call/<name> and /acall/<name>.                         *)

\* issue_call() and ahttpd_call_create() up to the marshalling: a wrong
\* method, no arguments, an unknown object or arguments that do not fit the
\* format are answered with an error and leave no trace.
RejectCall(c) ==
    /\ Serving(c)
    /\ Reply(c, "error")
    /\ UNCHANGED <<callVars, inflight, paths, closecb, procVars>>

\* Faulty variant: the refused call gives back an id it never took.
CallStartFailsRewinds(c) ==
    /\ Serving(c)
    /\ callid < MaxCalls
    /\ callid' = callid - 1
    /\ Reply(c, "error")
    /\ UNCHANGED <<list, async, request, retbuf, status, readers,
                   inflight, paths, closecb, procVars>>

\* aura_core_start_call() refused: the id is spent, the record is freed.
CallStartFails(c) ==
    /\ Serving(c)
    /\ callid < MaxCalls
    /\ callid' = callid + 1
    /\ Reply(c, "error")
    /\ UNCHANGED <<list, async, request, retbuf, status, readers,
                   inflight, paths, closecb, procVars>>

\* What CallCreate and its faulty variants share.
NewCall(c, is_async) ==
    /\ Serving(c)
    /\ callid < MaxCalls
    /\ async' = [async EXCEPT ![callid] = is_async]
    /\ request' = [request EXCEPT ![callid] = c]
    /\ inflight' = inflight \cup {callid}
    /\ paths' = paths \cup {callid}
    /\ list' = [list EXCEPT ![callid] = "pending"]
    /\ UNCHANGED <<retbuf, status, readers, closecb, procVars>>

\* The client of an asynchronous call is answered 202 with the path of the
\* resource; the client of a synchronous one is left waiting.
AnswerNewCall(c, is_async) ==
    IF is_async = 1
    THEN Reply(c, "accepted")
    ELSE /\ cstate' = [cstate EXCEPT ![c] = "waiting"]
         /\ reply' = [reply EXCEPT ![c] = "none"]

\* Faulty variant: nd->callid is not incremented.
CallCreateReusesId(c, is_async) ==
    NewCall(c, is_async) /\ AnswerNewCall(c, is_async) /\ UNCHANGED callid

\* Faulty variant: 202 is sent for synchronous calls too.
CallCreateAnswersAll(c, is_async) ==
    NewCall(c, is_async) /\ AnswerNewCall(c, 1) /\ callid' = callid + 1

\* ahttpd_call_create: the call is started, its path registered, its record
\* linked.
CallCreate(c, is_async) ==
    NewCall(c, is_async) /\ AnswerNewCall(c, is_async) /\ callid' = callid + 1

---------------------------------------------------------------------------
(* Completion.                                                             *)

\* The result of call id goes out on connection c and its deletion is bound
\* to the closing of c: the one close callback of c is overwritten.
Deliver(c, id) ==
    /\ Reply(c, "completed")
    /\ closecb' = [closecb EXCEPT ![c] = id]
    /\ readers' = [readers EXCEPT ![id] = @ \cup {c}]

\* call_completed_cb: an asynchronous result is only stored.
CompleteAsync(id) ==
    /\ async[id] = 1
    /\ retbuf' = [retbuf EXCEPT ![id] = "json"]
    /\ inflight' = inflight \ {id}
    /\ UNCHANGED <<callid, list, async, request, status, readers, paths,
                   connVars, procVars>>

\* Faulty variant: a synchronous result is stored and nobody is told.
CompleteSyncSilent(id) ==
    /\ async[id] = 0
    /\ request[id] # NoConn
    /\ retbuf' = [retbuf EXCEPT ![id] = "json"]
    /\ inflight' = inflight \ {id}
    /\ UNCHANGED <<callid, list, async, request, status, readers, paths,
                   connVars, procVars>>

\* Faulty variant: the call is deleted as soon as its result is sent.
CompleteSyncDeletesNow(id) ==
    /\ async[id] = 0
    /\ request[id] # NoConn
    /\ retbuf' = [retbuf EXCEPT ![id] = "json"]
    /\ inflight' = inflight \ {id}
    /\ Deliver(request[id], id)
    /\ list' = [list EXCEPT ![id] = "freed"]
    /\ paths' = paths \ {id}
    /\ UNCHANGED <<callid, async, request, status, procVars>>

\* call_completed_cb: a synchronous result is sent to the waiting client.
CompleteSync(id) ==
    /\ async[id] = 0
    /\ request[id] # NoConn
    /\ retbuf' = [retbuf EXCEPT ![id] = "json"]
    /\ inflight' = inflight \ {id}
    /\ Deliver(request[id], id)
    /\ UNCHANGED <<callid, list, async, request, status, paths, procVars>>

\* call_completed_cb: the client of a synchronous call has gone.
\* evhttp_send_reply() then frees the request, and the connection is read
\* from the freed request: NULL trips the assertion, anything else is used
\* as a connection.
CompleteOrphan(id) ==
    /\ async[id] = 0
    /\ request[id] = NoConn
    /\ \E f \in {"bug", "dangling_request"} : Crash(f)

CallCompleted(id) ==
    /\ server = "running"
    /\ id \in inflight
    /\ CompleteAsync(id) \/ CompleteSync(id) \/ CompleteOrphan(id)

---------------------------------------------------------------------------
(* Reading a result: GET .../pending/<id>.                                 *)

\* resource_readout of a completed call.
ReadoutDone(c, id) ==
    /\ Serving(c)
    /\ id \in paths
    /\ retbuf[id] # "NULL"
    /\ Deliver(c, id)
    /\ list' = [list EXCEPT ![id] = "gc"]
    /\ status' = [status EXCEPT ![id] = "dead"]
    /\ UNCHANGED <<callid, async, request, retbuf, inflight, paths, procVars>>

\* Faulty variant: polling a call under way already schedules its deletion.
ReadoutPendingArmed(c, id) ==
    /\ Serving(c)
    /\ id \in paths
    /\ retbuf[id] = "NULL"
    /\ Reply(c, "status_pending")
    /\ closecb' = [closecb EXCEPT ![c] = id]
    /\ UNCHANGED <<callVars, inflight, paths, procVars>>

\* resource_readout of a call still under way: its status is reported.
ReadoutPending(c, id) ==
    /\ Serving(c)
    /\ id \in paths
    /\ retbuf[id] = "NULL"
    /\ Reply(c, "status_pending")
    /\ UNCHANGED <<callVars, inflight, paths, closecb, procVars>>

\* No such path: generic_route answers 404.
ReadoutGone(c, id) ==
    /\ Serving(c)
    /\ id \notin paths
    /\ Reply(c, "error")
    /\ UNCHANGED <<callVars, inflight, paths, closecb, procVars>>

---------------------------------------------------------------------------
(* Closing connections, deleting calls, shutting down.                     *)

\* terminate(): the close callback is set, then 503 is sent.
TerminateRequest(c) ==
    /\ Serving(c)
    /\ closecb' = [closecb EXCEPT ![c] = TermCb]
    /\ Reply(c, "error")
    /\ UNCHANGED <<callVars, inflight, paths, procVars>>

\* libevent drops connection c: a request still waiting on it loses its
\* connection.
DropConn(c) ==
    /\ cstate' = [cstate EXCEPT ![c] = "closed"]
    /\ closecb' = [closecb EXCEPT ![c] = NoCb]
    /\ request' = [id \in Calls |->
                     IF request[id] = c THEN NoConn ELSE request[id]]

\* Faulty variant: the path stays registered.
CallDeleteKeepsPath(id) ==
    /\ list' = [list EXCEPT ![id] = "freed"]
    /\ UNCHANGED paths

\* ahttpd_call_delete
CallDelete(id) ==
    /\ list' = [list EXCEPT ![id] = "freed"]
    /\ paths' = paths \ {id}

\* A connection without a close callback.
ClosePlain(c) ==
    /\ closecb[c] = NoCb
    /\ DropConn(c)
    /\ UNCHANGED <<list, paths, exiting, server, fault>>

\* Faulty variant: the exit of the event loop is never scheduled.
CloseTerminateIgnored(c) ==
    /\ closecb[c] = TermCb
    /\ DropConn(c)
    /\ UNCHANGED <<list, paths, exiting, server, fault>>

\* terminate_rq_close_cb
CloseTerminate(c) ==
    /\ closecb[c] = TermCb
    /\ DropConn(c)
    /\ exiting' = TRUE
    /\ UNCHANGED <<list, paths, server, fault>>

\* conn_close_cb
CloseDeletes(c) ==
    /\ closecb[c] \in Calls
    /\ Allocated(closecb[c])
    /\ DropConn(c)
    /\ CallDelete(closecb[c])
    /\ UNCHANGED <<exiting, server, fault>>

\* conn_close_cb whose call another connection's close already freed.
CloseDangling(c) ==
    /\ closecb[c] \in Calls
    /\ ~Allocated(closecb[c])
    /\ Crash("dangling_call")

CloseConn(c) ==
    /\ server = "running"
    /\ cstate[c] # "closed"
    /\ \/ /\ ClosePlain(c) \/ CloseTerminate(c) \/ CloseDeletes(c)
          /\ UNCHANGED <<callid, async, retbuf, status, readers, inflight,
                         reply>>
       \/ CloseDangling(c)

\* ahttpd_server_destroy: ahttpd_callresource_cleanup() frees every linked
\* call and aura_close() forgets the calls in flight; only then does
\* evhttp_free() close the connections, which runs their close callbacks.
LoopExit ==
    /\ server = "running"
    /\ exiting
    /\ list' = [id \in Calls |-> IF Allocated(id) THEN "freed" ELSE list[id]]
    /\ paths' = {}
    /\ inflight' = {}
    /\ cstate' = [c \in Conns |-> "closed"]
    /\ \/ /\ \A c \in Conns : closecb[c] \notin Calls
          /\ server' = "stopped"
          /\ fault' = fault
       \/ /\ \E c \in Conns : closecb[c] \in Calls
          /\ server' = "crashed"
          /\ fault' = "dangling_call_at_exit"
    /\ UNCHANGED <<callid, async, request, retbuf, status, readers, reply,
                   closecb, exiting>>

---------------------------------------------------------------------------
ConnStep(c) ==
    \/ Connect(c)
    \/ FlushReply(c)
    \/ RejectCall(c)
    \/ CallStartFails(c)
    \/ \E is_async \in {0, 1} : CallCreate(c, is_async)
    \/ \E id \in Calls : ReadoutDone(c, id) \/ ReadoutPending(c, id)
                           \/ ReadoutGone(c, id)
    \/ TerminateRequest(c)
    \/ CloseConn(c)

Next ==
    \/ \E c \in Conns : ConnStep(c)
    \/ \E id \in Calls : CallCompleted(id)
    \/ LoopExit

Spec == Init /\ [][Next]_vars

\* Fairness. The remote node answers every call it accepted or the aura core
\* gives up on it; either way the callback runs. libevent finishes sending a
\* reply and then closes a connection whose reply said Connection: close. The
\* event loop runs a scheduled exit. Nothing is assumed of the clients.
Fairness ==
    /\ \A id \in Calls : WF_vars(CallCompleted(id))
    /\ \A c \in Conns : WF_vars(reply[c] = "error" /\ CloseConn(c))
    /\ WF_vars(LoopExit)

FairSpec == Spec /\ Fairness

---------------------------------------------------------------------------
(* Properties.                                                             *)

\* While the server runs, the registered .../pending/<id> paths are exactly
\* those of the calls that are allocated: a readout never finds a path whose
\* record ahttpd_call_delete() has freed, and no live call is unreachable.
PathsMatchCalls ==
    server = "running" => paths = {id \in Calls : Allocated(id)}

\* A call the aura core will still complete has a live record with no result
\* in it: the argument of call_completed_cb never dangles, although clients
\* poll, leave and close connections at any time while the call is under way.
InflightAlive ==
    \A id \in inflight : list[id] = "pending" /\ retbuf[id] = "NULL"

\* A close callback whose call record is already freed exists only if the
\* result was sent on two connections: as long as every result is read by one
\* connection, conn_close_cb touches live memory while the server runs.
SoleReaderSafe ==
    /\ \A c \in Conns :
         closecb[c] \in Calls /\ ~Allocated(closecb[c]) /\ server = "running"
           => \E d \in Conns \ {c} : {c, d} \subseteq readers[closecb[c]]
    /\ fault = "dangling_call" =>
         \E id \in Calls : \E c, d \in Conns :
            c # d /\ {c, d} \subseteq readers[id]

\* A client waits for an answer exactly while the aura core owes it one: each
\* waiting connection has one synchronous call in flight, and a synchronous
\* call whose client is still there has that client waiting.
SyncWaiters ==
    server = "running" =>
      \A c \in Conns :
        IF cstate[c] = "waiting"
        THEN \E id \in inflight :
               {i \in inflight : async[i] = 0 /\ request[i] = c} = {id}
        ELSE \A id \in inflight : request[id] = c => async[id] = 1

\* A result is not lost: while the server runs on, ahttpd_call_delete() frees
\* a call only after it completed and a client was sent its result, whoever
\* else polled the call or went away in the meantime.
ResultNotLost ==
    [][\A id \in Calls :
         Allocated(id) /\ list'[id] = "freed" /\ server' = "running"
           => retbuf[id] # "NULL" /\ readers[id] # {}]_vars

\* A client of a synchronous call is eventually sent the result, unless its
\* connection goes away first (call_completed_cb).
SyncCallAnswered ==
    \A c \in Conns :
        cstate[c] = "waiting" ~> reply[c] = "completed" \/ cstate[c] = "closed"

\* /control/terminate brings the server down: once a client was answered 503
\* on a connection that carries terminate_rq_close_cb, the process ends.
TerminateEnds ==
    (\E c \in Conns : closecb[c] = TermCb) ~> server # "running"

\* How far an allocated call has come.
livePhase(id) ==
    IF readers[id] # {} THEN "delivered"
    ELSE IF retbuf[id] # "NULL" THEN "completed"
    ELSE "started"

phase == [id \in Calls |->
            CASE list[id] = "unused" -> "none"
              [] list[id] = "freed" -> "gone"
              [] OTHER -> livePhase(id)]

RC == INSTANCE RemoteCall WITH up <- server = "running"

\* What clients may rely on (module RemoteCall): each call is started once,
\* under a new id, completes at most once, and its result stays available from
\* its completion until it has been delivered.
ImplementsRemoteCall == RC!Spec

---------------------------------------------------------------------------
(* What the assertions and the memory checks of the repository say of the  *)
(* code, and the code does not keep.                                       *)

\* CMakeLists.txt runs the server under valgrind and fails on any invalid
\* access: conn_close_cb never touches a call record that was freed.
NoUseAfterFree == fault # "dangling_call"

===========================================================================
