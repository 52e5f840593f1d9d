------------------------ MODULE CallResourceProofs ------------------------
(***************************************************************************)
(* Theorems about CallResource, for every set of connections and every      *)
(* number of calls, and about its composition with the scripts of           *)
(* AuraClient, for any number of scripts. Every step of the scripts is a    *)
(* step of CallResource, so that its inductive invariant IInv holds of the  *)
(* composition too.                                                         *)
(***************************************************************************)
EXTENDS AuraClient, TLAPS

\* The type invariant is inductive by itself.
LEMMA TypeInit == Init => TypeOK
<1> SUFFICES ASSUME Init PROVE TypeOK
  OBVIOUS
<1>1. callid \in 0 .. MaxCalls
  BY MaxCallsAssumption DEF Init
<1>2. /\ list \in [Calls -> {"unused", "pending", "gc", "freed"}]
      /\ async \in [Calls -> {0, 1}]
      /\ request \in [Calls -> Conns \cup {NoConn}]
      /\ retbuf \in [Calls -> {"NULL", "json"}]
      /\ status \in [Calls -> {"pending", "dead"}]
      /\ readers \in [Calls -> SUBSET Conns]
      /\ closecb \in [Conns -> Calls \cup {NoCb, TermCb}]
  BY DEF Init
<1>3. exiting \in BOOLEAN /\ inflight \in SUBSET Calls /\ paths \in SUBSET Calls
  BY DEF Init
<1> QED BY <1>1, <1>2, <1>3 DEF Init, TypeOK

\* Every step keeps the types.
LEMMA TypeStep == TypeOK /\ [Next]_vars => TypeOK'
<1> SUFFICES ASSUME TypeOK, [Next]_vars PROVE TypeOK'
  OBVIOUS
<1> USE MaxCallsAssumption, CbAssumption DEF TypeOK, Calls
<1>1. CASE UNCHANGED vars
  BY <1>1 DEF vars, callVars, connVars, procVars
<1>2. CASE \E c \in Conns : ConnStep(c)
  <2> PICK c \in Conns : ConnStep(c)
    BY <1>2
  <2>1. CASE Connect(c)
    BY <2>1 DEF Connect, callVars, procVars
  <2>2. CASE FlushReply(c)
    BY <2>2 DEF FlushReply, callVars, procVars
  <2>3. CASE RejectCall(c)
    BY <2>3 DEF RejectCall, Reply, callVars, procVars
  <2>4. CASE CallStartFails(c)
    BY <2>4 DEF CallStartFails, Reply, procVars
  <2>5. ASSUME NEW is_async \in {0, 1}, CallCreate(c, is_async)
        PROVE  TypeOK'
    <3>1. callid \in Calls
      BY <2>5 DEF CallCreate, NewCall
    <3>2. callid' \in 0 .. MaxCalls
      BY <2>5 DEF CallCreate, NewCall
    <3>3. cstate' \in [Conns -> {"closed", "idle", "waiting", "replied"}]
      BY <2>5 DEF CallCreate, NewCall, AnswerNewCall, Reply
    <3>4. reply' \in [Conns -> {"none", "error", "accepted",
                               "status_pending", "completed"}]
      BY <2>5 DEF CallCreate, NewCall, AnswerNewCall, Reply
    <3> QED BY <2>5, <3>1, <3>2, <3>3, <3>4 DEF CallCreate, NewCall, procVars
  <2>6. ASSUME NEW id \in Calls, ReadoutDone(c, id)
        PROVE  TypeOK'
    BY <2>6 DEF ReadoutDone, Deliver, Reply, procVars
  <2>7. ASSUME NEW id \in Calls, ReadoutPending(c, id)
        PROVE  TypeOK'
    BY <2>7 DEF ReadoutPending, Reply, callVars, procVars
  <2>8. ASSUME NEW id \in Calls, ReadoutGone(c, id)
        PROVE  TypeOK'
    BY <2>8 DEF ReadoutGone, Reply, callVars, procVars
  <2>9. CASE TerminateRequest(c)
    BY <2>9 DEF TerminateRequest, Reply, callVars, procVars
  <2>10. CASE CloseConn(c)
    <3>1. CASE ClosePlain(c) /\ UNCHANGED <<callid, async, retbuf, status,
                                            readers, inflight, reply>>
      BY <3>1 DEF ClosePlain, DropConn
    <3>2. CASE CloseTerminate(c) /\ UNCHANGED <<callid, async, retbuf, status,
                                                readers, inflight, reply>>
      BY <3>2 DEF CloseTerminate, DropConn
    <3>3. CASE CloseDeletes(c) /\ UNCHANGED <<callid, async, retbuf, status,
                                              readers, inflight, reply>>
      BY <3>3 DEF CloseDeletes, DropConn, CallDelete
    <3>4. CASE CloseDangling(c)
      BY <3>4 DEF CloseDangling, Crash, callVars
    <3> QED BY <2>10, <3>1, <3>2, <3>3, <3>4 DEF CloseConn
  <2> QED
    BY <2>1, <2>2, <2>3, <2>4, <2>5, <2>6, <2>7, <2>8, <2>9, <2>10
    DEF ConnStep
<1>3. ASSUME NEW id \in Calls, CallCompleted(id)
      PROVE  TypeOK'
  <2>1. CASE CompleteAsync(id)
    BY <2>1 DEF CompleteAsync, connVars, procVars
  <2>2. CASE CompleteSync(id)
    BY <2>2 DEF CompleteSync, Deliver, Reply, procVars
  <2>3. CASE CompleteOrphan(id)
    BY <2>3 DEF CompleteOrphan, Crash, callVars
  <2> QED BY <1>3, <2>1, <2>2, <2>3 DEF CallCompleted
<1>4. CASE LoopExit
  BY <1>4 DEF LoopExit
<1> QED BY <1>1, <1>2, <1>3, <1>4 DEF Next

\* Type correctness: every variable of the call resources, among them the list
\* links, the close callbacks and the call id counter of nodefs_data, keeps
\* its type in every behaviour.
THEOREM TypeCorrect == Spec => []TypeOK
BY TypeInit, TypeStep, PTL DEF Spec

---------------------------------------------------------------------------
(* The inductive invariant. The checked invariants are not inductive: a     *)
(* close callback is safe because of who has read the result, and a new id  *)
(* is safe because nothing of it has been used before.                      *)

\* An id not handed out yet has left no trace.
Fresh ==
    \A id \in Calls : id >= callid =>
        list[id] = "unused" /\ retbuf[id] = "NULL" /\ readers[id] = {}

\* A result that was sent had been stored in a record that was linked.
ReadDone ==
    \A id \in Calls : readers[id] # {} =>
        retbuf[id] # "NULL" /\ list[id] # "unused"

\* A connection that would delete a call has been sent its result.
HoldersRead ==
    \A c \in Conns : closecb[c] \in Calls => c \in readers[closecb[c]]

IInv ==
    /\ TypeOK
    /\ Fresh
    /\ ReadDone
    /\ HoldersRead
    /\ PathsMatchCalls
    /\ InflightAlive
    /\ SoleReaderSafe
    /\ SyncWaiters

\* The invariant holds before the first request.
LEMMA IInvInit == Init => IInv
<1> SUFFICES ASSUME Init PROVE IInv
  OBVIOUS
<1>1. TypeOK
  BY TypeInit
<1>2. Fresh /\ ReadDone /\ InflightAlive
  BY DEF Init, Fresh, ReadDone, InflightAlive
<1>3. HoldersRead /\ SoleReaderSafe
  BY CbAssumption, MaxCallsAssumption
  DEF Init, HoldersRead, SoleReaderSafe, Calls
<1>4. PathsMatchCalls /\ SyncWaiters
  BY DEF Init, PathsMatchCalls, SyncWaiters, Allocated
<1> QED BY <1>1, <1>2, <1>3, <1>4 DEF IInv

\* Steps that answer or open a connection without touching any call.
LEMMA QuietStep ==
    ASSUME IInv, NEW c \in Conns,
           UNCHANGED <<callVars, inflight, paths, closecb, procVars>>,
           cstate[c] # "waiting",
           cstate' \in [Conns -> {"closed", "idle", "waiting", "replied"}],
           cstate'[c] # "waiting",
           \A d \in Conns \ {c} : cstate'[d] = cstate[d]
    PROVE  /\ Fresh' /\ ReadDone' /\ HoldersRead' /\ PathsMatchCalls'
           /\ InflightAlive' /\ SoleReaderSafe' /\ SyncWaiters'
<1>1. Fresh' /\ ReadDone' /\ HoldersRead' /\ InflightAlive'
  BY DEF IInv, Fresh, ReadDone, HoldersRead, InflightAlive, callVars
<1>2. PathsMatchCalls' /\ SoleReaderSafe'
  BY DEF IInv, PathsMatchCalls, SoleReaderSafe, Allocated, callVars, procVars
<1>3. SyncWaiters'
  BY DEF IInv, SyncWaiters, callVars, procVars
<1> QED BY <1>1, <1>2, <1>3

\* A crash keeps what is stated of the calls; SoleReaderSafe then rests on what
\* the crash was about.
LEMMA CrashStep ==
    ASSUME IInv, NEW f, Crash(f),
           f = "dangling_call" =>
             \E id \in Calls : \E c, d \in Conns :
                c # d /\ {c, d} \subseteq readers[id]
    PROVE  /\ Fresh' /\ ReadDone' /\ HoldersRead' /\ PathsMatchCalls'
           /\ InflightAlive' /\ SoleReaderSafe' /\ SyncWaiters'
<1>1. Fresh' /\ ReadDone' /\ HoldersRead' /\ InflightAlive'
  BY DEF IInv, Crash, Fresh, ReadDone, HoldersRead, InflightAlive, callVars
<1>2. PathsMatchCalls' /\ SyncWaiters'
  BY DEF Crash, PathsMatchCalls, SyncWaiters
<1>3. SoleReaderSafe'
  BY DEF Crash, SoleReaderSafe, callVars
<1> QED BY <1>1, <1>2, <1>3

\* ahttpd_call_create
LEMMA CreateStep ==
    ASSUME IInv, NEW c \in Conns, NEW is_async \in {0, 1},
           CallCreate(c, is_async)
    PROVE  /\ Fresh' /\ ReadDone' /\ HoldersRead' /\ PathsMatchCalls'
           /\ InflightAlive' /\ SoleReaderSafe' /\ SyncWaiters'
<1> USE MaxCallsAssumption, CbAssumption
<1>0. TypeOK /\ callid \in Calls /\ server = "running" /\ cstate[c] = "idle"
  BY DEF IInv, TypeOK, CallCreate, NewCall, Serving, Calls
<1>1. list[callid] = "unused" /\ retbuf[callid] = "NULL" /\ readers[callid] = {}
  BY <1>0 DEF IInv, Fresh, TypeOK, Calls
<1>2. callid \notin inflight
  BY <1>1 DEF IInv, InflightAlive
<1>3. \A d \in Conns : closecb[d] # callid
  BY <1>0, <1>1 DEF IInv, HoldersRead
<1>4. Fresh'
  BY <1>0 DEF IInv, Fresh, CallCreate, NewCall, TypeOK, Calls
<1>5. ReadDone' /\ HoldersRead' /\ InflightAlive'
  BY <1>0, <1>1 DEF IInv, ReadDone, HoldersRead, InflightAlive, CallCreate, NewCall, TypeOK
<1>6. PathsMatchCalls'
  BY <1>0 DEF IInv, PathsMatchCalls, Allocated, CallCreate, NewCall, TypeOK, procVars
<1>7. SoleReaderSafe'
  BY <1>0, <1>3
  DEF IInv, SoleReaderSafe, Allocated, CallCreate, NewCall, TypeOK, procVars
<1>8. SyncWaiters'
  <2> SUFFICES ASSUME NEW d \in Conns
               PROVE  IF cstate'[d] = "waiting"
                      THEN \E id \in inflight' :
                             {i \in inflight' : async'[i] = 0 /\ request'[i] = d}
                               = {id}
                      ELSE \A id \in inflight' : request'[id] = d => async'[id] = 1
    BY DEF SyncWaiters
  <2>1. \A i \in inflight : async'[i] = async[i] /\ request'[i] = request[i]
    BY <1>0, <1>2 DEF CallCreate, NewCall, TypeOK
  <2>2. inflight' = inflight \cup {callid} /\ async'[callid] = is_async
         /\ request'[callid] = c
    BY <1>0 DEF CallCreate, NewCall, TypeOK
  <2>3. CASE d = c
    <3>1. \A id \in inflight : request[id] = c => async[id] = 1
      BY <1>0 DEF IInv, SyncWaiters
    <3>2. CASE is_async = 1
      <4>1. cstate'[c] = "replied"
        BY <1>0, <3>2 DEF CallCreate, NewCall, AnswerNewCall, Reply, TypeOK
      <4> QED BY <2>1, <2>2, <2>3, <3>1, <3>2, <4>1
    <3>3. CASE is_async = 0
      <4>1. cstate'[c] = "waiting"
        BY <1>0, <3>3 DEF CallCreate, NewCall, AnswerNewCall, Reply, TypeOK
      <4>2. {i \in inflight' : async'[i] = 0 /\ request'[i] = c} = {callid}
        BY <2>1, <2>2, <3>1, <3>3
      <4> QED BY <2>2, <2>3, <4>1, <4>2
    <3> QED BY <3>2, <3>3
  <2>4. CASE d # c
    <3>1. cstate'[d] = cstate[d]
      BY <1>0, <2>4 DEF CallCreate, NewCall, AnswerNewCall, Reply, TypeOK
    <3>2. {i \in inflight' : async'[i] = 0 /\ request'[i] = d}
            = {i \in inflight : async[i] = 0 /\ request[i] = d}
      BY <2>1, <2>2, <2>4
    <3>3. IF cstate[d] = "waiting"
          THEN \E id \in inflight :
                 {i \in inflight : async[i] = 0 /\ request[i] = d} = {id}
          ELSE \A id \in inflight : request[id] = d => async[id] = 1
      BY <1>0 DEF IInv, SyncWaiters
    <3> QED BY <2>1, <2>2, <2>4, <3>1, <3>2, <3>3
  <2> QED BY <2>3, <2>4
<1> QED BY <1>4, <1>5, <1>6, <1>7, <1>8

\* call_completed_cb of an asynchronous call
LEMMA CompleteAsyncStep ==
    ASSUME IInv, NEW id \in Calls, server = "running", id \in inflight,
           CompleteAsync(id)
    PROVE  /\ Fresh' /\ ReadDone' /\ HoldersRead' /\ PathsMatchCalls'
           /\ InflightAlive' /\ SoleReaderSafe' /\ SyncWaiters'
<1>0. TypeOK /\ list[id] = "pending" /\ async[id] = 1
  BY DEF IInv, InflightAlive, CompleteAsync
<1>1. Fresh' /\ ReadDone' /\ HoldersRead' /\ InflightAlive'
  BY <1>0
  DEF IInv, Fresh, ReadDone, HoldersRead, InflightAlive, CompleteAsync, TypeOK,
      connVars
<1>2. PathsMatchCalls' /\ SoleReaderSafe'
  BY DEF IInv, PathsMatchCalls, SoleReaderSafe, Allocated, CompleteAsync,
         connVars, procVars
<1>3. SyncWaiters'
  <2>1. \A d \in Conns :
          {i \in inflight' : async'[i] = 0 /\ request'[i] = d}
            = {i \in inflight : async[i] = 0 /\ request[i] = d}
    BY <1>0 DEF CompleteAsync
  <2>2. inflight' \subseteq inflight
    BY DEF CompleteAsync
  <2>3. UNCHANGED <<cstate, async, request, server>>
    BY DEF CompleteAsync, connVars, procVars
  <2> QED BY <2>1, <2>2, <2>3 DEF IInv, SyncWaiters
<1> QED BY <1>1, <1>2, <1>3

\* The result of a live call is sent on a connection.
LEMMA DeliverStep ==
    ASSUME IInv, NEW c \in Conns, NEW id \in Calls, Deliver(c, id),
           Allocated(id), Allocated(id)', retbuf'[id] # "NULL",
           callid' = callid, retbuf' \in [Calls -> {"NULL", "json"}],
           list' \in [Calls -> {"unused", "pending", "gc", "freed"}],
           \A i \in Calls \ {id} : list'[i] = list[i] /\ retbuf'[i] = retbuf[i],
           UNCHANGED <<paths, procVars>>, id \in paths
    PROVE  Fresh' /\ ReadDone' /\ HoldersRead' /\ PathsMatchCalls' /\ SoleReaderSafe'
<1> USE MaxCallsAssumption, CbAssumption
<1>0. TypeOK /\ callid \in Nat /\ ~ (id >= callid)
  BY DEF IInv, TypeOK, Fresh, Allocated, Calls
<1>1. readers'[id] = readers[id] \cup {c}
       /\ \A i \in Calls \ {id} : readers'[i] = readers[i]
  BY <1>0 DEF Deliver, TypeOK
<1>2. closecb'[c] = id /\ \A d \in Conns \ {c} : closecb'[d] = closecb[d]
  BY <1>0 DEF Deliver, TypeOK
<1>3. Fresh'
  BY <1>0, <1>1 DEF IInv, Fresh
<1>4. ReadDone'
  BY <1>1 DEF IInv, ReadDone, Allocated
<1>5. HoldersRead'
  BY <1>1, <1>2 DEF IInv, HoldersRead
<1>6. PathsMatchCalls'
  BY DEF IInv, PathsMatchCalls, Allocated, procVars
<1>7. SoleReaderSafe'
  BY <1>1, <1>2 DEF IInv, SoleReaderSafe, Allocated, procVars
<1> QED BY <1>3, <1>4, <1>5, <1>6, <1>7

\* call_completed_cb of a synchronous call whose client still waits
LEMMA CompleteSyncStep ==
    ASSUME IInv, NEW id \in Calls, server = "running", id \in inflight,
           CompleteSync(id)
    PROVE  /\ Fresh' /\ ReadDone' /\ HoldersRead' /\ PathsMatchCalls'
           /\ InflightAlive' /\ SoleReaderSafe' /\ SyncWaiters'
<1> DEFINE c == request[id]
<1>0. TypeOK /\ list[id] = "pending" /\ c \in Conns /\ async[id] = 0
  BY DEF IInv, TypeOK, InflightAlive, CompleteSync
<1>1. Allocated(id) /\ Allocated(id)' /\ id \in paths
  BY <1>0 DEF IInv, PathsMatchCalls, Allocated, CompleteSync
<1>2. /\ Fresh' /\ ReadDone' /\ HoldersRead' /\ PathsMatchCalls'
      /\ SoleReaderSafe'
  <2>1. Deliver(c, id) /\ callid' = callid /\ UNCHANGED <<paths, procVars>>
    BY DEF CompleteSync
  <2>2. /\ retbuf'[id] # "NULL"
        /\ retbuf' \in [Calls -> {"NULL", "json"}]
        /\ list' \in [Calls -> {"unused", "pending", "gc", "freed"}]
        /\ \A i \in Calls \ {id} : list'[i] = list[i] /\ retbuf'[i] = retbuf[i]
    BY <1>0 DEF CompleteSync, TypeOK
  <2> HIDE DEF c
  <2> QED BY <1>0, <1>1, <2>1, <2>2, DeliverStep
<1>3. InflightAlive'
  BY <1>0 DEF IInv, InflightAlive, CompleteSync, TypeOK
<1>4. SyncWaiters'
  <2>1. cstate[c] = "waiting"
    BY <1>0 DEF IInv, SyncWaiters
  <2>2. {i \in inflight : async[i] = 0 /\ request[i] = c} = {id}
    BY <1>0, <2>1 DEF IInv, SyncWaiters
  <2>3. cstate'[c] = "replied" /\ \A d \in Conns \ {c} : cstate'[d] = cstate[d]
    BY <1>0 DEF CompleteSync, Deliver, Reply, TypeOK
  <2>4. \A i \in inflight' : i \in inflight /\ i # id
    BY DEF CompleteSync
  <2>5. UNCHANGED <<async, request, server>>
    BY DEF CompleteSync, procVars
  <2>6. \A i \in inflight' : request'[i] = c => async'[i] = 1
    BY <1>0, <2>2, <2>4, <2>5 DEF TypeOK
  <2>7. \A d \in Conns \ {c} :
          {i \in inflight' : async'[i] = 0 /\ request'[i] = d}
            = {i \in inflight : async[i] = 0 /\ request[i] = d}
    BY <2>5 DEF CompleteSync
  <2> QED BY <2>3, <2>4, <2>5, <2>6, <2>7 DEF IInv, SyncWaiters
<1> QED BY <1>2, <1>3, <1>4

\* resource_readout of a completed call
LEMMA ReadoutStep ==
    ASSUME IInv, NEW c \in Conns, NEW id \in Calls, ReadoutDone(c, id)
    PROVE  /\ Fresh' /\ ReadDone' /\ HoldersRead' /\ PathsMatchCalls'
           /\ InflightAlive' /\ SoleReaderSafe' /\ SyncWaiters'
<1>0. TypeOK /\ server = "running" /\ cstate[c] = "idle" /\ retbuf[id] # "NULL"
  BY DEF IInv, ReadoutDone, Serving
<1>1. Allocated(id) /\ Allocated(id)' /\ id \in paths /\ id \notin inflight
  BY <1>0
  DEF IInv, PathsMatchCalls, InflightAlive, Allocated, ReadoutDone, TypeOK
<1>2. /\ Fresh' /\ ReadDone' /\ HoldersRead' /\ PathsMatchCalls'
      /\ SoleReaderSafe'
  <2>1. Deliver(c, id) /\ callid' = callid /\ UNCHANGED <<paths, procVars>>
    BY DEF ReadoutDone
  <2>2. /\ retbuf'[id] # "NULL"
        /\ retbuf' \in [Calls -> {"NULL", "json"}]
        /\ list' \in [Calls -> {"unused", "pending", "gc", "freed"}]
        /\ \A i \in Calls \ {id} : list'[i] = list[i] /\ retbuf'[i] = retbuf[i]
    BY <1>0 DEF ReadoutDone, TypeOK
  <2> QED BY <1>1, <2>1, <2>2, DeliverStep
<1>3. InflightAlive'
  BY <1>0, <1>1 DEF IInv, InflightAlive, ReadoutDone, TypeOK
<1>4. SyncWaiters'
  <2>1. cstate'[c] = "replied" /\ \A d \in Conns \ {c} : cstate'[d] = cstate[d]
    BY <1>0 DEF ReadoutDone, Deliver, Reply, TypeOK
  <2>2. UNCHANGED <<async, request, inflight, server>>
    BY DEF ReadoutDone, procVars
  <2> QED BY <1>0, <2>1, <2>2 DEF IInv, SyncWaiters
<1> QED BY <1>2, <1>3, <1>4

\* aura_core_start_call() failed: an id is skipped.
LEMMA StartFailsStep ==
    ASSUME IInv, NEW c \in Conns, CallStartFails(c)
    PROVE  /\ Fresh' /\ ReadDone' /\ HoldersRead' /\ PathsMatchCalls'
           /\ InflightAlive' /\ SoleReaderSafe' /\ SyncWaiters'
<1>0. TypeOK /\ cstate[c] = "idle" /\ server = "running"
  BY DEF IInv, CallStartFails, Serving
<1>1. Fresh'
  BY <1>0, MaxCallsAssumption DEF IInv, Fresh, CallStartFails, TypeOK, Calls
<1>2. ReadDone' /\ HoldersRead' /\ InflightAlive'
  BY DEF IInv, ReadDone, HoldersRead, InflightAlive, CallStartFails
<1>3. PathsMatchCalls' /\ SoleReaderSafe'
  BY DEF IInv, PathsMatchCalls, SoleReaderSafe, Allocated, CallStartFails, procVars
<1>4. SyncWaiters'
  <2>1. cstate'[c] = "replied" /\ \A d \in Conns \ {c} : cstate'[d] = cstate[d]
    BY <1>0 DEF CallStartFails, Reply, TypeOK
  <2>2. UNCHANGED <<async, request, inflight, server>>
    BY DEF CallStartFails, procVars
  <2> QED BY <1>0, <2>1, <2>2 DEF IInv, SyncWaiters
<1> QED BY <1>1, <1>2, <1>3, <1>4

\* terminate(): the connection gives up a call it would have deleted.
LEMMA TerminateStep ==
    ASSUME IInv, NEW c \in Conns, TerminateRequest(c)
    PROVE  /\ Fresh' /\ ReadDone' /\ HoldersRead' /\ PathsMatchCalls'
           /\ InflightAlive' /\ SoleReaderSafe' /\ SyncWaiters'
<1>0. TypeOK /\ cstate[c] = "idle" /\ server = "running"
  BY DEF IInv, TerminateRequest, Serving
<1>1. closecb'[c] \notin Calls /\ \A d \in Conns \ {c} : closecb'[d] = closecb[d]
  BY <1>0, CbAssumption, MaxCallsAssumption DEF TerminateRequest, TypeOK, Calls
<1>2. Fresh' /\ ReadDone' /\ InflightAlive'
  BY DEF IInv, Fresh, ReadDone, InflightAlive, TerminateRequest, callVars
<1>3. HoldersRead' /\ SoleReaderSafe'
  BY <1>1 DEF IInv, HoldersRead, SoleReaderSafe, Allocated, TerminateRequest,
              callVars, procVars
<1>4. PathsMatchCalls'
  BY DEF IInv, PathsMatchCalls, Allocated, TerminateRequest, callVars, procVars
<1>5. SyncWaiters'
  <2>1. cstate'[c] = "replied" /\ \A d \in Conns \ {c} : cstate'[d] = cstate[d]
    BY <1>0 DEF TerminateRequest, Reply, TypeOK
  <2>2. UNCHANGED <<async, request, inflight, server>>
    BY DEF TerminateRequest, callVars, procVars
  <2> QED BY <1>0, <2>1, <2>2 DEF IInv, SyncWaiters
<1> QED BY <1>2, <1>3, <1>4, <1>5

\* A connection that closes leaves every other waiting client alone.
LEMMA DropStep ==
    ASSUME IInv, NEW c \in Conns, DropConn(c), UNCHANGED <<inflight, async, server>>
    PROVE  /\ SyncWaiters'
           /\ closecb'[c] \notin Calls
           /\ \A d \in Conns \ {c} : closecb'[d] = closecb[d]
<1>0. TypeOK
  BY DEF IInv
<1>1. /\ closecb'[c] \notin Calls
      /\ \A d \in Conns \ {c} : closecb'[d] = closecb[d]
  BY <1>0, CbAssumption, MaxCallsAssumption DEF DropConn, TypeOK, Calls
<1>2. cstate'[c] = "closed" /\ \A d \in Conns \ {c} : cstate'[d] = cstate[d]
  BY <1>0 DEF DropConn, TypeOK
<1>3. \A i \in inflight : request'[i] # c
  BY <1>0, ConnsAssumption DEF DropConn, TypeOK
<1>4. \A i \in inflight, d \in Conns \ {c} : request'[i] = d <=> request[i] = d
  BY <1>0, ConnsAssumption DEF DropConn, TypeOK
<1>5. \A d \in Conns \ {c} :
        {i \in inflight' : async'[i] = 0 /\ request'[i] = d}
          = {i \in inflight : async[i] = 0 /\ request[i] = d}
  BY <1>4
<1>6. SyncWaiters'
  BY <1>2, <1>3, <1>4, <1>5 DEF IInv, SyncWaiters
<1> QED BY <1>1, <1>6

\* A closing connection, with each of the close callbacks it may carry.
LEMMA CloseStep ==
    ASSUME IInv, NEW c \in Conns, CloseConn(c)
    PROVE  /\ Fresh' /\ ReadDone' /\ HoldersRead' /\ PathsMatchCalls'
           /\ InflightAlive' /\ SoleReaderSafe' /\ SyncWaiters'
<1> DEFINE Rest == UNCHANGED <<callid, async, retbuf, status, readers, inflight,
                               reply>>
<1>0. TypeOK /\ server = "running"
  BY DEF IInv, CloseConn
<1>1. ASSUME ClosePlain(c) \/ CloseTerminate(c), Rest
      PROVE  /\ Fresh' /\ ReadDone' /\ HoldersRead' /\ PathsMatchCalls'
             /\ InflightAlive' /\ SoleReaderSafe' /\ SyncWaiters'
  <2>1. DropConn(c) /\ UNCHANGED <<list, paths, server, fault>>
    BY <1>1 DEF ClosePlain, CloseTerminate
  <2>2. /\ SyncWaiters'
        /\ closecb'[c] \notin Calls
        /\ \A d \in Conns \ {c} : closecb'[d] = closecb[d]
    BY <1>1, <2>1, DropStep
  <2>3. Fresh' /\ ReadDone' /\ InflightAlive'
    BY <1>1, <2>1 DEF IInv, Fresh, ReadDone, InflightAlive
  <2>4. HoldersRead' /\ SoleReaderSafe'
    BY <1>1, <2>1, <2>2 DEF IInv, HoldersRead, SoleReaderSafe, Allocated
  <2>5. PathsMatchCalls'
    BY <1>1, <2>1 DEF IInv, PathsMatchCalls, Allocated
  <2> QED BY <2>2, <2>3, <2>4, <2>5
<1>2. ASSUME CloseDeletes(c), Rest
      PROVE  /\ Fresh' /\ ReadDone' /\ HoldersRead' /\ PathsMatchCalls'
             /\ InflightAlive' /\ SoleReaderSafe' /\ SyncWaiters'
  <2> DEFINE id == closecb[c]
  <2>1. DropConn(c) /\ CallDelete(id) /\ UNCHANGED <<server, fault>>
         /\ id \in Calls /\ Allocated(id)
    BY <1>2 DEF CloseDeletes
  <2>2. /\ SyncWaiters'
        /\ closecb'[c] \notin Calls
        /\ \A d \in Conns \ {c} : closecb'[d] = closecb[d]
    BY <1>2, <2>1, DropStep
  <2>3. list'[id] = "freed" /\ \A i \in Calls \ {id} : list'[i] = list[i]
    BY <1>0, <2>1 DEF CallDelete, TypeOK
  <2>4. c \in readers[id] /\ retbuf[id] # "NULL" /\ list[id] # "unused"
         /\ id \notin inflight
    BY <2>1 DEF IInv, HoldersRead, ReadDone, InflightAlive
  <2> HIDE DEF id
  <2>5. Fresh' /\ ReadDone' /\ InflightAlive'
    BY <1>0, <1>2, <2>1, <2>3, <2>4
    DEF IInv, Fresh, ReadDone, InflightAlive, TypeOK
  <2>6. HoldersRead'
    BY <1>2, <2>2 DEF IInv, HoldersRead
  <2>7. SoleReaderSafe'
    <3>1. ASSUME NEW d \in Conns, closecb'[d] \in Calls, ~Allocated(closecb[d])',
                 server' = "running"
          PROVE  \E e \in Conns \ {d} : {d, e} \subseteq readers'[closecb'[d]]
      <4>1. d # c /\ closecb'[d] = closecb[d]
        BY <2>2, <3>1
      <4>2. CASE closecb[d] = id
        <5>1. d \in readers[id]
          BY <3>1, <4>1, <4>2 DEF IInv, HoldersRead
        <5> QED BY <1>2, <2>4, <4>1, <4>2, <5>1
      <4>3. CASE closecb[d] # id
        <5>1. ~Allocated(closecb[d])
          BY <2>3, <3>1, <4>1, <4>3 DEF Allocated
        <5> QED BY <1>0, <1>2, <3>1, <4>1, <5>1 DEF IInv, SoleReaderSafe
      <4> QED BY <4>2, <4>3
    <3>2. (fault = "dangling_call" =>
             \E i \in Calls : \E d, e \in Conns :
                d # e /\ {d, e} \subseteq readers[i])'
      BY <1>2, <2>1 DEF IInv, SoleReaderSafe
    <3> QED BY <3>1, <3>2 DEF SoleReaderSafe
  <2>8. PathsMatchCalls'
    BY <1>0, <2>1, <2>3 DEF IInv, PathsMatchCalls, CallDelete, Allocated
  <2> QED BY <2>2, <2>5, <2>6, <2>7, <2>8
<1>3. ASSUME CloseDangling(c)
      PROVE  /\ Fresh' /\ ReadDone' /\ HoldersRead' /\ PathsMatchCalls'
             /\ InflightAlive' /\ SoleReaderSafe' /\ SyncWaiters'
  <2>1. \E id \in Calls : \E x, y \in Conns : x # y /\ {x, y} \subseteq readers[id]
    BY <1>0, <1>3 DEF IInv, SoleReaderSafe, CloseDangling
  <2> QED BY <1>3, <2>1, CrashStep DEF CloseDangling
<1> QED BY <1>1, <1>2, <1>3 DEF CloseConn

\* ahttpd_server_destroy
LEMMA ExitStep ==
    ASSUME IInv, LoopExit
    PROVE  /\ Fresh' /\ ReadDone' /\ HoldersRead' /\ PathsMatchCalls'
           /\ InflightAlive' /\ SoleReaderSafe' /\ SyncWaiters'
<1>0. TypeOK
  BY DEF IInv
<1>1. Fresh' /\ ReadDone'
  BY <1>0 DEF IInv, Fresh, ReadDone, Allocated, LoopExit, TypeOK
<1>2. HoldersRead' /\ InflightAlive'
  BY DEF IInv, HoldersRead, InflightAlive, LoopExit
<1>3. PathsMatchCalls' /\ SyncWaiters'
  BY DEF PathsMatchCalls, SyncWaiters, LoopExit
<1>4. SoleReaderSafe'
  BY DEF IInv, SoleReaderSafe, LoopExit
<1> QED BY <1>1, <1>2, <1>3, <1>4

\* Every step of the server keeps the invariant.
LEMMA IInvStep == IInv /\ [Next]_vars => IInv'
<1> DEFINE Rest == /\ Fresh /\ ReadDone /\ HoldersRead /\ PathsMatchCalls
                   /\ InflightAlive /\ SoleReaderSafe /\ SyncWaiters
<1> SUFFICES ASSUME IInv, [Next]_vars PROVE Rest'
  BY TypeStep DEF IInv
<1>0. TypeOK /\ TypeOK'
  BY TypeStep DEF IInv
<1>1. CASE UNCHANGED vars
  <2>1. Fresh' /\ ReadDone' /\ HoldersRead' /\ InflightAlive'
    BY <1>1 DEF IInv, Fresh, ReadDone, HoldersRead, InflightAlive, vars,
                callVars, connVars
  <2>2. PathsMatchCalls' /\ SoleReaderSafe' /\ SyncWaiters'
    BY <1>1 DEF IInv, PathsMatchCalls, SoleReaderSafe, SyncWaiters, Allocated,
                vars, callVars, connVars, procVars
  <2> QED BY <2>1, <2>2
<1>2. ASSUME NEW c \in Conns, ConnStep(c)
      PROVE  Rest'
  <2> DEFINE Quiet ==
        /\ UNCHANGED <<callVars, inflight, paths, closecb, procVars>>
        /\ cstate[c] # "waiting" /\ cstate'[c] # "waiting"
        /\ \A d \in Conns \ {c} : cstate'[d] = cstate[d]
  <2>1. Quiet => Rest'
    <3>1. cstate' \in [Conns -> {"closed", "idle", "waiting", "replied"}]
      BY <1>0 DEF TypeOK
    <3> QED BY <3>1, QuietStep
  <2>2. CASE Connect(c)
    BY <1>0, <2>1, <2>2 DEF Connect, TypeOK
  <2>3. CASE FlushReply(c)
    BY <1>0, <2>1, <2>3 DEF FlushReply, TypeOK
  <2>4. CASE RejectCall(c)
    BY <1>0, <2>1, <2>4 DEF RejectCall, Reply, Serving, TypeOK
  <2>5. ASSUME NEW id \in Calls, ReadoutPending(c, id) \/ ReadoutGone(c, id)
        PROVE  Rest'
    BY <1>0, <2>1, <2>5 DEF ReadoutPending, ReadoutGone, Reply, Serving, TypeOK
  <2>6. ASSUME NEW id \in Calls, ReadoutDone(c, id)
        PROVE  Rest'
    BY <2>6, ReadoutStep
  <2>7. ASSUME NEW is_async \in {0, 1}, CallCreate(c, is_async)
        PROVE  Rest'
    BY <2>7, CreateStep
  <2> QED
    BY <1>2, <2>2, <2>3, <2>4, <2>5, <2>6, <2>7, StartFailsStep, TerminateStep,
       CloseStep
    DEF ConnStep
<1>3. ASSUME NEW id \in Calls, CallCompleted(id)
      PROVE  Rest'
  <2>1. CASE CompleteOrphan(id)
    BY <2>1, CrashStep DEF CompleteOrphan
  <2> QED BY <1>3, <2>1, CompleteAsyncStep, CompleteSyncStep DEF CallCompleted
<1> QED BY <1>1, <1>2, <1>3, ExitStep DEF Next

\* The inductive invariant holds in every behaviour.
THEOREM Invariance == Spec => []IInv
BY IInvInit, IInvStep, PTL DEF Spec

\* While the server runs, the .../pending/<id> paths registered with evhttp are
\* exactly those of allocated calls: resource_readout is never entered with a
\* freed record, and no live call has lost its path.
THEOREM PathsAlwaysMatch == Spec => []PathsMatchCalls
BY Invariance, PTL DEF IInv

\* The record behind every call in flight is alive: the argument the aura core
\* hands to call_completed_cb never dangles.
THEOREM InflightAlwaysAlive == Spec => []InflightAlive
BY Invariance, PTL DEF IInv

\* conn_close_cb can find its record freed only if the result was sent on two
\* connections.
THEOREM SoleReaderAlwaysSafe == Spec => []SoleReaderSafe
BY Invariance, PTL DEF IInv

\* A client waits exactly while one synchronous call of its own is in flight.
THEOREM WaitersMatchCalls == Spec => []SyncWaiters
BY Invariance, PTL DEF IInv

\* While the server runs on, only a call whose result was sent is freed.
THEOREM NoResultLost == Spec => ResultNotLost
<1> DEFINE Kept == \A id \in Calls :
         Allocated(id) /\ list'[id] = "freed" /\ server' = "running"
           => retbuf[id] # "NULL" /\ readers[id] # {}
<1>1. IInv /\ [Next]_vars => [Kept]_vars
  <2> SUFFICES ASSUME IInv, Next, NEW id \in Calls, Allocated(id),
                      list'[id] = "freed", server' = "running"
               PROVE  retbuf[id] # "NULL" /\ readers[id] # {}
    OBVIOUS
  <2>0. TypeOK /\ list[id] # "freed"
    BY DEF IInv, Allocated
  <2>1. ASSUME NEW c \in Conns, ConnStep(c)
        PROVE  CloseDeletes(c)
    <3>1. CASE CloseConn(c)
      BY <2>0, <3>1 DEF CloseConn, ClosePlain, CloseTerminate, CloseDangling, Crash
    <3>2. ASSUME NEW is_async \in {0, 1}, CallCreate(c, is_async)
          PROVE  FALSE
      BY <2>0, <3>2 DEF CallCreate, NewCall, TypeOK
    <3>3. ASSUME NEW i \in Calls, ReadoutDone(c, i)
          PROVE  FALSE
      BY <2>0, <3>3 DEF ReadoutDone, TypeOK
    <3>4. UNCHANGED list => FALSE
      BY <2>0
    <3> QED
      BY <2>1, <3>1, <3>2, <3>3, <3>4
      DEF ConnStep, Connect, FlushReply, RejectCall, CallStartFails,
          ReadoutPending, ReadoutGone, TerminateRequest, callVars
  <2>2. ASSUME NEW i \in Calls, CallCompleted(i)
        PROVE  FALSE
    BY <2>0, <2>2 DEF CallCompleted, CompleteAsync, CompleteSync,
                      CompleteOrphan, Crash, callVars
  <2>3. ~LoopExit
    BY DEF LoopExit
  <2>4. PICK c \in Conns : CloseDeletes(c)
    BY <2>1, <2>2, <2>3 DEF Next
  <2>5. closecb[c] = id
    BY <2>0, <2>4 DEF CloseDeletes, CallDelete, TypeOK
  <2> QED BY <2>5 DEF IInv, HoldersRead, ReadDone
<1> QED BY <1>1, Invariance, PTL DEF Spec, ResultNotLost

---------------------------------------------------------------------------
(* CallResource implements RemoteCall. The mapping is the definition phase; *)
(* the inductive invariant tells which phase a call is in when a callback   *)
(* reaches it.                                                              *)

\* The record of one call decides its phase.
LEMMA PhaseOf ==
    ASSUME NEW id \in Calls
    PROVE  /\ list[id] = "unused" => phase[id] = "none"
           /\ list[id] = "freed" => phase[id] = "gone"
           /\ Allocated(id) /\ readers[id] # {} => phase[id] = "delivered"
           /\ Allocated(id) /\ readers[id] = {} /\ retbuf[id] # "NULL"
                => phase[id] = "completed"
           /\ Allocated(id) /\ readers[id] = {} /\ retbuf[id] = "NULL"
                => phase[id] = "started"
BY DEF phase, livePhase, Allocated

\* The same in the next state.
LEMMA PhaseOfNext ==
    ASSUME NEW id \in Calls
    PROVE  /\ list'[id] = "unused" => phase'[id] = "none"
           /\ list'[id] = "freed" => phase'[id] = "gone"
           /\ Allocated(id)' /\ readers'[id] # {} => phase'[id] = "delivered"
           /\ Allocated(id)' /\ readers'[id] = {} /\ retbuf'[id] # "NULL"
                => phase'[id] = "completed"
           /\ Allocated(id)' /\ readers'[id] = {} /\ retbuf'[id] = "NULL"
                => phase'[id] = "started"
BY DEF phase, livePhase, Allocated

\* A step that touches the record of one call changes one phase.
LEMMA OnePhase ==
    ASSUME NEW id \in Calls,
           \A i \in Calls \ {id} : /\ list'[i] = list[i]
                                   /\ readers'[i] = readers[i]
                                   /\ retbuf'[i] = retbuf[i]
    PROVE  phase' = [phase EXCEPT ![id] = phase'[id]]
<1>1. \A i \in Calls \ {id} : phase'[i] = phase[i]
  BY DEF phase, livePhase
<1>2. phase = [i \in Calls |-> phase[i]] /\ phase' = [i \in Calls |-> phase'[i]]
  BY DEF phase
<1> QED BY <1>1, <1>2

\* A step that leaves all records alone while the server stays as it is.
LEMMA SamePhase ==
    ASSUME UNCHANGED <<list, readers, retbuf, server>>
    PROVE  UNCHANGED RC!vars
BY DEF phase, livePhase, RC!vars

\* A crash is a stop that discards nothing.
LEMMA CrashStops ==
    ASSUME NEW f, Crash(f), server = "running"
    PROVE  RC!Stop
<1>1. phase' = phase
  BY DEF Crash, phase, livePhase, callVars
<1>2. ~(server' = "running")
  BY DEF Crash
<1> QED BY <1>1, <1>2 DEF RC!Stop

\* The calls of a fresh server have not been started.
LEMMA RefinementInit == Init => RC!Init
BY DEF Init, RC!Init, phase, RC!Calls, Calls

\* Every step of the server is a step of RemoteCall or leaves its state alone.
LEMMA RefinementStep == IInv /\ [Next]_vars => [RC!Next]_(RC!vars)
<1> SUFFICES ASSUME IInv, [Next]_vars PROVE [RC!Next]_(RC!vars)
  OBVIOUS
<1>0. TypeOK /\ Calls = RC!Calls
  BY DEF IInv, Calls, RC!Calls
<1>1. CASE UNCHANGED vars
  BY <1>1, SamePhase DEF vars, callVars, procVars
<1>2. ASSUME NEW c \in Conns, ConnStep(c)
      PROVE  [RC!Next]_(RC!vars)
  <2>1. CASE \/ Connect(c) \/ FlushReply(c) \/ RejectCall(c)
             \/ CallStartFails(c) \/ TerminateRequest(c)
             \/ \E id \in Calls : ReadoutPending(c, id) \/ ReadoutGone(c, id)
    BY <2>1, SamePhase
    DEF Connect, FlushReply, RejectCall, CallStartFails, TerminateRequest,
        ReadoutPending, ReadoutGone, callVars, procVars
  <2>2. ASSUME NEW is_async \in {0, 1}, CallCreate(c, is_async)
        PROVE  RC!Next
    <3>1. callid \in Calls /\ server = "running" /\ server' = "running"
      BY <1>0, <2>2, MaxCallsAssumption
      DEF CallCreate, NewCall, Serving, TypeOK, Calls, procVars
    <3>2. \A i \in Calls : i >= callid =>
            list[i] = "unused" /\ retbuf[i] = "NULL" /\ readers[i] = {}
      BY DEF IInv, Fresh
    <3>3. callid >= callid
      BY <3>1 DEF Calls
    <3>4. phase[callid] = "none"
      BY <3>1, <3>2, <3>3, PhaseOf
    <3>5. phase'[callid] = "started"
      <4>1. list'[callid] = "pending"
        BY <1>0, <2>2, <3>1 DEF CallCreate, NewCall, TypeOK
      <4>2. retbuf'[callid] = "NULL" /\ readers'[callid] = {}
        BY <2>2, <3>1, <3>2, <3>3 DEF CallCreate, NewCall
      <4> QED BY <3>1, <4>1, <4>2, PhaseOfNext DEF Allocated
    <3>6. phase' = [phase EXCEPT ![callid] = "started"]
      <4>1. \A i \in Calls \ {callid} : /\ list'[i] = list[i]
                                        /\ readers'[i] = readers[i]
                                        /\ retbuf'[i] = retbuf[i]
        BY <1>0, <2>2 DEF CallCreate, NewCall, TypeOK
      <4> QED BY <3>1, <3>5, <4>1, OnePhase
    <3>7. \A later \in Calls : later > callid => phase[later] = "none"
      <4> TAKE later \in Calls
      <4> HAVE later > callid
      <4>1. later >= callid
        BY <3>1 DEF Calls
      <4> QED BY <3>2, <4>1, PhaseOf
    <3>8. RC!Start(callid)
      BY <1>0, <3>1, <3>4, <3>6, <3>7 DEF RC!Start, RC!Step
    <3> QED BY <1>0, <3>1, <3>8 DEF RC!Next
  <2>3. ASSUME NEW id \in Calls, ReadoutDone(c, id)
        PROVE  [RC!Next]_(RC!vars)
    <3>1. Allocated(id) /\ server = "running" /\ server' = "running"
           /\ retbuf[id] # "NULL"
      BY <2>3 DEF IInv, PathsMatchCalls, ReadoutDone, Serving, procVars
    <3>2. phase[id] \in {"completed", "delivered"}
      BY <3>1, PhaseOf
    <3>3. phase'[id] = "delivered"
      <4>1. list'[id] = "gc" /\ readers'[id] # {}
        BY <1>0, <2>3 DEF ReadoutDone, Deliver, TypeOK
      <4> QED BY <4>1, PhaseOfNext DEF Allocated
    <3>4. phase' = [phase EXCEPT ![id] = "delivered"]
      <4>1. \A i \in Calls \ {id} : /\ list'[i] = list[i]
                                    /\ readers'[i] = readers[i]
                                    /\ retbuf'[i] = retbuf[i]
        BY <1>0, <2>3 DEF ReadoutDone, Deliver, TypeOK
      <4> QED BY <3>3, <4>1, OnePhase
    <3>5. CASE phase[id] = "completed"
      <4>1. RC!Deliver(id)
        BY <3>1, <3>4, <3>5 DEF RC!Deliver, RC!Step
      <4> QED BY <1>0, <4>1 DEF RC!Next
    <3>6. CASE phase[id] = "delivered"
      <4>1. phase' = phase
        BY <3>4, <3>6 DEF phase
      <4> QED BY <3>1, <4>1 DEF RC!vars
    <3> QED BY <3>2, <3>5, <3>6
  <2>4. CASE CloseConn(c)
    <3> DEFINE Rest == UNCHANGED <<callid, async, retbuf, status, readers,
                                   inflight, reply>>
    <3>1. CASE (ClosePlain(c) \/ CloseTerminate(c)) /\ Rest
      BY <3>1, SamePhase DEF ClosePlain, CloseTerminate
    <3>2. CASE CloseDeletes(c) /\ Rest
      <4> DEFINE id == closecb[c]
      <4>1. /\ id \in Calls /\ Allocated(id) /\ readers[id] # {}
            /\ server = "running" /\ server' = "running"
        BY <2>4, <3>2 DEF IInv, HoldersRead, CloseDeletes, CloseConn
      <4>2. list' = [list EXCEPT ![id] = "freed"]
        BY <3>2 DEF CloseDeletes, CallDelete
      <4> HIDE DEF id
      <4>3. phase[id] = "delivered"
        BY <4>1, PhaseOf
      <4>4. phase'[id] = "gone"
        BY <1>0, <4>1, <4>2, PhaseOfNext DEF TypeOK
      <4>5. phase' = [phase EXCEPT ![id] = "gone"]
        <5>1. \A i \in Calls \ {id} : /\ list'[i] = list[i]
                                      /\ readers'[i] = readers[i]
                                      /\ retbuf'[i] = retbuf[i]
          BY <1>0, <3>2, <4>2 DEF TypeOK
        <5> QED BY <4>1, <4>4, <5>1, OnePhase
      <4>6. RC!Discard(id)
        BY <4>1, <4>3, <4>5 DEF RC!Discard, RC!Step
      <4> QED BY <1>0, <4>1, <4>6 DEF RC!Next
    <3>3. CASE CloseDangling(c)
      BY <2>4, <3>3, CrashStops DEF CloseDangling, CloseConn, RC!Next
    <3> QED BY <2>4, <3>1, <3>2, <3>3 DEF CloseConn
  <2> QED BY <1>2, <2>1, <2>2, <2>3, <2>4 DEF ConnStep
<1>3. ASSUME NEW id \in Calls, CallCompleted(id)
      PROVE  [RC!Next]_(RC!vars)
  <2>0. server = "running" /\ id \in inflight
    BY <1>3 DEF CallCompleted
  <2>1. list[id] = "pending" /\ retbuf[id] = "NULL" /\ readers[id] = {}
    BY <2>0 DEF IInv, InflightAlive, ReadDone
  <2>2. phase[id] = "started"
    BY <2>1, PhaseOf DEF Allocated
  <2>3. CASE CompleteAsync(id)
    <3>1. phase'[id] = "completed"
      <4>1. list'[id] = "pending" /\ retbuf'[id] # "NULL" /\ readers'[id] = {}
        BY <1>0, <2>1, <2>3 DEF CompleteAsync, TypeOK
      <4> QED BY <4>1, PhaseOfNext DEF Allocated
    <3>2. phase' = [phase EXCEPT ![id] = "completed"]
      <4>1. \A i \in Calls \ {id} : /\ list'[i] = list[i]
                                    /\ readers'[i] = readers[i]
                                    /\ retbuf'[i] = retbuf[i]
        BY <1>0, <2>3 DEF CompleteAsync, TypeOK
      <4> QED BY <3>1, <4>1, OnePhase
    <3>3. server' = server
      BY <2>3 DEF CompleteAsync, procVars
    <3>4. RC!Complete(id)
      BY <2>0, <2>2, <3>2, <3>3 DEF RC!Complete, RC!Step
    <3> QED BY <1>0, <3>4 DEF RC!Next
  <2>4. CASE CompleteSync(id)
    <3>1. phase'[id] = "delivered"
      <4>1. list'[id] = "pending" /\ readers'[id] # {}
        BY <1>0, <2>1, <2>4 DEF CompleteSync, Deliver, TypeOK
      <4> QED BY <4>1, PhaseOfNext DEF Allocated
    <3>2. phase' = [phase EXCEPT ![id] = "delivered"]
      <4>1. \A i \in Calls \ {id} : /\ list'[i] = list[i]
                                    /\ readers'[i] = readers[i]
                                    /\ retbuf'[i] = retbuf[i]
        BY <1>0, <2>4 DEF CompleteSync, Deliver, TypeOK
      <4> QED BY <3>1, <4>1, OnePhase
    <3>3. server' = server
      BY <2>4 DEF CompleteSync, procVars
    <3>4. RC!Deliver(id)
      BY <2>0, <2>2, <3>2, <3>3 DEF RC!Deliver, RC!Step
    <3> QED BY <1>0, <3>4 DEF RC!Next
  <2>5. CASE CompleteOrphan(id)
    BY <2>0, <2>5, CrashStops DEF CompleteOrphan, RC!Next
  <2> QED BY <1>3, <2>3, <2>4, <2>5 DEF CallCompleted
<1>4. CASE LoopExit
  <2>1. \A id \in Calls :
          phase'[id] = IF phase[id] = "none" THEN "none" ELSE "gone"
    <3> TAKE id \in Calls
    <3>1. list'[id] = IF list[id] = "unused" THEN "unused" ELSE "freed"
      BY <1>0, <1>4 DEF LoopExit, Allocated, TypeOK
    <3>2. phase[id] = "none" <=> list[id] = "unused"
      BY <1>0 DEF phase, livePhase
    <3> QED BY <3>1, <3>2, PhaseOfNext
  <2>2. phase' = [id \in Calls |-> IF phase[id] = "none" THEN "none" ELSE "gone"]
    <3>1. phase' = [id \in Calls |-> phase'[id]]
      BY DEF phase
    <3> QED BY <2>1, <3>1
  <2>3. server = "running" /\ server' # "running"
    BY <1>4 DEF LoopExit
  <2>4. RC!Stop
    BY <1>0, <2>2, <2>3 DEF RC!Stop
  <2> QED BY <2>4 DEF RC!Next
<1> QED BY <1>1, <1>2, <1>3, <1>4 DEF Next

\* The call resources implement RemoteCall: with every interleaving of clients,
\* completions, closing connections and shutdown, each call goes through its
\* phases in order and no result is discarded undelivered while serving.
THEOREM Refinement == Spec => ImplementsRemoteCall
<1>1. Spec => RC!Init
  BY RefinementInit DEF Spec
<1>2. Spec => [][RC!Next]_(RC!vars)
  BY RefinementStep, Invariance, PTL DEF Spec
<1> QED BY <1>1, <1>2 DEF ImplementsRemoteCall, RC!Spec
---------------------------------------------------------------------------
(* AuraClient. What is added to IInv says which script each connection and  *)
(* each call belongs to.                                                    *)

\* The part of the type invariant about the scripts.
JobTypes ==
    /\ job \in [Jobs -> {"new", "calling", "ready", "polling", "sleeping",
                         "done", "dead"}]
    /\ kind \in [Jobs -> {"call", "acall"}]
    /\ conn \in [Jobs -> Conns \cup {NoConn}]
    /\ own \in [Jobs -> Calls \cup {NoCall}]
    /\ loc \in [Jobs -> Calls \cup {NoCall}]
    /\ handled \in [Jobs -> {"nothing", "error", "result"}]
    /\ lost \in [Jobs -> BOOLEAN]

\* A script is on a connection exactly while it has a request under way, and
\* has it for itself; a connection is busy exactly when a script is on it.
OneRequestPerConn ==
    /\ \A k \in Jobs : job[k] \in {"calling", "polling"} <=> conn[k] # NoConn
    /\ \A k, j \in Jobs : conn[k] = conn[j] /\ conn[k] # NoConn => k = j
    /\ server = "running" =>
         \A c \in Conns : cstate[c] \in {"waiting", "replied"} <=> ~Free(c)

\* A call belongs to one script and is of the kind that script makes.
OneScriptPerCall ==
    /\ \A k \in Jobs : job[k] = "new" => own[k] = NoCall
    /\ \A k, j \in Jobs : own[k] = own[j] /\ own[k] # NoCall => k = j
    /\ \A k \in Jobs : own[k] # NoCall =>
         /\ own[k] < callid
         /\ async[own[k]] = 1 <=> kind[k] = "acall"

\* The result of the script's call is still to be fetched.
Fetchable(k) ==
    /\ kind[k] = "acall"
    /\ own[k] \in paths
    /\ readers[own[k]] = {}

\* The reply on the script's connection carries the result of its call.
Fetched(k) ==
    /\ reply[conn[k]] = "completed"
    /\ own[k] \in Calls
    /\ closecb[conn[k]] = own[k]

\* What a script that waits for the answer to its PUT may find.
CallingOK(k) ==
    \/ /\ cstate[conn[k]] = "waiting" /\ reply[conn[k]] = "none"
       /\ kind[k] = "call"
       /\ own[k] \in inflight /\ request[own[k]] = conn[k]
    \/ /\ cstate[conn[k]] = "replied"
       /\ \/ reply[conn[k]] = "error"
          \/ reply[conn[k]] = "accepted" /\ Fetchable(k)
          \/ Fetched(k)

\* What a script that polls may find.
PollingOK(k) ==
    /\ cstate[conn[k]] = "replied"
    /\ loc[k] = own[k]
    /\ \/ reply[conn[k]] = "status_pending" /\ Fetchable(k)
       \/ Fetched(k)

\* What the server holds for a script, wherever the script is.
JobOK(k) ==
    /\ job[k] = "calling" => CallingOK(k)
    /\ job[k] = "polling" => PollingOK(k)
    /\ job[k] \in {"ready", "sleeping"} => loc[k] = own[k] /\ Fetchable(k)

JobsOK == server = "running" => \A k \in Jobs : JobOK(k)

\* No result is read twice.
SoleReader == \A id \in Calls : \A c, d \in readers[id] : c = d

\* A synchronous call in flight without its client has lost a connection.
OrphansExplained ==
    \A id \in inflight : async[id] = 0 /\ request[id] = NoConn =>
        \E k \in Jobs : kind[k] = "call" /\ lost[k]

CInv ==
    /\ IInv
    /\ JobTypes
    /\ OneRequestPerConn
    /\ OneScriptPerCall
    /\ JobsOK
    /\ SoleReader
    /\ OrphansExplained
    /\ ScriptsSafe

\* The facts about the constants that the steps use.
LEMMA NoCallNoId == NoCall \notin Calls /\ NoConn \notin Conns
BY NoCallAssumption, ConnsAssumption, MaxCallsAssumption DEF Calls

\* Every step of the scripts is a step of the server they use.
LEMMA ScriptStep == CInv /\ [ClientNext]_allVars => [Next]_vars
<1> SUFFICES ASSUME CInv, [ClientNext]_allVars PROVE [Next]_vars
  OBVIOUS
<1>1. CASE UNCHANGED allVars
  BY <1>1 DEF allVars
<1>2. ASSUME NEW k \in Jobs, NEW c \in Conns, CallStarted(k, c) PROVE Next
  <2>1. (IF kind[k] = "acall" THEN 1 ELSE 0) \in {0, 1}
    OBVIOUS
  <2>2. \E is_async \in {0, 1} : CallCreate(c, is_async)
    BY <1>2, <2>1 DEF CallStarted
  <2> QED BY <2>2 DEF Next, ConnStep
<1>3. ASSUME NEW k \in Jobs, NEW c \in Conns, CallRefused(k, c) PROVE Next
  BY <1>3 DEF CallRefused, Next, ConnStep
<1>4. ASSUME NEW k \in Jobs, NEW c \in Conns, Poll(k, c) PROVE Next
  <2>1. server = "running" /\ job[k] \in {"ready", "sleeping"}
    BY <1>4 DEF Poll, ReadoutDone, ReadoutPending, ReadoutGone, Serving
  <2>2. loc[k] \in Calls
    BY <2>1 DEF CInv, JobsOK, JobOK, Fetchable, IInv, TypeOK
  <2> QED BY <1>4, <2>2 DEF Poll, Next, ConnStep
<1>5. ASSUME NEW k \in Jobs, ReplyTaken(k) \/ ConnectionLost(k) PROVE Next
  <2>1. \A place, r : Received(k, place, r) /\ place \in {"calling", "polling"} =>
            conn[k] \in Conns /\ FlushReply(conn[k])
    BY DEF Received, CInv, OneRequestPerConn, JobTypes
  <2>2. ErrorReceived(k) \/ ConnectionLost(k) =>
            conn[k] \in Conns /\ CloseConn(conn[k])
    BY DEF ErrorReceived, ConnectionLost, CInv, JobTypes
  <2>3. conn[k] \in Conns /\ (FlushReply(conn[k]) \/ CloseConn(conn[k]))
    BY <1>5, <2>1, <2>2
    DEF ReplyTaken, Accepted, CallReturned, StillPending, PollReturned
  <2> QED BY <2>3 DEF Next, ConnStep
<1>6. ASSUME NEW k \in Jobs, ServerLost(k) PROVE UNCHANGED vars
  BY <1>6 DEF ServerLost
<1>7. ASSUME NEW c \in Conns, ConnectionUnused(c) PROVE Next
  BY <1>7 DEF ConnectionUnused, Next, ConnStep
<1>8. ASSUME NEW id \in Calls, Completion(id) PROVE Next
  BY <1>8 DEF Completion, Next
<1> QED BY <1>1, <1>2, <1>3, <1>4, <1>5, <1>6, <1>7, <1>8 DEF ClientNext

\* Before the first script runs.
LEMMA CInvInit == ClientInit => CInv
<1> SUFFICES ASSUME ClientInit PROVE CInv
  OBVIOUS
<1>1. IInv
  BY IInvInit DEF ClientInit
<1>2. JobTypes
  <2>1. lost \in [Jobs -> BOOLEAN]
    BY DEF ClientInit
  <2> QED BY <2>1 DEF ClientInit, JobTypes
<1>3. OneRequestPerConn /\ OneScriptPerCall
  BY ConnsAssumption DEF ClientInit, Init, OneRequestPerConn, OneScriptPerCall, Free
<1>4. JobsOK /\ SoleReader /\ OrphansExplained /\ ScriptsSafe
  BY DEF ClientInit, Init, JobsOK, JobOK, SoleReader, OrphansExplained, ScriptsSafe
<1> QED BY <1>1, <1>2, <1>3, <1>4 DEF CInv

\* A PUT: the call is new, and so is the connection's busy state.
LEMMA CallStartedStep ==
    ASSUME CInv, IInv', NEW k \in Jobs, NEW c \in Conns, CallStarted(k, c)
    PROVE  CInv'
<1> USE NoCallNoId
<1>1. /\ server = "running" /\ cstate[c] = "idle" /\ callid \in Calls
      /\ callid' = callid + 1 /\ callid \in Nat
      /\ server' = server /\ fault' = fault /\ readers' = readers
      /\ closecb' = closecb
      /\ async' = [async EXCEPT ![callid] = IF kind[k] = "acall" THEN 1 ELSE 0]
      /\ request' = [request EXCEPT ![callid] = c]
      /\ inflight' = inflight \cup {callid} /\ paths' = paths \cup {callid}
  BY MaxCallsAssumption
  DEF CallStarted, CallCreate, NewCall, Serving, CInv, IInv, TypeOK, Calls, procVars
<1>2. /\ cstate' = [cstate EXCEPT ![c] = IF kind[k] = "acall" THEN "replied" ELSE "waiting"]
      /\ reply' = [reply EXCEPT ![c] = IF kind[k] = "acall" THEN "accepted" ELSE "none"]
  BY DEF CallStarted, CallCreate, AnswerNewCall, Reply
<1>3. /\ job[k] = "new" /\ job' = [job EXCEPT ![k] = "calling"]
      /\ conn' = [conn EXCEPT ![k] = c] /\ own' = [own EXCEPT ![k] = callid]
      /\ kind' = kind /\ loc' = loc /\ handled' = handled /\ lost' = lost
  BY DEF CallStarted, SendCall, Goto
<1>4. JobTypes'
  BY <1>1, <1>3 DEF CInv, JobTypes
<1>5. Free(c) /\ conn[k] = NoConn /\ own[k] = NoCall
  BY <1>1, <1>3 DEF CInv, OneRequestPerConn, OneScriptPerCall
<1>6. OneRequestPerConn'
  BY <1>1, <1>2, <1>3, <1>5 DEF CInv, IInv, TypeOK, JobTypes, OneRequestPerConn, Free
<1>7. OneScriptPerCall'
  BY <1>1, <1>3 DEF CInv, IInv, TypeOK, JobTypes, OneScriptPerCall, Calls
<1>8. JobsOK'
  <2> SUFFICES ASSUME NEW j \in Jobs
               PROVE  JobOK(j)'
    BY DEF JobsOK
  <2>1. CASE j = k
    <3>1. readers[callid] = {}
      BY <1>1 DEF CInv, IInv, Fresh, TypeOK
    <3> QED BY <1>1, <1>2, <1>3, <2>1, <3>1
            DEF CInv, IInv, TypeOK, JobTypes, JobOK, CallingOK, Fetchable
  <2>2. CASE j # k
    <3>1. /\ job'[j] = job[j] /\ conn'[j] = conn[j] /\ own'[j] = own[j]
          /\ conn[j] # c /\ own[j] # callid
      BY <1>1, <1>3, <1>5, <2>2 DEF CInv, JobTypes, OneScriptPerCall, Free
    <3> QED BY <1>1, <1>2, <1>3, <3>1
            DEF CInv, IInv, TypeOK, JobTypes, JobsOK, JobOK, OneRequestPerConn,
                CallingOK, PollingOK, Fetchable, Fetched
  <2> QED BY <2>1, <2>2
<1>9. SoleReader' /\ ScriptsSafe'
  BY <1>1, <1>3 DEF CInv, SoleReader, ScriptsSafe
<1>10. OrphansExplained'
  BY <1>1, <1>3 DEF CInv, IInv, TypeOK, OrphansExplained
<1> QED BY <1>4, <1>6, <1>7, <1>8, <1>9, <1>10 DEF CInv

\* A PUT that is refused.
LEMMA CallRefusedStep ==
    ASSUME CInv, IInv', NEW k \in Jobs, NEW c \in Conns, CallRefused(k, c)
    PROVE  CInv'
<1> USE NoCallNoId
<1>1. /\ server = "running" /\ cstate[c] = "idle"
      /\ callid \in Nat /\ callid' \in {callid, callid + 1}
      /\ server' = server /\ fault' = fault /\ readers' = readers
      /\ closecb' = closecb /\ async' = async /\ request' = request
      /\ inflight' = inflight /\ paths' = paths
      /\ cstate' = [cstate EXCEPT ![c] = "replied"]
      /\ reply' = [reply EXCEPT ![c] = "error"]
  BY MaxCallsAssumption
  DEF CallRefused, RejectCall, CallStartFails, Reply, Serving, CInv, IInv, TypeOK,
      callVars, procVars
<1>2. /\ job[k] = "new" /\ job' = [job EXCEPT ![k] = "calling"]
      /\ conn' = [conn EXCEPT ![k] = c] /\ own' = own
      /\ kind' = kind /\ loc' = loc /\ handled' = handled /\ lost' = lost
  BY DEF CallRefused, SendCall, Goto
<1>3. JobTypes'
  BY <1>2 DEF CInv, JobTypes
<1>4. Free(c) /\ conn[k] = NoConn
  BY <1>1, <1>2 DEF CInv, OneRequestPerConn
<1>5. OneRequestPerConn'
  BY <1>1, <1>2, <1>4 DEF CInv, IInv, TypeOK, JobTypes, OneRequestPerConn, Free
<1>6. OneScriptPerCall'
  BY <1>1, <1>2 DEF CInv, IInv, TypeOK, JobTypes, OneScriptPerCall, Calls
<1>7. JobsOK'
  <2> SUFFICES ASSUME NEW j \in Jobs PROVE JobOK(j)'
    BY DEF JobsOK
  <2>1. CASE j = k
    BY <1>1, <1>2, <2>1 DEF CInv, IInv, TypeOK, JobTypes, JobOK, CallingOK
  <2>2. CASE j # k
    <3>1. job'[j] = job[j] /\ conn'[j] = conn[j] /\ conn[j] # c
      BY <1>2, <1>4, <2>2 DEF CInv, JobTypes, Free
    <3> QED BY <1>1, <1>2, <3>1
            DEF CInv, IInv, TypeOK, JobTypes, JobsOK, JobOK, OneRequestPerConn,
                CallingOK, PollingOK, Fetchable, Fetched
  <2> QED BY <2>1, <2>2
<1>8. SoleReader' /\ ScriptsSafe' /\ OrphansExplained'
  BY <1>1, <1>2 DEF CInv, SoleReader, ScriptsSafe, OrphansExplained
<1> QED BY <1>3, <1>5, <1>6, <1>7, <1>8 DEF CInv

\* A poll: the resource is there, and no connection has read it before.
LEMMA PollStep ==
    ASSUME CInv, IInv', NEW k \in Jobs, NEW c \in Conns, Poll(k, c)
    PROVE  CInv'
<1> USE NoCallNoId
<1> DEFINE id == own[k]
<1>1. server = "running" /\ cstate[c] = "idle" /\ job[k] \in {"ready", "sleeping"}
  BY DEF Poll, ReadoutDone, ReadoutPending, ReadoutGone, Serving
<1>2. loc[k] = id /\ Fetchable(k) /\ id \in paths /\ id \in Calls /\ readers[id] = {}
  BY <1>1 DEF CInv, IInv, TypeOK, JobsOK, JobOK, Fetchable
<1>3. /\ job' = [job EXCEPT ![k] = "polling"] /\ conn' = [conn EXCEPT ![k] = c]
      /\ kind' = kind /\ own' = own /\ loc' = loc /\ handled' = handled /\ lost' = lost
  BY DEF Poll, Goto
<1>4. /\ callid' = callid /\ server' = server /\ fault' = fault
      /\ async' = async /\ request' = request /\ inflight' = inflight /\ paths' = paths
      /\ cstate' = [cstate EXCEPT ![c] = "replied"]
  BY <1>2 DEF Poll, ReadoutDone, ReadoutPending, ReadoutGone, Deliver, Reply,
              callVars, procVars
<1>5. \/ /\ reply' = [reply EXCEPT ![c] = "completed"]
         /\ closecb' = [closecb EXCEPT ![c] = id]
         /\ readers' = [readers EXCEPT ![id] = {c}]
      \/ /\ reply' = [reply EXCEPT ![c] = "status_pending"]
         /\ closecb' = closecb /\ readers' = readers
  <2>1. readers[id] \cup {c} = {c}
    BY <1>2
  <2> QED BY <1>2, <2>1
          DEF Poll, ReadoutDone, ReadoutPending, ReadoutGone, Deliver, Reply, callVars
<1>6. JobTypes'
  BY <1>3 DEF CInv, JobTypes
<1>7. Free(c) /\ conn[k] = NoConn
  BY <1>1 DEF CInv, OneRequestPerConn
<1>8. OneRequestPerConn'
  BY <1>1, <1>3, <1>4, <1>7 DEF CInv, IInv, TypeOK, JobTypes, OneRequestPerConn, Free
<1>9. OneScriptPerCall'
  BY <1>1, <1>3, <1>4 DEF CInv, IInv, TypeOK, JobTypes, OneScriptPerCall
<1>10. JobsOK'
  <2> SUFFICES ASSUME NEW j \in Jobs PROVE JobOK(j)'
    BY DEF JobsOK
  <2>1. CASE j = k
    <3>1. job'[k] = "polling" /\ conn'[k] = c /\ own'[k] = id /\ loc'[k] = id
      BY <1>2, <1>3 DEF CInv, JobTypes
    <3>2. cstate'[c] = "replied"
      BY <1>4 DEF CInv, IInv, TypeOK
    <3>3. Fetched(k)' \/ (reply'[c] = "status_pending" /\ Fetchable(k)')
      BY <1>2, <1>3, <1>4, <1>5, <3>1 DEF CInv, IInv, TypeOK, Fetched, Fetchable
    <3> QED BY <2>1, <3>1, <3>2, <3>3 DEF JobOK, PollingOK
  <2>2. CASE j # k
    <3>1. /\ job'[j] = job[j] /\ conn'[j] = conn[j] /\ conn[j] # c /\ own[j] # id
          /\ JobOK(j) /\ conn[j] \in Conns \cup {NoConn}
          /\ job[j] \in {"calling", "polling"} => conn[j] # NoConn
      BY <1>1, <1>2, <1>3, <1>7, <2>2
      DEF CInv, JobTypes, JobsOK, OneScriptPerCall, OneRequestPerConn, Free
    <3>2. own[j] \in Calls => readers'[own[j]] = readers[own[j]]
      BY <1>2, <1>5, <3>1 DEF CInv, IInv, TypeOK
    <3>3. conn[j] \in Conns => /\ cstate'[conn[j]] = cstate[conn[j]]
                               /\ reply'[conn[j]] = reply[conn[j]]
                               /\ closecb'[conn[j]] = closecb[conn[j]]
      BY <1>4, <1>5, <3>1 DEF CInv, IInv, TypeOK
    <3>4. paths \subseteq Calls
      BY DEF CInv, IInv, TypeOK
    <3> QED BY <1>3, <1>4, <3>1, <3>2, <3>3, <3>4
            DEF JobOK, CallingOK, PollingOK, Fetchable, Fetched
  <2> QED BY <2>1, <2>2
<1>11. SoleReader'
  BY <1>2, <1>5 DEF CInv, IInv, TypeOK, SoleReader
<1>12. ScriptsSafe' /\ OrphansExplained'
  BY <1>3, <1>4 DEF CInv, ScriptsSafe, OrphansExplained
<1> QED BY <1>6, <1>8, <1>9, <1>10, <1>11, <1>12 DEF CInv

\* A reply has come in and the connection is free again.
LEMMA ReceivedStep ==
    ASSUME CInv, IInv', NEW k \in Jobs, NEW place \in {"calling", "polling"}, NEW r,
           Received(k, place, r),
           loc' \in [Jobs -> Calls \cup {NoCall}],
           handled' \in [Jobs -> {"nothing", "error", "result"}],
           \A j \in Jobs : j # k => loc'[j] = loc[j],
           \/ job' = [job EXCEPT ![k] = "done"]
           \/ /\ job' = [job EXCEPT ![k] = "ready"] \/ job' = [job EXCEPT ![k] = "sleeping"]
              /\ Fetchable(k) /\ loc'[k] = own[k]
    PROVE  CInv'
<1> USE NoCallNoId
<1>1. PICK c \in Conns : c = conn[k]
  BY DEF Received, CInv, JobTypes, OneRequestPerConn
<1>2. /\ job[k] = place /\ server = "running" /\ cstate[c] = "replied"
      /\ callid' = callid /\ server' = server /\ fault' = fault
      /\ async' = async /\ request' = request /\ inflight' = inflight /\ paths' = paths
      /\ reply' = reply /\ closecb' = closecb /\ readers' = readers
      /\ cstate' = [cstate EXCEPT ![c] = "idle"]
      /\ conn' = [conn EXCEPT ![k] = NoConn]
      /\ kind' = kind /\ own' = own /\ lost' = lost
  BY <1>1 DEF Received, FlushReply, callVars, procVars
<1>3. JobTypes'
  BY <1>2 DEF CInv, JobTypes
<1>4. /\ job'[k] \notin {"calling", "polling", "new"} /\ conn'[k] = NoConn
      /\ \A j \in Jobs : j # k => /\ job'[j] = job[j] /\ conn'[j] = conn[j]
                                  /\ conn[j] # c
  BY <1>1, <1>2 DEF CInv, JobTypes, OneRequestPerConn
<1>5. OneRequestPerConn'
  <2>1. Free(c)'
    BY <1>1, <1>4 DEF Free
  <2>2. \A d \in Conns : d # c => (Free(d)' <=> Free(d)) /\ cstate'[d] = cstate[d]
    BY <1>1, <1>2, <1>4 DEF CInv, IInv, TypeOK, Free
  <2>3. cstate'[c] = "idle"
    BY <1>1, <1>2 DEF CInv, IInv, TypeOK
  <2> QED BY <1>2, <1>4, <2>1, <2>2, <2>3 DEF CInv, OneRequestPerConn
<1>6. OneScriptPerCall'
  BY <1>2, <1>4 DEF CInv, OneScriptPerCall
<1>7. JobsOK'
  <2> SUFFICES ASSUME NEW j \in Jobs PROVE JobOK(j)'
    BY DEF JobsOK
  <2>1. CASE j = k
    BY <1>2, <1>4, <2>1 DEF JobOK, Fetchable, CInv, JobTypes
  <2>2. CASE j # k
    <3>1. /\ job'[j] = job[j] /\ conn'[j] = conn[j] /\ loc'[j] = loc[j] /\ JobOK(j)
          /\ conn[j] \in Conns => cstate'[conn[j]] = cstate[conn[j]]
          /\ job[j] \in {"calling", "polling"} => conn[j] \in Conns
      BY <1>1, <1>2, <1>4, <2>2
      DEF CInv, IInv, TypeOK, JobTypes, JobsOK, OneRequestPerConn
    <3> QED BY <1>2, <3>1 DEF JobOK, CallingOK, PollingOK, Fetchable, Fetched
  <2> QED BY <2>1, <2>2
<1>8. SoleReader' /\ ScriptsSafe' /\ OrphansExplained'
  BY <1>2 DEF CInv, SoleReader, ScriptsSafe, OrphansExplained
<1> QED BY <1>3, <1>5, <1>6, <1>7, <1>8 DEF CInv

\* What the end of a connection does to the server: no record it would delete
\* has been freed, and no result that is still to be fetched goes with it.
LEMMA CloseEffect ==
    ASSUME CInv, NEW c \in Conns, CloseConn(c)
    PROVE  /\ server = "running" /\ server' = server /\ fault' = fault
           /\ callid' = callid /\ async' = async /\ readers' = readers
           /\ inflight' = inflight /\ reply' = reply
           /\ cstate' = [cstate EXCEPT ![c] = "closed"]
           /\ closecb' = [closecb EXCEPT ![c] = NoCb]
           /\ request' = [id \in Calls |-> IF request[id] = c THEN NoConn ELSE request[id]]
           /\ \A id \in paths : readers[id] = {} => id \in paths'
<1>1. server = "running"
  BY DEF CloseConn
<1>2. ~CloseDangling(c)
  <2> SUFFICES ASSUME CloseDangling(c) PROVE FALSE
    OBVIOUS
  <2>1. closecb[c] \in Calls /\ ~Allocated(closecb[c])
    BY DEF CloseDangling
  <2>2. PICK d \in Conns \ {c} : {c, d} \subseteq readers[closecb[c]]
    BY <1>1, <2>1 DEF CInv, IInv, SoleReaderSafe
  <2> QED BY <2>1, <2>2 DEF CInv, SoleReader
<1>3. closecb[c] \in Calls => readers[closecb[c]] # {}
  BY DEF CInv, IInv, HoldersRead
<1> QED BY <1>1, <1>2, <1>3
        DEF CloseConn, ClosePlain, CloseTerminate, CloseDeletes, DropConn, CallDelete

\* A connection goes, and the request of the script on it fails. If it was
\* the connection of a synchronous call, a script has lost it.
LEMMA ConnGoneStep ==
    ASSUME CInv, IInv', NEW c \in Conns, CloseConn(c), JobTypes',
           kind' = kind, own' = own, loc' = loc,
           \A j \in Jobs : conn[j] # c => job'[j] = job[j] /\ conn'[j] = conn[j],
           \A j \in Jobs : conn[j] = c => job'[j] \in {"done", "dead"} /\ conn'[j] = NoConn,
           \A j \in Jobs : lost[j] => lost'[j],
           cstate[c] = "waiting" => \E j \in Jobs : kind[j] = "call" /\ lost'[j]
    PROVE  CInv'
<1> USE NoCallNoId
<1>1. /\ server = "running" /\ server' = server /\ fault' = fault
      /\ callid' = callid /\ async' = async /\ readers' = readers
      /\ inflight' = inflight /\ reply' = reply
      /\ cstate' = [cstate EXCEPT ![c] = "closed"]
      /\ closecb' = [closecb EXCEPT ![c] = NoCb]
      /\ request' = [id \in Calls |-> IF request[id] = c THEN NoConn ELSE request[id]]
      /\ \A id \in paths : readers[id] = {} => id \in paths'
  BY CloseEffect
<1>2. OneRequestPerConn'
  <2>1. Free(c)' /\ cstate'[c] = "closed"
    BY <1>1 DEF CInv, IInv, TypeOK, Free
  <2>2. \A d \in Conns : d # c => (Free(d)' <=> Free(d)) /\ cstate'[d] = cstate[d]
    BY <1>1 DEF CInv, IInv, TypeOK, Free
  <2>3. \A j \in Jobs : job'[j] \in {"calling", "polling"} <=> conn'[j] # NoConn
    BY DEF CInv, OneRequestPerConn
  <2>4. \A j, k \in Jobs : conn'[j] = conn'[k] /\ conn'[j] # NoConn => j = k
    BY DEF CInv, OneRequestPerConn
  <2> QED BY <1>1, <2>1, <2>2, <2>3, <2>4 DEF CInv, OneRequestPerConn
<1>3. OneScriptPerCall'
  BY <1>1 DEF CInv, OneScriptPerCall
<1>4. JobsOK'
  <2> SUFFICES ASSUME NEW j \in Jobs PROVE JobOK(j)'
    BY DEF JobsOK
  <2>1. CASE conn[j] = c
    BY <2>1 DEF JobOK
  <2>2. CASE conn[j] # c
    <3>1. /\ job'[j] = job[j] /\ conn'[j] = conn[j] /\ JobOK(j)
          /\ job[j] \in {"calling", "polling"} => conn[j] \in Conns
      BY <1>1, <2>2 DEF CInv, JobTypes, JobsOK, OneRequestPerConn
    <3>2. conn[j] \in Conns => /\ cstate'[conn[j]] = cstate[conn[j]]
                               /\ closecb'[conn[j]] = closecb[conn[j]]
      BY <1>1, <2>2 DEF CInv, IInv, TypeOK
    <3>3. own[j] \in Calls /\ request[own[j]] = conn[j] => request'[own[j]] = conn[j]
      BY <1>1, <2>2
    <3>4. Fetchable(j) => Fetchable(j)'
      BY <1>1 DEF Fetchable
    <3>5. inflight \subseteq Calls
      BY DEF CInv, IInv, TypeOK
    <3> QED BY <1>1, <3>1, <3>2, <3>3, <3>4, <3>5
            DEF JobOK, CallingOK, PollingOK, Fetched
  <2> QED BY <2>1, <2>2
<1>5. OrphansExplained'
  <2> SUFFICES ASSUME NEW id \in inflight, async[id] = 0, request'[id] = NoConn
               PROVE  \E j \in Jobs : kind[j] = "call" /\ lost'[j]
    BY <1>1 DEF OrphansExplained
  <2>1. id \in Calls
    BY DEF CInv, IInv, TypeOK
  <2>2. CASE request[id] = NoConn
    BY <2>2 DEF CInv, OrphansExplained
  <2>3. CASE request[id] = c
    BY <1>1, <2>3 DEF CInv, IInv, SyncWaiters
  <2> QED BY <1>1, <2>1, <2>2, <2>3
<1>6. SoleReader' /\ ScriptsSafe'
  BY <1>1 DEF CInv, SoleReader, ScriptsSafe
<1> QED BY <1>2, <1>3, <1>4, <1>5, <1>6 DEF CInv

\* An error reply or a broken connection under the request of a script.
LEMMA FailedStep ==
    ASSUME CInv, IInv', NEW k \in Jobs, ErrorReceived(k) \/ ConnectionLost(k)
    PROVE  CInv'
<1> USE NoCallNoId
<1>1. PICK c \in Conns : c = conn[k]
  BY DEF ErrorReceived, ConnectionLost, CInv, JobTypes
<1>2. /\ CloseConn(c) /\ kind' = kind /\ own' = own /\ loc' = loc
      /\ conn' = [conn EXCEPT ![k] = NoConn]
      /\ job[k] \in {"calling", "polling"}
      /\ job' = [job EXCEPT ![k] = "done"] \/ job' = [job EXCEPT ![k] = "dead"]
      /\ handled' = [handled EXCEPT ![k] = "error"] \/ handled' = handled
  BY <1>1 DEF ErrorReceived, ConnectionLost, RequestFails, Goto, Handle
<1>3. /\ lost' \in [Jobs -> BOOLEAN]
      /\ \A j \in Jobs : lost[j] => lost'[j]
  BY DEF ErrorReceived, ConnectionLost, CInv, JobTypes
<1>4. JobTypes'
  BY <1>2, <1>3 DEF CInv, JobTypes
<1>5. \A j \in Jobs : conn[j] # c => job'[j] = job[j] /\ conn'[j] = conn[j]
  BY <1>1, <1>2 DEF CInv, JobTypes
<1>6. \A j \in Jobs : conn[j] = c => job'[j] \in {"done", "dead"} /\ conn'[j] = NoConn
  BY <1>1, <1>2 DEF CInv, JobTypes, OneRequestPerConn
<1>7. ASSUME cstate[c] = "waiting"
      PROVE  \E j \in Jobs : kind[j] = "call" /\ lost'[j]
  <2>1. server = "running"
    BY <1>2 DEF CloseConn
  <2>2. kind[k] = "call" /\ reply[c] = "none"
    BY <1>1, <1>2, <1>7, <2>1 DEF CInv, JobsOK, JobOK, CallingOK, PollingOK
  <2>3. lost'[k]
    BY <1>1, <2>2 DEF ErrorReceived, ConnectionLost, CInv, JobTypes
  <2> QED BY <2>2, <2>3
<1> QED BY <1>2, <1>3, <1>4, <1>5, <1>6, <1>7, ConnGoneStep

\* A connection nobody uses.
LEMMA UnusedStep ==
    ASSUME CInv, IInv', NEW c \in Conns, ConnectionUnused(c) PROVE CInv'
<1> USE NoCallNoId
<1>1. /\ Free(c) /\ job' = job /\ conn' = conn /\ kind' = kind /\ own' = own
      /\ loc' = loc /\ handled' = handled /\ lost' = lost
  BY DEF ConnectionUnused, jobVars
<1>2. JobTypes'
  BY <1>1 DEF CInv, JobTypes
<1>3. CASE CloseConn(c)
  <2>1. cstate[c] # "waiting"
    BY <1>1, <1>3 DEF CloseConn, CInv, OneRequestPerConn
  <2> QED BY <1>1, <1>2, <1>3, <2>1, ConnGoneStep DEF Free
<1>4. CASE Connect(c)
  <2>1. /\ server = "running" /\ server' = server /\ fault' = fault
        /\ callid' = callid /\ async' = async /\ readers' = readers /\ paths' = paths
        /\ inflight' = inflight /\ closecb' = closecb /\ request' = request
        /\ cstate' = [cstate EXCEPT ![c] = "idle"]
        /\ reply' = [reply EXCEPT ![c] = "none"]
    BY <1>4 DEF Connect, callVars, procVars
  <2>2. OneRequestPerConn'
    BY <1>1, <2>1 DEF CInv, IInv, TypeOK, OneRequestPerConn, Free
  <2>3. ASSUME NEW j \in Jobs PROVE JobOK(j)'
    <3>1. JobOK(j) /\ conn[j] # c /\ (job[j] \in {"calling", "polling"} => conn[j] \in Conns)
      BY <1>1, <2>1 DEF CInv, JobTypes, JobsOK, OneRequestPerConn, Free
    <3>2. conn[j] \in Conns => /\ cstate'[conn[j]] = cstate[conn[j]]
                               /\ reply'[conn[j]] = reply[conn[j]]
      BY <2>1, <3>1 DEF CInv, IInv, TypeOK
    <3> QED BY <1>1, <2>1, <3>1, <3>2 DEF JobOK, CallingOK, PollingOK, Fetchable, Fetched
  <2>4. /\ OneScriptPerCall' /\ SoleReader' /\ OrphansExplained' /\ ScriptsSafe'
    BY <1>1, <2>1 DEF CInv, OneScriptPerCall, SoleReader, OrphansExplained, ScriptsSafe
  <2> QED BY <1>2, <2>2, <2>3, <2>4 DEF CInv, JobsOK
<1> QED BY <1>3, <1>4 DEF ConnectionUnused

\* A call completes. A synchronous result finds the script that made the call
\* on the connection that waits for it.
LEMMA CompletionStep ==
    ASSUME CInv, IInv', NEW id \in Calls, Completion(id) PROVE CInv'
<1> USE NoCallNoId
<1>1. /\ server = "running" /\ id \in inflight
      /\ job' = job /\ conn' = conn /\ kind' = kind /\ own' = own
      /\ loc' = loc /\ handled' = handled /\ lost' = lost
  BY DEF Completion, CallCompleted, jobVars
<1>2. JobTypes'
  BY <1>1 DEF CInv, JobTypes
<1>3. CASE CompleteAsync(id)
  <2>1. /\ async[id] = 1 /\ inflight' = inflight \ {id}
        /\ callid' = callid /\ async' = async /\ request' = request /\ readers' = readers
        /\ paths' = paths /\ cstate' = cstate /\ reply' = reply /\ closecb' = closecb
        /\ server' = server /\ fault' = fault
    BY <1>3 DEF CompleteAsync, connVars, procVars
  <2>2. ASSUME NEW j \in Jobs PROVE JobOK(j)'
    <3>1. JobOK(j) /\ (kind[j] = "call" /\ own[j] \in inflight => own[j] # id)
      BY <1>1, <2>1 DEF CInv, IInv, TypeOK, JobsOK, OneScriptPerCall
    <3> QED BY <1>1, <2>1, <3>1 DEF JobOK, CallingOK, PollingOK, Fetchable, Fetched
  <2>3. OneRequestPerConn' /\ OneScriptPerCall'
    BY <1>1, <2>1 DEF CInv, OneRequestPerConn, OneScriptPerCall, Free
  <2>4. SoleReader' /\ OrphansExplained' /\ ScriptsSafe'
    BY <1>1, <2>1 DEF CInv, SoleReader, OrphansExplained, ScriptsSafe
  <2> QED BY <1>2, <2>2, <2>3, <2>4 DEF CInv, JobsOK
<1>4. CASE CompleteSync(id)
  <2>1. PICK c \in Conns : c = request[id]
    BY <1>4 DEF CompleteSync, CInv, IInv, TypeOK
  <2>2. /\ async[id] = 0 /\ inflight' = inflight \ {id}
        /\ callid' = callid /\ async' = async /\ request' = request /\ paths' = paths
        /\ server' = server /\ fault' = fault
        /\ cstate' = [cstate EXCEPT ![c] = "replied"]
        /\ reply' = [reply EXCEPT ![c] = "completed"]
        /\ closecb' = [closecb EXCEPT ![c] = id]
        /\ readers' = [readers EXCEPT ![id] = readers[id] \cup {c}]
    BY <1>4, <2>1 DEF CompleteSync, Deliver, Reply, procVars
  <2>3. readers[id] = {}
    BY <1>1 DEF CInv, IInv, InflightAlive, ReadDone
  <2>4. cstate[c] = "waiting" /\ \A i \in inflight : async[i] = 0 /\ request[i] = c => i = id
    BY <1>1, <2>1, <2>2 DEF CInv, IInv, SyncWaiters
  <2>5. PICK k \in Jobs : conn[k] = c
    BY <1>1, <2>4 DEF CInv, OneRequestPerConn, Free
  <2>6. job[k] = "calling" /\ own[k] \in inflight /\ request[own[k]] = c /\ kind[k] = "call"
    BY <1>1, <2>4, <2>5
    DEF CInv, OneRequestPerConn, JobsOK, JobOK, CallingOK, PollingOK
  <2>7. own[k] = id
    BY <2>4, <2>6 DEF CInv, IInv, TypeOK, OneScriptPerCall
  <2>8. ASSUME NEW j \in Jobs PROVE JobOK(j)'
    <3>1. CASE j = k
      <4>1. Fetched(k)' /\ cstate'[c] = "replied"
        BY <1>1, <2>2, <2>5, <2>7 DEF Fetched, CInv, IInv, TypeOK
      <4> QED BY <1>1, <2>5, <2>6, <3>1, <4>1 DEF JobOK, CallingOK
    <3>2. CASE j # k
      <4>1. JobOK(j) /\ conn[j] # c /\ own[j] # id
        BY <1>1, <2>5, <2>7, <3>2
        DEF CInv, JobsOK, OneRequestPerConn, OneScriptPerCall
      <4>2. /\ job[j] \in {"calling", "polling"} => conn[j] \in Conns
            /\ paths \subseteq Calls
        BY DEF CInv, IInv, TypeOK, JobTypes, OneRequestPerConn
      <4>3. conn[j] \in Conns => /\ cstate'[conn[j]] = cstate[conn[j]]
                                 /\ reply'[conn[j]] = reply[conn[j]]
                                 /\ closecb'[conn[j]] = closecb[conn[j]]
        BY <2>2, <4>1 DEF CInv, IInv, TypeOK
      <4>4. own[j] \in Calls => readers'[own[j]] = readers[own[j]]
        BY <2>2, <4>1 DEF CInv, IInv, TypeOK
      <4> QED BY <1>1, <2>2, <4>1, <4>2, <4>3, <4>4
              DEF JobOK, CallingOK, PollingOK, Fetchable, Fetched
    <3> QED BY <3>1, <3>2
  <2>9. OneRequestPerConn'
    BY <1>1, <2>2, <2>5 DEF CInv, IInv, TypeOK, OneRequestPerConn, Free
  <2>10. OneScriptPerCall' /\ OrphansExplained' /\ ScriptsSafe'
    BY <1>1, <2>2 DEF CInv, OneScriptPerCall, OrphansExplained, ScriptsSafe
  <2>11. SoleReader'
    BY <2>2, <2>3 DEF CInv, IInv, TypeOK, SoleReader
  <2> QED BY <1>2, <2>8, <2>9, <2>10, <2>11 DEF CInv, JobsOK
<1>5. CASE CompleteOrphan(id)
  <2>1. /\ server' = "crashed" /\ fault' \in {"bug", "dangling_request"}
        /\ callid' = callid /\ async' = async /\ request' = request
        /\ readers' = readers /\ inflight' = inflight
        /\ async[id] = 0 /\ request[id] = NoConn
    BY <1>5 DEF CompleteOrphan, Crash, callVars
  <2>2. OneRequestPerConn' /\ OneScriptPerCall' /\ JobsOK'
    BY <1>1, <2>1 DEF CInv, OneRequestPerConn, OneScriptPerCall, JobsOK
  <2>3. SoleReader' /\ OrphansExplained' /\ ScriptsSafe'
    BY <1>1, <2>1 DEF CInv, SoleReader, OrphansExplained, ScriptsSafe
  <2> QED BY <1>2, <2>2, <2>3 DEF CInv
<1> QED BY <1>3, <1>4, <1>5 DEF Completion, CallCompleted

\* The server is gone, and the request of a script fails with it.
LEMMA ServerLostStep ==
    ASSUME CInv, IInv', NEW k \in Jobs, ServerLost(k) PROVE CInv'
<1> USE NoCallNoId
<1>1. /\ server # "running" /\ UNCHANGED vars
      /\ kind' = kind /\ own' = own /\ loc' = loc /\ lost' = lost
      /\ conn' = [conn EXCEPT ![k] = NoConn]
      /\ job' = [job EXCEPT ![k] = "done"] \/ job' = [job EXCEPT ![k] = "dead"]
      /\ handled' = [handled EXCEPT ![k] = "error"] \/ handled' = handled
  BY DEF ServerLost, RequestFails, Goto, Handle
<1>2. /\ server' = server /\ fault' = fault /\ callid' = callid /\ async' = async
      /\ readers' = readers /\ inflight' = inflight /\ request' = request
  BY <1>1 DEF vars, callVars, procVars
<1>3. JobTypes'
  BY <1>1 DEF CInv, JobTypes
<1>4. OneRequestPerConn' /\ OneScriptPerCall'
  BY <1>1, <1>2 DEF CInv, JobTypes, OneRequestPerConn, OneScriptPerCall
<1>5. JobsOK' /\ SoleReader' /\ OrphansExplained' /\ ScriptsSafe'
  BY <1>1, <1>2 DEF CInv, JobsOK, SoleReader, OrphansExplained, ScriptsSafe
<1> QED BY <1>3, <1>4, <1>5 DEF CInv

\* The four ways a script takes a reply that is no error.
LEMMA TakenStep ==
    ASSUME CInv, IInv', NEW k \in Jobs,
           Accepted(k) \/ CallReturned(k) \/ StillPending(k) \/ PollReturned(k)
    PROVE  CInv'
<1>1. CASE Accepted(k)
  <2>1. /\ Received(k, "calling", "accepted") /\ job[k] = "calling"
        /\ reply[conn[k]] = "accepted" /\ server = "running"
        /\ job' = [job EXCEPT ![k] = "ready"] /\ handled' = handled
        /\ loc' = [loc EXCEPT ![k] = own[k]]
    BY <1>1 DEF Accepted, Received, FlushReply, Goto
  <2>2. Fetchable(k)
    BY <2>1 DEF CInv, JobsOK, JobOK, CallingOK, Fetched
  <2>3. /\ loc' \in [Jobs -> Calls \cup {NoCall}] /\ loc'[k] = own[k]
        /\ handled' \in [Jobs -> {"nothing", "error", "result"}]
        /\ \A j \in Jobs : j # k => loc'[j] = loc[j]
    BY <2>1 DEF CInv, JobTypes
  <2> QED BY <2>1, <2>2, <2>3, ReceivedStep
<1>2. CASE CallReturned(k)
  <2>1. /\ Received(k, "calling", "completed") /\ loc' = loc
        /\ job' = [job EXCEPT ![k] = "done"] /\ handled' = [handled EXCEPT ![k] = "result"]
    BY <1>2 DEF CallReturned, Goto, Handle
  <2>2. /\ loc' \in [Jobs -> Calls \cup {NoCall}]
        /\ handled' \in [Jobs -> {"nothing", "error", "result"}]
    BY <2>1 DEF CInv, JobTypes
  <2> QED BY <2>1, <2>2, ReceivedStep
<1>3. CASE StillPending(k)
  <2>1. /\ Received(k, "polling", "status_pending") /\ job[k] = "polling"
        /\ reply[conn[k]] = "status_pending" /\ server = "running"
        /\ job' = [job EXCEPT ![k] = "sleeping"] /\ handled' = handled /\ loc' = loc
    BY <1>3 DEF StillPending, Received, FlushReply, Goto
  <2>2. Fetchable(k) /\ loc'[k] = own[k]
    BY <2>1 DEF CInv, JobsOK, JobOK, PollingOK, Fetched
  <2>3. /\ loc' \in [Jobs -> Calls \cup {NoCall}]
        /\ handled' \in [Jobs -> {"nothing", "error", "result"}]
    BY <2>1 DEF CInv, JobTypes
  <2> QED BY <2>1, <2>2, <2>3, ReceivedStep
<1>4. CASE PollReturned(k)
  <2>1. /\ Received(k, "polling", "completed") /\ loc' = loc
        /\ job' = [job EXCEPT ![k] = "done"] /\ handled' = [handled EXCEPT ![k] = "result"]
    BY <1>4 DEF PollReturned, Goto, Handle
  <2>2. /\ loc' \in [Jobs -> Calls \cup {NoCall}]
        /\ handled' \in [Jobs -> {"nothing", "error", "result"}]
    BY <2>1 DEF CInv, JobTypes
  <2> QED BY <2>1, <2>2, ReceivedStep
<1> QED BY <1>1, <1>2, <1>3, <1>4

---------------------------------------------------------------------------
LEMMA CInvStep == CInv /\ [ClientNext]_allVars => CInv'
<1> SUFFICES ASSUME CInv, [ClientNext]_allVars PROVE CInv'
  OBVIOUS
<1>1. IInv'
  BY ScriptStep, IInvStep DEF CInv
<1>2. CASE UNCHANGED allVars
  BY <1>1, <1>2
  DEF allVars, vars, callVars, connVars, procVars, jobVars, CInv, JobTypes,
      OneRequestPerConn, Free, OneScriptPerCall, JobsOK, JobOK, CallingOK, PollingOK,
      Fetchable, Fetched, SoleReader, OrphansExplained, ScriptsSafe
<1>3. CASE ClientNext
  <2>1. ASSUME NEW k \in Jobs, NEW c \in Conns,
               CallStarted(k, c) \/ CallRefused(k, c) \/ Poll(k, c)
        PROVE  CInv'
    BY <1>1, <2>1, CallStartedStep, CallRefusedStep, PollStep
  <2>2. ASSUME NEW k \in Jobs, ReplyTaken(k) \/ ConnectionLost(k) \/ ServerLost(k)
        PROVE  CInv'
    BY <1>1, <2>2, TakenStep, FailedStep, ServerLostStep DEF ReplyTaken
  <2>3. ASSUME NEW c \in Conns, ConnectionUnused(c) PROVE CInv'
    BY <1>1, <2>3, UnusedStep
  <2>4. ASSUME NEW id \in Calls, Completion(id) PROVE CInv'
    BY <1>1, <2>4, CompletionStep
  <2> QED BY <1>3, <2>1, <2>2, <2>3, <2>4 DEF ClientNext
<1> QED BY <1>2, <1>3

LEMMA ClientInductive == ClientSpec => []CInv
BY CInvInit, CInvStep, PTL DEF ClientSpec

\* The scripts of aura.js are clients CallResource describes: all that is
\* proved of the server holds with them, whatever connections they share.
THEOREM ScriptsAreClients == ClientSpec => Spec
<1>1. ClientInit => Init
  BY DEF ClientInit
<1> QED BY <1>1, ScriptStep, ClientInductive, PTL DEF ClientSpec, Spec

\* The resource doPollForResult() is going to ask for is registered, between
\* the 202 and the first poll and between any two polls.
THEOREM ResourceAlwaysStays == ClientSpec => []ResourceStays
<1>1. CInv => ResourceStays
  BY DEF CInv, JobsOK, JobOK, Fetchable, ResourceStays
<1> QED BY <1>1, ClientInductive, PTL

\* No close callback finds a record that another one freed, and the server
\* goes down only if a connection was lost under an auraCall().
THEOREM ScriptsAlwaysSafe == ClientSpec => []ScriptsSafe
<1>1. CInv => ScriptsSafe
  BY DEF CInv
<1> QED BY <1>1, ClientInductive, PTL

\* A handler is given the result of the call its own script made.
THEOREM ScriptsGetOwnResult == ClientSpec => OwnResult
<1> DEFINE Own == \A k \in Jobs :
                     handled[k] # "result" /\ handled'[k] = "result" =>
                        closecb[conn[k]] = own[k]
<1>1. CInv /\ [ClientNext]_allVars => [Own]_allVars
  <2> SUFFICES ASSUME CInv, ClientNext, NEW k \in Jobs,
                      handled[k] # "result", handled'[k] = "result"
               PROVE  closecb[conn[k]] = own[k]
    OBVIOUS
  <2>1. CallReturned(k) \/ PollReturned(k)
    BY DEF ClientNext, CallStarted, CallRefused, SendCall, Poll, ReplyTaken, Accepted,
           CallReturned, StillPending, PollReturned, ErrorReceived, ConnectionLost,
           ServerLost, RequestFails, ConnectionUnused, Completion, jobVars, Handle,
           CInv, JobTypes
  <2>2. /\ job[k] \in {"calling", "polling"} /\ reply[conn[k]] = "completed"
        /\ server = "running"
    BY <2>1 DEF CallReturned, PollReturned, Received, FlushReply
  <2> QED BY <2>2 DEF CInv, JobsOK, JobOK, CallingOK, PollingOK, Fetched
<1> QED BY <1>1, ClientInductive, PTL DEF ClientSpec, OwnResult
===========================================================================
