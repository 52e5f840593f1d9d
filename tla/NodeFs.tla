------------------------------ MODULE NodeFs ------------------------------
(***************************************************************************)
(* The paths a node mountpoint offers besides the results of its calls      *)
(* (fs_node.c): one /call/<name> and one /acall/<name> for each object of   *)
(* the node's export table, /exports with the table as JSON, /events with   *)
(* the events the node has sent.                                            *)
(*                                                                          *)
(* The aura core is external. It reports each new export table through      *)
(* etbl_changed_cb and holds at most QueueMax events for the mountpoint     *)
(* (aura_enable_sync_events); it may report that there is no table, which   *)
(* is what the tests for NULL in the callback are for.                      *)
(***************************************************************************)
EXTENDS Naturals, Sequences, Functions

CONSTANTS
    Objects,    \* names of objects a node may export
    NoObject,   \* not a name: marks the absence of a table
    QueueMax,   \* the limit given to aura_enable_sync_events (100)
    MaxEvents   \* bound: how many events the node sends

ASSUME NoObjectAssumption == NoObject \notin Objects
ASSUME EventsAssumption == QueueMax \in Nat \ {0} /\ MaxEvents \in Nat

VARIABLES
    tbl,        \* node->tbl: the exported names, or NoTable
    callpaths,  \* names with a registered /call/<name> and /acall/<name>
    etable,     \* nd->etable: NULL, the JSON array, or a pointer to a freed one
    exported,   \* the names in the JSON array
    queue,      \* events the aura core holds for the mountpoint
    sent,       \* how many events the node has sent
    dropped,    \* events the aura core had no room for
    seen,       \* the events clients were given, in that order
    run,        \* whether the mountpoint is serving
    withdrawn   \* history: the node has reported that it has no table

vars == <<tbl, callpaths, etable, exported, queue, sent, dropped, seen, run,
          withdrawn>>

\* The value of a table pointer that is NULL.
NoTable == {NoObject}

Tables == (SUBSET Objects) \cup {NoTable}

TypeOK ==
    /\ tbl \in Tables
    /\ callpaths \in SUBSET Objects
    /\ etable \in {"NULL", "json", "freed"}
    /\ exported \in SUBSET Objects
    /\ queue \in Seq(1 .. MaxEvents) /\ Len(queue) <= QueueMax
    /\ sent \in 0 .. MaxEvents
    /\ dropped \in SUBSET (1 .. MaxEvents)
    /\ seen \in Seq(1 .. MaxEvents)
    /\ run \in {"serving", "unmounted", "crashed"}
    /\ withdrawn \in BOOLEAN

\* node_mount
Init ==
    /\ tbl = NoTable
    /\ callpaths = {}
    /\ etable = "NULL"
    /\ exported = {}
    /\ queue = <<>>
    /\ sent = 0
    /\ dropped = {}
    /\ seen = <<>>
    /\ run = "serving"
    /\ withdrawn = FALSE

\* The names of a table that may be NULL.
NamesOf(t) == t \ NoTable

\* What a use of nd->etable may do to the process.
AfterUse == IF etable = "freed" THEN {"serving", "crashed"} ELSE {"serving"}

---------------------------------------------------------------------------
\* Faulty variant: the paths of the old table stay.
PathsKept(new) == callpaths' = callpaths \cup NamesOf(new)

\* callpath_delete for the objects of the old table, callpath_add for those of
\* the new one.
PathsReplaced(new) ==
    callpaths' = (callpaths \ NamesOf(tbl)) \cup NamesOf(new)

\* Faulty variant: the JSON array of the old table is kept.
EtableKept(new) ==
    /\ etable' = IF etable = "NULL" /\ new # NoTable THEN "json" ELSE etable
    /\ exported' = IF etable = "NULL" THEN NamesOf(new) ELSE exported

\* etable_delete_callpaths releases the JSON array without clearing the
\* pointer; etable_create_callpaths sets it only if there is a new table.
EtableReplaced(new) ==
    /\ etable' = IF new # NoTable THEN "json"
                 ELSE IF etable = "json" THEN "freed" ELSE etable
    /\ exported' = IF new # NoTable THEN new ELSE exported

\* etbl_changed_cb, then the aura core puts the new table in place. Releasing
\* an array that is already freed may end the process.
EtableChanged(new) ==
    /\ run = "serving"
    /\ new # tbl
    /\ PathsReplaced(new)
    /\ EtableReplaced(new)
    /\ tbl' = new
    /\ withdrawn' = (withdrawn \/ new = NoTable)
    /\ run' \in AfterUse
    /\ UNCHANGED <<queue, sent, dropped, seen>>

\* exports(): the JSON array is printed, whatever the pointer is worth.
Exports ==
    /\ run = "serving"
    /\ run' \in AfterUse
    /\ UNCHANGED <<tbl, callpaths, etable, exported, queue, sent, dropped, seen,
                   withdrawn>>

\* The node sends an event. When the queue is full one event is lost: which
\* one is the aura core's choice, the oldest or the new one.
EventArrives ==
    /\ run = "serving"
    /\ sent < MaxEvents
    /\ sent' = sent + 1
    /\ \/ /\ Len(queue) < QueueMax
          /\ queue' = Append(queue, sent + 1)
          /\ UNCHANGED dropped
       \/ /\ Len(queue) = QueueMax
          /\ \/ /\ queue' = Append(Tail(queue), sent + 1)
                /\ dropped' = dropped \cup {Head(queue)}
             \/ /\ dropped' = dropped \cup {sent + 1}
                /\ UNCHANGED queue
    /\ UNCHANGED <<tbl, callpaths, etable, exported, seen, run, withdrawn>>

\* Faulty variant: the rounds are counted from 1, and the only event of a queue
\* is never taken.
PolledCountFromOne(n) ==
    CHOOSE k \in 0 .. n : k + 1 >= n - k /\ \A j \in 0 .. k - 1 : j + 1 < n - j

\* The loop of events() takes one event in each round and compares the number
\* of rounds with the number of events still queued: it ends after the first k
\* rounds that are no longer fewer than the n - k events left.
PolledCount(n) ==
    CHOOSE k \in 0 .. n : k >= n - k /\ \A j \in 0 .. k - 1 : j < n - j

\* Faulty variant: one event more is taken than is reported.
EventsDropsOne ==
    /\ run = "serving"
    /\ LET k == PolledCount(Len(queue))
       IN  /\ seen' = seen \o SubSeq(queue, 1, k - 1)
           /\ queue' = SubSeq(queue, k + 1, Len(queue))
    /\ UNCHANGED <<tbl, callpaths, etable, exported, sent, dropped, run, withdrawn>>

\* events()
Events ==
    /\ run = "serving"
    /\ LET k == PolledCount(Len(queue))
       IN  /\ seen' = seen \o SubSeq(queue, 1, k)
           /\ queue' = SubSeq(queue, k + 1, Len(queue))
    /\ UNCHANGED <<tbl, callpaths, etable, exported, sent, dropped, run, withdrawn>>

\* node_unmount: /exports, /events and /status go, the /call and /acall paths
\* stay until evhttp_free, which no request can reach any more; nd->etable is
\* not released.
Unmount ==
    /\ run = "serving"
    /\ run' = "unmounted"
    /\ UNCHANGED <<tbl, callpaths, etable, exported, queue, sent, dropped, seen,
                   withdrawn>>

Next ==
    \/ \E new \in Tables : EtableChanged(new)
    \/ Exports
    \/ EventArrives
    \/ Events
    \/ Unmount

Spec == Init /\ [][Next]_vars

---------------------------------------------------------------------------
\* /call/<name> and /acall/<name> exist for exactly the objects of the table
\* the node exports now: issue_call() finds the object behind its path after
\* any sequence of table changes, and every object can be called.
CallpathsMatchTable == callpaths = NamesOf(tbl)

\* /exports shows the table the calls are made against, and reads a freed
\* array only after the node has withdrawn its table.
ExportsCurrent ==
    /\ tbl # NoTable => etable = "json" /\ exported = tbl
    /\ ~withdrawn => etable # "freed"

\* Events reach the clients in the order the node sent them, none twice, and
\* none is lost but those the aura core had no room for, although one poll of
\* /events takes only some of those queued.
EventsInOrder ==
    LET given == seen \o queue
    IN  /\ \A i, j \in 1 .. Len(given) : i < j => given[i] < given[j]
        /\ Range(given) \cup dropped = 1 .. sent
        /\ Range(given) \cap dropped = {}

\* One poll of /events gives half of the queued events, rounded up, because the
\* loop's bound shrinks as it goes: never all of a longer queue, but always some
\* of one that is not empty, so that polling on empties it.
PollTakesHalf == [][Events => Len(queue') = Len(queue) \div 2]_vars
===========================================================================
