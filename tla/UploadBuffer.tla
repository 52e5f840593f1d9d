--------------------------- MODULE UploadBuffer ---------------------------
(***************************************************************************)
(* Upload mode "buffer" (fs_upload_mod_buffer.c): the parts of an upload    *)
(* become aura buffers that are listed, downloaded and dropped over HTTP.   *)
(*                                                                          *)
(* bdata->current_info and bdata->current_buf outlive the request that set  *)
(* them, so the model keeps, beside what they point to, whether what they   *)
(* point to is still there. Allocation failures take the error paths the    *)
(* code has for them.                                                       *)
(***************************************************************************)
EXTENDS UploadFs

CONSTANTS
    Lengths,    \* lengths a part may have, in units of some block
    MaxSize,    \* bdata->max_size in the same unit
    MaxIds      \* bound: how many ids (bdata->current_id) may be consumed

ASSUME LengthsAssumption == Lengths \subseteq Nat
ASSUME MaxSizeAssumption == MaxSize \in Nat
ASSUME MaxIdsAssumption == MaxIds \in Nat

Ids == 0 .. MaxIds - 1

VARIABLES
    current_info,   \* the reply array: NULL, an array, or a pointer to a freed one
    infoIds,        \* the ids listed in the reply array
    current_buf,    \* the buffer being filled: NULL, allocated, or freed
    current_id,     \* the next id
    current_size,   \* bytes accepted so far
    buffers,        \* ids on the list bdata->buffers
    size,           \* bytes in each buffer
    paths,          \* ids whose /download/<id> and /drop/<id> are registered
    begun           \* history: current_id when the request arrived

ptrVars == <<current_info, infoIds, current_buf>>
storeVars == <<current_id, current_size, buffers, size, paths>>
vars == <<driverVars, ptrVars, storeVars, begun>>

TypeOK ==
    /\ DriverTypeOK
    /\ current_info \in {"NULL", "array", "freed"}
    /\ infoIds \in SUBSET Ids
    /\ current_buf \in {"NULL", "allocated", "freed"}
    /\ current_id \in 0 .. MaxIds
    /\ current_size \in 0 .. MaxSize
    /\ buffers \in SUBSET Ids
    /\ size \in [Ids -> Lengths \cup {0}]
    /\ paths \in SUBSET Ids
    /\ begun \in 0 .. MaxIds

\* buffer_init
Init ==
    /\ DriverInit
    /\ current_info = "NULL"
    /\ infoIds = {}
    /\ current_buf = "NULL"
    /\ current_id = 0
    /\ current_size = 0
    /\ buffers = {}
    /\ size = [id \in Ids |-> 0]
    /\ paths = {}
    /\ begun = 0

---------------------------------------------------------------------------
(* Errors: uploadfs_upload_send_error() replies, then calls                *)
(* buffer_send_result(fsd, 0), which frees the buffer being filled and     *)
(* leaves the pointer to it behind.                                        *)

\* buf is current_buf as the failing hook leaves it; the caller goes on at
\* place to. Freeing a buffer that was freed before may end the process.
SendError(buf, to) ==
    /\ replies' = replies + 1
    /\ current_buf' = IF buf = "NULL" THEN "NULL" ELSE "freed"
    /\ IF buf = "freed" THEN MayCrash(to) ELSE pc' = to

---------------------------------------------------------------------------
(* buffer_handle_rq_headers: the hook of a new request.                    *)

\* Faulty variant: the stale buffer is dropped but its pointer kept.
ReleaseStaleKeepsBuf(to) ==
    /\ IF current_info = "freed" \/ current_buf = "freed"
       THEN MayCrash(to)
       ELSE pc' = to
    /\ UNCHANGED current_buf

\* What an earlier request left in current_info and current_buf is released
\* first; releasing what is no longer there may end the process.
ReleaseStale(to) ==
    /\ IF current_info = "freed" \/ current_buf = "freed"
       THEN MayCrash(to)
       ELSE pc' = to
    /\ current_buf' = "NULL"

\* Faulty variant: a reply array left behind is used again.
HookKeepsInfo ==
    /\ BeginUpload
    /\ ReleaseStale("check")
    /\ current_info' = "array"
    /\ UNCHANGED infoIds
    /\ begun' = current_id
    /\ UNCHANGED storeVars

\* A fresh reply array is ready.
Hook ==
    /\ BeginUpload
    /\ ReleaseStale("check")
    /\ current_info' = "array"
    /\ infoIds' = {}
    /\ begun' = current_id
    /\ UNCHANGED storeVars

\* json_object_new_array() failed: error, and upload() returns.
HookFails ==
    /\ pc = "idle"
    /\ upload_error' = 1
    /\ replies' = 1
    /\ ReleaseStale("idle")
    /\ current_info' = "NULL"
    /\ infoIds' = {}
    /\ begun' = current_id
    /\ UNCHANGED storeVars

\* Faulty variant: the request is dropped without an answer.
NotMultipartSilent ==
    /\ HeadersRefused
    /\ pc' = "idle"
    /\ UNCHANGED <<replies, ptrVars, storeVars, begun>>

\* request_check_headers() refused the request.
NotMultipart ==
    /\ HeadersRefused
    /\ SendError(current_buf, "idle")
    /\ UNCHANGED <<current_info, infoIds, storeVars, begun>>

---------------------------------------------------------------------------
(* buffer_handle_form_header                                               *)

Header ==
    /\ HeaderTaken
    /\ current_buf' = IF current_buf = "NULL" THEN "allocated" ELSE current_buf
    /\ UNCHANGED <<current_info, infoIds, storeVars, begun>>

\* No memory for the record, or for its info object; the latter path drops the
\* record with current_buf still pointing to it.
HeaderNoMemory ==
    /\ HeaderRefused
    /\ current_buf = "NULL"
    /\ \E buf \in {"NULL", "freed"} : SendError(buf, "parsed")
    /\ UNCHANGED <<current_info, infoIds, storeVars, begun>>

---------------------------------------------------------------------------
(* buffer_handle_data                                                      *)

\* A part without a single header line has no buffer: NULL is written to.
DataWithoutBuffer(len) ==
    /\ pc = "data"
    /\ current_size + len <= MaxSize
    /\ current_buf = "NULL"
    /\ pc' = "crashed"
    /\ UNCHANGED <<upload_error, replies, ptrVars, storeVars, begun>>

\* What a stored part changes besides bdata->current_size.
Store(len) ==
    /\ DataTaken
    /\ current_buf = "allocated"
    /\ current_id < MaxIds
    /\ current_id' = current_id + 1
    /\ size' = [size EXCEPT ![current_id] = len]
    /\ buffers' = buffers \cup {current_id}
    /\ infoIds' = infoIds \cup {current_id}
    /\ paths' = paths \cup {current_id}
    /\ current_buf' = "NULL"
    /\ UNCHANGED <<current_info, begun>>

\* Faulty variant: the accepted bytes are not counted.
DataStoredUncounted(len) ==
    /\ current_size + len <= MaxSize
    /\ Store(len)
    /\ UNCHANGED current_size

\* The part becomes a buffer with an id, is listed, goes into the reply array
\* and gets its two paths.
DataStored(len) ==
    /\ current_size + len <= MaxSize
    /\ Store(len)
    /\ current_size' = current_size + len

\* Over the limit: the buffer is dropped and an error is sent.
DataTooLarge(len) ==
    /\ DataRefused
    /\ current_size + len > MaxSize
    /\ SendError(IF current_buf = "NULL" THEN "NULL" ELSE "freed", "stored")
    /\ UNCHANGED <<current_info, infoIds, storeVars, begun>>

\* The aura buffer or the id object could not be allocated: likewise, but the
\* id is spent.
DataNoMemory(len) ==
    /\ DataRefused
    /\ current_size + len <= MaxSize
    /\ current_buf = "allocated"
    /\ current_id < MaxIds
    /\ current_id' = current_id + 1
    /\ SendError("freed", "stored")
    /\ UNCHANGED <<current_info, infoIds, current_size, buffers, size, paths,
                   begun>>

---------------------------------------------------------------------------
(* The end of the request.                                                 *)

\* upload() sends its error: a second one if a hook has failed.
Fail ==
    /\ UploadFailed
    /\ SendError(current_buf, "idle")
    /\ UNCHANGED <<current_info, infoIds, storeVars, begun>>

\* buffer_send_result(fsd, 1): the array is sent and released, the pointer to
\* it stays.
Succeed ==
    /\ UploadDone
    /\ replies' = replies + 1
    /\ current_info' = "freed"
    /\ UNCHANGED <<infoIds, current_buf, storeVars, begun>>

\* Steps of upload() in which no hook takes part.
Parse ==
    /\ \/ HeadersAccepted \/ PartBegins \/ PartMissing \/ HeadersEnd
       \/ DataFound \/ DataMissing \/ BailOut \/ LastPart \/ MoreParts
       \/ BadBody
    /\ UNCHANGED <<ptrVars, storeVars, begun>>

---------------------------------------------------------------------------
(* Requests on the stored buffers, between uploads.                        *)

\* Faulty variant: buf_avail_deregister() is skipped.
DropKeepsPath(id) ==
    /\ pc = "idle"
    /\ id \in paths
    /\ buffers' = buffers \ {id}
    /\ UNCHANGED <<driverVars, ptrVars, current_id, current_size, size, paths,
                   begun>>

\* rq_drop_buffer: the buffer is unlinked and freed with its paths;
\* current_size is not given back.
Drop(id) ==
    /\ pc = "idle"
    /\ id \in paths
    /\ buffers' = buffers \ {id}
    /\ paths' = paths \ {id}
    /\ UNCHANGED <<driverVars, ptrVars, current_id, current_size, size, begun>>

Next ==
    \/ Hook \/ HookFails \/ NotMultipart \/ Parse
    \/ Header \/ HeaderNoMemory
    \/ \E len \in Lengths : \/ DataWithoutBuffer(len) \/ DataStored(len)
                            \/ DataTooLarge(len) \/ DataNoMemory(len)
    \/ Fail \/ Succeed
    \/ \E id \in Ids : Drop(id)

Spec == Init /\ [][Next]_vars

---------------------------------------------------------------------------
(* Properties.                                                             *)

\* /download/<id> and /drop/<id> are registered exactly for the buffers on the
\* list: their handlers never get a freed buffer, and every listed buffer can
\* be fetched and dropped, however uploads fail in between.
PathsMatchBuffers == paths = buffers

\* The sum of w over all ids.
Total(w) ==
    LET sum[k \in 0 .. MaxIds] == IF k = 0 THEN 0 ELSE sum[k - 1] + w[k - 1]
    IN  sum[MaxIds]

\* The bytes that the listed buffers hold, by id.
Held == [id \in Ids |-> IF id \in buffers THEN size[id] ELSE 0]

\* The limit holds: the bytes in the listed buffers never exceed what was
\* accepted, and that never exceeds bdata->max_size.
SizeBounded ==
    /\ Total(Held) <= current_size
    /\ current_size <= MaxSize

\* Where pointers to freed memory are left. Between requests, current_info is
\* one exactly if the last request succeeded, and current_buf only if it failed;
\* a live buffer is never left. So what buffer_handle_rq_headers() releases
\* although it is gone is the array of a success or the buffer of a failure, and
\* behind it, until an error is sent, every hook works on live memory.
FreedMemoryConfined ==
    /\ pc = "idle" =>
         /\ current_info = "freed" <=> upload_error = 0 /\ replies = 1
         /\ current_buf = "NULL" \/ (current_buf = "freed" /\ upload_error = 1)
    /\ pc \notin {"idle", "crashed"} =>
         /\ current_info = "array"
         /\ current_buf # (IF upload_error = 0 THEN "freed" ELSE "allocated")

\* The reply of a successful upload lists all the buffers this request stored,
\* no others, and each of them is on the list.
ReplyListsUpload ==
    pc = "done" => /\ infoIds = begun .. current_id - 1
                   /\ infoIds # {}
                   /\ infoIds \subseteq buffers

===========================================================================
