----------------------------- MODULE UploadFs -----------------------------
(***************************************************************************)
(* The upload handler of fs_upload.c: upload() walks a multipart body and   *)
(* calls the hooks of the module the mountpoint was configured with. The    *)
(* modules (UploadBuffer, UploadFile) extend this one and conjoin the       *)
(* effect of their hooks to the steps defined here.                         *)
(*                                                                          *)
(* The body is what the client sends, so its parts, their header lines and  *)
(* the places where it breaks off are chosen freely. One POST is handled    *)
(* in one go by the event loop: no other handler runs until pc is "idle"    *)
(* again.                                                                   *)
(***************************************************************************)
EXTENDS Naturals

VARIABLES
    pc,             \* where upload() is in the body
    upload_error,   \* fsd->upload_error
    replies         \* replies sent to fsd->request so far

driverVars == <<pc, upload_error, replies>>

\* A request is answered by the hook that fails and by upload() itself.
MaxReplies == 2

DriverTypeOK ==
    /\ pc \in {"idle", "check", "boundary", "headers", "parsed", "data",
               "stored", "failed", "done", "crashed"}
    /\ upload_error \in {0, 1}
    /\ replies \in 0 .. MaxReplies

DriverInit ==
    /\ pc = "idle"
    /\ upload_error = 0
    /\ replies = 0

\* upload() moves from one place to the next.
Goto(from, to) == pc = from /\ pc' = to

\* The outcome of a step in which memory that was freed is used: the process
\* dies, or carries on as if nothing had happened.
MayCrash(to) == pc' \in {to, "crashed"}

---------------------------------------------------------------------------
(* upload()                                                                *)

\* A POST: the error state of the last upload is reset, then the module's
\* inbound_request_hook runs. Any other method is answered 405 and changes
\* nothing.
BeginUpload ==
    /\ pc = "idle"
    /\ upload_error' = 0
    /\ replies' = 0

\* request_check_headers() found the boundary of a multipart/form-data body.
HeadersAccepted ==
    /\ Goto("check", "boundary")
    /\ UNCHANGED <<upload_error, replies>>

\* request_check_headers() returned NULL: an error is sent and upload() ends.
HeadersRefused ==
    /\ pc = "check"
    /\ upload_error' = 1

\* The opening boundary of the next part is there and is drained, ...
PartBegins ==
    /\ Goto("boundary", "headers")
    /\ UNCHANGED <<upload_error, replies>>

\* ... or it is missing: multipart_handle_next_file() returns -EBADMSG.
PartMissing ==
    /\ Goto("boundary", "failed")
    /\ UNCHANGED <<upload_error, replies>>

\* handle_file_header_line() with a "Key: value" line the module accepts: the
\* next line is read.
HeaderTaken ==
    /\ Goto("headers", "headers")
    /\ UNCHANGED <<upload_error, replies>>

\* handle_file_header_line() when the module has sent an error: the loop over
\* the header lines is left.
HeaderRefused ==
    /\ pc = "headers"
    /\ upload_error' = 1

\* handle_file_header_line(): the empty line or the end of the body.
HeadersEnd ==
    /\ Goto("headers", "parsed")
    /\ UNCHANGED <<upload_error, replies>>

\* The closing boundary is there, and not in front of where the opening one was.
DataFound ==
    /\ upload_error = 0
    /\ Goto("parsed", "data")
    /\ UNCHANGED <<upload_error, replies>>

\* No closing boundary, or the sanity check on its position fails.
DataMissing ==
    /\ upload_error = 0
    /\ Goto("parsed", "failed")
    /\ UNCHANGED <<upload_error, replies>>

\* The module took the data.
DataTaken ==
    /\ Goto("data", "stored")
    /\ UNCHANGED <<upload_error, replies>>

\* The module sent an error instead.
DataRefused ==
    /\ pc = "data"
    /\ upload_error' = 1

\* multipart_handle_next_file() leaves with -EBADMSG because a hook failed.
BailOut ==
    /\ upload_error = 1
    /\ Goto("parsed", "failed") \/ Goto("stored", "failed")
    /\ UNCHANGED <<upload_error, replies>>

\* The boundary after the data ends in "--": this was the last part.
LastPart ==
    /\ upload_error = 0
    /\ Goto("stored", "done")
    /\ UNCHANGED <<upload_error, replies>>

MoreParts ==
    /\ upload_error = 0
    /\ Goto("stored", "boundary")
    /\ UNCHANGED <<upload_error, replies>>

\* upload() sends its own error when multipart_handle_next_file() failed,
\* whether or not a hook has sent one before.
UploadFailed ==
    /\ pc = "failed"
    /\ upload_error' = 1

\* upload() lets the module send the result.
UploadDone ==
    /\ Goto("done", "idle")
    /\ UNCHANGED upload_error

\* Two bodies upload() does not survive: a header line without a value, which
\* strtok_r() makes a NULL pointer, and one that ends with the boundary behind
\* the data, where evbuffer_pullup() returns NULL.
BadBody ==
    /\ upload_error = 0
    /\ Goto("headers", "crashed") \/ Goto("stored", "crashed")
    /\ UNCHANGED <<upload_error, replies>>

---------------------------------------------------------------------------
\* Where upload() has got to tells whether a hook has failed and how often the
\* request was answered: an error of a hook is only met where it is looked for.
DriverInv ==
    /\ pc \in {"check", "boundary", "headers", "data", "done"} => upload_error = 0
    /\ pc \notin {"idle", "crashed"} => replies = upload_error

\* upload() never returns without having answered the request. It is answered
\* once, but twice in one case: a hook had failed, and had answered, before
\* upload() sends its own error.
EveryUploadAnswered ==
    [][pc # "idle" /\ pc' = "idle" => replies' = 1 + upload_error]_driverVars
===========================================================================
