---------------------------- MODULE UploadFile ----------------------------
(***************************************************************************)
(* Upload mode "file" (fs_upload_mod_file.c): the parts of an upload are    *)
(* written to files of one directory, under the names the client gives      *)
(* (original_filename) or under random ones.                                *)
(***************************************************************************)
EXTENDS UploadFs

CONSTANTS
    Names,      \* file names, those clients give and those random() makes
    NoName      \* fdata->filename == NULL

ASSUME NoNameAssumption == NoName \notin Names

VARIABLES
    original_filename,  \* from the configuration: the client's names count
    filename,   \* fdata->filename
    reply,      \* fdata->reply: NULL, an array, or a pointer to a freed one
    listed,     \* the names in the reply array
    disk        \* each file: absent, older than this request, or opened by this
                \* request and written in full ("new") or not ("short")

modVars == <<filename, reply, listed, disk>>
fileVars == <<driverVars, modVars, original_filename>>

FileTypeOK ==
    /\ DriverTypeOK
    /\ original_filename \in BOOLEAN
    /\ filename \in Names \cup {NoName}
    /\ reply \in {"NULL", "array", "freed"}
    /\ listed \in SUBSET Names
    /\ disk \in [Names -> {"absent", "old", "new", "short"}]

\* file_init
FileInit ==
    /\ DriverInit
    /\ original_filename \in BOOLEAN
    /\ filename = NoName
    /\ reply = "NULL"
    /\ listed = {}
    /\ disk = [n \in Names |-> "absent"]

\* Faulty variant: the pointer to the released reply array is kept.
FinalizeKeepsPointer ==
    /\ reply' = IF reply = "NULL" THEN "NULL" ELSE "freed"
    /\ replies' = replies + 1

\* A reply goes out, then file_send_result() releases the reply array: at the
\* end of a successful upload and after every error.
Finalize ==
    /\ reply' = "NULL"
    /\ replies' = replies + 1

FileSendError(to) == Finalize /\ pc' = to /\ UNCHANGED <<listed, disk>>

\* What was written before this request is old.
Aged == [n \in Names |-> IF disk[n] = "absent" THEN "absent" ELSE "old"]

\* file_handle_rq_headers
FileHook ==
    /\ BeginUpload
    /\ pc' = "check"
    /\ filename' = NoName
    /\ reply' = "array"
    /\ listed' = {}
    /\ disk' = Aged

\* json_object_new_array() failed: error, and upload() returns.
FileHookFails ==
    /\ pc = "idle"
    /\ upload_error' = 1
    /\ replies' = 1
    /\ pc' = "idle"
    /\ filename' = NoName
    /\ reply' = "NULL"
    /\ listed' = {}
    /\ disk' = Aged

\* request_check_headers() refused the request.
FileNotMultipart ==
    /\ HeadersRefused
    /\ FileSendError("idle")
    /\ UNCHANGED filename

\* file_handle_form_header: only Content-Disposition is looked at, and only if
\* the client's names count.
HeaderIgnored ==
    /\ HeaderTaken
    /\ UNCHANGED modVars

HeaderNamed ==
    /\ HeaderTaken
    /\ original_filename
    /\ filename' \in Names
    /\ UNCHANGED <<reply, listed, disk>>

\* A Content-Disposition without a file name.
HeaderUnnamed ==
    /\ HeaderRefused
    /\ original_filename
    /\ filename' = NoName
    /\ FileSendError("parsed")

\* The name file_handle_data() stores the part under.
StoreName(n) == IF original_filename THEN n = filename ELSE n \in Names

\* No part of this request has named a file: the NULL name is read.
DataUnnamed ==
    /\ pc = "data"
    /\ original_filename
    /\ filename = NoName
    /\ pc' = "crashed"
    /\ UNCHANGED <<upload_error, replies, modVars>>

\* What dump_iovec_to_file() makes of a file it has opened. It does not look at
\* what fwrite() and fclose() return: a part that could not be written in full
\* is taken for stored.
Dumped == {"new", "short"}

\* The file is opened, which empties one of that name, and written to.
FileDataStored(n) ==
    /\ DataTaken
    /\ StoreName(n)
    /\ listed' = listed \cup {n}
    /\ \E outcome \in Dumped : disk' = [disk EXCEPT ![n] = outcome]
    /\ UNCHANGED <<filename, reply>>

\* Faulty variant: the result of dump_iovec_to_file() is not looked at.
DataUnwrittenTaken(n) ==
    /\ DataTaken
    /\ StoreName(n)
    /\ listed' = listed \cup {n}
    /\ UNCHANGED <<filename, reply, disk>>

\* dump_iovec_to_file() could not open the file: the name is already in the
\* reply array, which is released.
DataUnwritten(n) ==
    /\ DataRefused
    /\ StoreName(n)
    /\ Finalize
    /\ listed' = listed \cup {n}
    /\ pc' = "stored"
    /\ UNCHANGED <<filename, disk>>

\* upload() sends its error: a second one if a hook has failed.
FileFail ==
    /\ UploadFailed
    /\ FileSendError("idle")
    /\ UNCHANGED filename

\* file_send_result(fsd, 1)
FileSucceed ==
    /\ UploadDone
    /\ Finalize
    /\ UNCHANGED <<filename, listed, disk>>

\* Steps of upload() in which no hook takes part.
FileParse ==
    /\ \/ HeadersAccepted \/ PartBegins \/ PartMissing \/ HeadersEnd
       \/ DataFound \/ DataMissing \/ BailOut \/ LastPart \/ MoreParts
       \/ BadBody
    /\ UNCHANGED modVars

FileNext ==
    /\ \/ FileHook \/ FileHookFails \/ FileNotMultipart \/ FileParse
       \/ HeaderIgnored \/ HeaderNamed \/ HeaderUnnamed
       \/ DataUnnamed \/ (\E n \in Names : FileDataStored(n) \/ DataUnwritten(n))
       \/ FileFail \/ FileSucceed
    /\ UNCHANGED original_filename

FileSpec == FileInit /\ [][FileNext]_fileVars

---------------------------------------------------------------------------
\* The reply array belongs to one request: it is there while the request is
\* parsed without an error, and released, with no pointer left to it, when
\* upload() returns, although a failing hook releases it before upload() does.
ReplyOwned ==
    /\ pc = "idle" => reply = "NULL"
    /\ pc \notin {"idle", "crashed"} /\ upload_error = 0 => reply = "array"

\* A successful upload lists the files this request has opened for writing, all
\* of them and no others: none of an earlier upload and none that could not be
\* opened, and at least one. It does not follow that they hold the data that was
\* sent: a failed write goes unnoticed.
ListedFilesOwn ==
    pc = "done" => /\ listed # {}
                   /\ listed = {n \in Names : disk[n] \in {"new", "short"}}
===========================================================================
