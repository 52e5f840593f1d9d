----------------------------- MODULE StaticFs -----------------------------
(***************************************************************************)
(* A request for something that is not a registered path: generic_route()   *)
(* of server.c picks a mountpoint, and router() of fs_static.c answers with *)
(* the index file or a listing of a directory, or with a file. The file     *)
(* system is not the server's: what a path names may change between any two *)
(* of the system calls router() makes.                                      *)
(*                                                                          *)
(* Requests are handled one after the other and leave nothing behind in the *)
(* server, so one request is modelled.                                      *)
(***************************************************************************)
EXTENDS Naturals, SequencesExt

CONSTANTS
    MaxMounts,  \* bound: mountpoints of the server
    MaxSize,    \* bound: lengths of files
    MaxChanges, \* bound: changes of the file system during the request
    Paths       \* names of files: sequences of "/", "." and pieces of text

ASSUME BoundsAssumption == MaxMounts \in Nat /\ MaxSize \in Nat /\ MaxChanges \in Nat
ASSUME PathsAssumption == Paths \subseteq Seq(STRING)

Sizes == 0 .. MaxSize

\* What is found at a path.
Absent == [kind |-> "absent", readable |-> FALSE, size |-> 0]
Files == [kind : {"file"}, readable : BOOLEAN, size : Sizes]
Directories == [kind : {"dir"}, readable : BOOLEAN, size : {0}]

\* A mountpoint as generic_route() sees it: whether its name is a prefix of the
\* URI and its filesystem has a route function, which only "static" has. A
\* static one has an index or not, and one of three listing functions.
Mountpoint ==
    [matches : {TRUE}, route : {TRUE}, index : BOOLEAN,
     dirindexfunc : {"none", "json", "html"}]
    \cup [matches : {FALSE}, route : {TRUE}, index : {FALSE}, dirindexfunc : {"none"}]
    \cup [matches : BOOLEAN, route : {FALSE}, index : {FALSE}, dirindexfunc : {"none"}]

VARIABLES
    mountpoints, \* server->mountpoints, in the order of the list
    object,      \* what htdocs/uri names
    indexfile,   \* what the index of that directory names
    changes,     \* changes of the two since the request came
    pc,          \* the place in generic_route() and router()
    target,      \* the mountpoint the request was routed to, 0 if none
    name,        \* htdocs/uri itself, as far as the MIME type needs it
    sz,          \* the length serve_file() measured
    answers      \* the answers sent: code, kind of content, its length and type

disk == <<object, indexfile, changes>>
vars == <<mountpoints, disk, pc, target, name, sz, answers>>

TypeOK ==
    /\ object \in {Absent} \cup Files \cup Directories
    /\ indexfile \in {Absent} \cup Files
    /\ changes \in 0 .. MaxChanges
    /\ pc \in {"arrived", "routed", "index", "index_open", "list", "file",
               "file_open", "end"}
    /\ target \in 0 .. Len(mountpoints)
    /\ name \in Paths \cup {<<>>}
    /\ sz \in Sizes
    /\ Len(answers) <= 1

Init ==
    /\ mountpoints \in BoundedSeq(Mountpoint, MaxMounts)
    /\ object \in {Absent} \cup Files \cup Directories
    /\ indexfile \in {Absent} \cup Files
    /\ changes = 0
    /\ pc = "arrived"
    /\ target = 0
    /\ name = <<>>
    /\ sz = 0
    /\ answers = <<>>

Fsd == mountpoints[target]

Answer(code, content, length, mimetype) ==
    answers' = Append(answers, [code |-> code, content |-> content,
                                length |-> length, type |-> mimetype])
Error(code) == Answer(code, "error", 0, "text/html")

---------------------------------------------------------------------------
(* generic_route()                                                         *)

\* Faulty variant: the last mountpoint that fits is taken.
MatchLast ==
    SelectLastInSeq(mountpoints, LAMBDA m : m.matches /\ m.route)

\* The first mountpoint of the list that fits, 0 if there is none.
Match == SelectInSeq(mountpoints, LAMBDA m : m.matches /\ m.route)

Route ==
    /\ pc = "arrived"
    /\ target' = Match
    /\ IF Match = 0
       THEN pc' = "end" /\ Error(404)
       ELSE pc' = "routed" /\ UNCHANGED answers
    /\ UNCHANGED <<mountpoints, disk, name, sz>>

---------------------------------------------------------------------------
(* router()                                                                *)

\* asprintf() has no memory for one of the two paths.
NoMemory ==
    /\ pc \in {"routed", "index"}
    /\ pc' = "end"
    /\ Error(500)
    /\ UNCHANGED <<mountpoints, disk, target, name, sz>>

\* stat()
StatFails ==
    /\ pc = "routed" /\ object.kind = "absent"
    /\ pc' = "end"
    /\ Error(404)
    /\ UNCHANGED <<mountpoints, disk, target, name, sz>>

StatDirectory ==
    /\ pc = "routed" /\ object.kind = "dir"
    /\ pc' = IF Fsd.index THEN "index" ELSE "list"
    /\ UNCHANGED <<mountpoints, disk, target, name, sz, answers>>

StatFile(n) ==
    /\ pc = "routed" /\ object.kind = "file"
    /\ pc' = "file"
    /\ name' = n
    /\ UNCHANGED <<mountpoints, disk, target, sz, answers>>

\* ahttpd_mime_guess(): what follows the last dot of the path, if the table
\* knows it. "html" stands for the known extensions.
LastDot == SelectLastInSeq(name, LAMBDA c : c = ".")
MimeGuess ==
    IF LastDot # 0 /\ SubSeq(name, LastDot + 1, Len(name)) = <<"html">>
    THEN "text/html" ELSE "application/octet-stream"

---------------------------------------------------------------------------
(* serve_file(), for the index of a directory and for a file               *)

\* fopen() and ftell(). A path that has become a directory can be opened, and
\* its length is anything.
Measure(o, from, to) ==
    /\ pc = from /\ o.readable
    /\ sz' \in IF o.kind = "file" THEN {o.size} ELSE Sizes
    /\ pc' = to
    /\ UNCHANGED <<mountpoints, disk, target, name, answers>>

\* fopen() or, later, open() fails. For an index router() goes on to the
\* listing; for a file it looks at no result and returns.
Unreadable(o, at, to) ==
    /\ pc \in at /\ ~o.readable
    /\ pc' = to
    /\ UNCHANGED <<mountpoints, disk, target, name, sz, answers>>

\* Faulty variant: router() goes on to the listing after the index.
ServeIndexAndList ==
    /\ pc = "index_open" /\ indexfile.readable
    /\ Answer(200, "index", sz, "text/html")
    /\ pc' = "list"
    /\ UNCHANGED <<mountpoints, disk, target, name, sz>>

\* open(), and the reply with as many bytes of the file as were measured.
ServeIndex ==
    /\ pc = "index_open" /\ indexfile.readable
    /\ Answer(200, "index", sz, "text/html")
    /\ pc' = "end"
    /\ UNCHANGED <<mountpoints, disk, target, name, sz>>

ServeFile ==
    /\ pc = "file_open" /\ object.readable
    /\ Answer(200, "file", sz, MimeGuess)
    /\ pc' = "end"
    /\ UNCHANGED <<mountpoints, disk, target, name, sz>>

---------------------------------------------------------------------------
(* index_none(), index_json(), index_html()                                *)

ListNone ==
    /\ pc = "list" /\ Fsd.dirindexfunc = "none"
    /\ pc' = "end"
    /\ Error(403)
    /\ UNCHANGED <<mountpoints, disk, target, name, sz>>

\* opendir() returns NULL: the function returns without an answer.
ListFails ==
    /\ pc = "list" /\ Fsd.dirindexfunc # "none"
    /\ ~(object.kind = "dir" /\ object.readable)
    /\ pc' = "end"
    /\ UNCHANGED <<mountpoints, disk, target, name, sz, answers>>

List ==
    /\ pc = "list" /\ Fsd.dirindexfunc # "none"
    /\ object.kind = "dir" /\ object.readable
    /\ pc' = "end"
    /\ Answer(200, Fsd.dirindexfunc, 0, "listing")
    /\ UNCHANGED <<mountpoints, disk, target, name, sz>>

---------------------------------------------------------------------------
\* Another process creates, replaces or removes a file or a directory.
Change ==
    /\ pc # "end" /\ changes < MaxChanges
    /\ changes' = changes + 1
    /\ \/ object' \in {Absent} \cup Files \cup Directories /\ UNCHANGED indexfile
       \/ indexfile' \in {Absent} \cup Files /\ UNCHANGED object
    /\ UNCHANGED <<mountpoints, pc, target, name, sz, answers>>

Next ==
    \/ Route \/ NoMemory
    \/ StatFails \/ StatDirectory \/ (\E n \in Paths : StatFile(n))
    \/ Measure(indexfile, "index", "index_open")
    \/ Unreadable(indexfile, {"index", "index_open"}, "list")
    \/ ServeIndex
    \/ Measure(object, "file", "file_open")
    \/ Unreadable(object, {"file", "file_open"}, "end")
    \/ ServeFile
    \/ ListNone \/ ListFails \/ List
    \/ Change

Spec == Init /\ [][Next]_vars

---------------------------------------------------------------------------
(* Properties.                                                             *)

\* A request gets one answer at the most, and it is only left without one
\* when the file or directory could not be read, or changed under router()'s
\* hands: then the client waits in vain.
AnsweredOnce ==
    /\ Len(answers) <= 1
    /\ pc = "end" /\ answers = <<>> =>
         changes > 0 \/ (object.kind # "absent" /\ ~object.readable)

\* The extension of the last component of a path.
LastComponent(path) ==
    SubSeq(path, SelectLastInSeq(path, LAMBDA c : c = "/") + 1, Len(path))
TypeOf(path) ==
    LET file == LastComponent(path) IN
    IF Len(file) >= 2 /\ SubSeq(file, Len(file) - 1, Len(file)) = <<".", "html">>
    THEN "text/html" ELSE "application/octet-stream"

\* The first mountpoint on the list that is static and that the URI lies under,
\* 0 if there is none.
Serves(k) == mountpoints[k].matches /\ mountpoints[k].route
FirstServing ==
    CHOOSE k \in 0 .. Len(mountpoints) :
        /\ \A j \in 1 .. k - 1 : ~Serves(j)
        /\ k # 0 => Serves(k)
        /\ k = 0 => \A j \in DOMAIN mountpoints : ~Serves(j)

\* What README.md says of an answer, with m the mountpoint that serves: a
\* directory is answered by its index if that is there to be read, by a listing
\* of the configured kind, or by 403; a file by its whole content, with the type
\* of the extension its own name ends in, whatever dots the directories have.
Documented(m, answer) ==
    /\ m = 0 \/ object.kind = "absent" => answer.code = 404
    /\ m # 0 /\ object.kind = "dir" =>
         IF mountpoints[m].index /\ indexfile.readable
         THEN answer.content = "index" /\ answer.length = indexfile.size
         ELSE IF mountpoints[m].dirindexfunc = "none" THEN answer.code = 403
         ELSE answer.content = mountpoints[m].dirindexfunc
    /\ m # 0 /\ object.kind = "file" =>
         /\ answer.content = "file" /\ answer.length = object.size
         /\ answer.type = TypeOf(name)

\* If memory lasts and nothing is changed meanwhile, the answer is the one
\* README.md describes, and the first static mountpoint of the list that the URI
\* lies under decides.
AnswerRight ==
    changes = 0 /\ answers # <<>> /\ answers[1].code # 500 =>
        Documented(FirstServing, answers[1])
===========================================================================
