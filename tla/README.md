# aura-httpd in TLA+

A specification of aura-httpd, the HTTP front end of the aura RPC framework,
kept beside its code. TLC checks the modules on small instances; TLAPS proves
every safety property the passing runs check for every value of the constants:
any number of connections, calls, scripts, uploads, parts, files, formats,
devices, config sections and processes. Liveness is left to TLC.

## The system

One process, one libevent loop. A config file lists *mountpoints*; each names a
filesystem (`control`, `node`, `static`, `upload`, `v4l2`) whose mount function
registers HTTP paths with evhttp. Handlers, completion callbacks of the aura
core and close callbacks of connections all run on the loop, each to its end.
What makes the system hard is therefore not preemption but the order in which
clients, remote nodes and closing connections reach the loop, and records that
outlive the handler that made them.

| component | state it keeps | operations | talks to | correct when |
|---|---|---|---|---|
| remote calls (`call_resource.c`) | call records on two lists, their `/pending/<id>` paths, one close callback per connection | create, complete, read, delete, clean up | aura core (completion callback holds the record), evhttp (path and close callback hold it) | no holder of a record outlives it; a result is kept until it was read; a waiting client is answered |
| node (`fs_node.c`) | export table as JSON, `/call` and `/acall` paths, event queue in the core | table change, `/exports`, `/events`, call requests | aura core, remote calls | paths and `/exports` follow the table; events arrive once and in order |
| control (`fs_control.c`) | none | `/version`, `/fstab`, `/terminate` | connections, event loop | a request to end the server ends it |
| server and VFS (`server.c`, `vfs.c`) | list of mountpoints, registered paths, strings of the config | read config, mount, route, unmount, destroy | every filesystem | callbacks only point to mounted mountpoints; a section its mount function refuses costs only itself; everything is given back |
| upload (`fs_upload.c`) | error state of the request under way, the rest of its body | POST: headers, parts, data, result | one of three modules, through hooks | an error ends the parsing; no request is left unanswered; the data of each part reaches the module as sent |
| upload mode buffer (`fs_upload_mod_buffer.c`) | list of buffers, their paths, bytes accepted, current reply and buffer | hooks, list, download, drop | upload, a node's buffers | paths, list and limit agree; a request does not see leftovers of another |
| upload mode file (`fs_upload_mod_file.c`) | file name and reply of the request, a directory | hooks | upload, disk | the reply lists the files this request opened |
| program (`main.c`) | PID file, pipe between parent and daemon | start, daemonise, kill, exit | libdaemon, server | one daemon per identifier; the parent tells the truth |
| serialisation (`serdes-json.c`), entities (`entity.c`), MIME (`mime.c`), helpers (`utils.c`, `json-helpers.c`) | none | conversions and lookups | | conversions keep what fits and refuse the rest |
| static files (`fs_static.c`) | directory, index and listing mode | serve, list | routing, disk, MIME types | each request is answered once, as documented |
| v4l2 (`fs_v4l2.c`, `v4l2_read.c`) | device instances with descriptor and buffers | mount, init of three grabbers, unmount | kernel | a device is opened once and shared; a failing init gives back what it took |
| browser client (`www/aura.js`, `www/utils.js`) | per-call polling | call, poll | remote calls over HTTP | each call's callback runs once, with its result |

`PROJECT.json` lists the hazards these parts are exposed to, each at its line
and with the properties that would catch it.

## The modules

**`CallResource`** is the core. An `ahttpd_pending_call` is identified by its
`callid`; `list`, `async`, `request`, `retbuf` and `status` are its fields, and
`list[id]` also tells whether it has been freed. Three things hold pointers to
it: `inflight` (the argument of `call_completed_cb`), `paths` (the argument of
`resource_readout`) and `closecb[c]` (the argument of `conn_close_cb`). One
action stands for each handler or callback: `RejectCall`, `CallStartFails` and
`CallCreate` are the outcomes of `issue_call`/`ahttpd_call_create`;
`CompleteAsync`, `CompleteSync` and `CompleteOrphan` those of
`call_completed_cb`; `ReadoutDone`, `ReadoutPending` and `ReadoutGone` those of
a GET on the resource; `TerminateRequest` is `/control/terminate`; `CloseConn`
runs the close callback of a connection; `LoopExit` is
`ahttpd_server_destroy`. `readers` is a history variable.

**`RemoteCall`** is the abstract service: a call is started once, completes at
most once, is delivered, and only then discarded. `CallResource` implements it
under the mapping `phase` (and `up <- server = "running"`).

**`NodeFs`** models table changes and events of a node mountpoint. The loop of
`events()` is `PolledCount`: the number of rounds is defined by the loop's own
condition, in which one side grows as the other shrinks.

**`UploadFs`** is the driver `upload()` as a walk over a multipart body the
client chooses; **`UploadBuffer`** and **`UploadFile`** extend it and conjoin
the hooks of their mode to its steps. Pointers that outlive a request carry
whether their target was freed. Use of a freed target is nondeterministic: the
process dies or carries on. A file that was opened ends up with its data or
short of it (`Dumped`), since the results of `fwrite` and `fclose` are ignored.

**`Multipart`** extends `UploadFs` with the positions
`multipart_handle_next_file` works with. A body is a sequence of two-byte units,
each tagged with the evbuffer chain it lies in; `start` is the pointer of the
same name, taken before the buffer is drained and used after. `OpenPart`,
`HeaderLine`, `CloseFound`, `Data`, `Finished`, `GoOn` and their failing
counterparts are the driver's steps with what they search, drain and peek at.
Initial states are bodies as clients send them, and the same with a unit
missing or cut short. A boundary is one unit, so a chain that ends inside a
boundary is represented by one that ends behind it.

**`StaticFs`** is a request that no registered path takes: `Route` is
`generic_route`, the others are the system calls of `router`, `serve_file` and
the listing functions. `Change` lets another process alter the file system
between any two. A URI is reduced to which mountpoint names are prefixes of it.
An index file is a file or absent, never a directory.

**`V4l2`** is `v4l2_mount` over a list of devices, one iteration as
`Configure`, init, `SetInput` and `GetInput`, each of which can fail. The
descriptor table of the process and the buffers on its heap are state, so that
what a failure leaves behind can be counted.

**`AuraClient`** composes `CallResource` with its clients: every request of a
script is a step of the server's handler, every reply one of the script. The
scripts share the browser's connections, which break at any time.

**`Server`** reads a config of arbitrary sections, mounts, serves and is
destroyed. A mountpoint is the number of its section; `redirect` is the callback
for `/` that a configured index registers. **`Daemon`** runs several
invocations of `main()` that share a PID file.

**`SerDes`** is the conversion between JSON and aura buffers, one action per
item of a format: `PutNumber`, `PutRefused`, `PutBin` and `PutBuf` are the
cases of `ahttpd_buffer_from_json`, `GetNumber` and `GetBuffer` those of
`ahttpd_buffer_to_json`. Bytes have `Base` values and JSON integers `JsonBytes`
bytes, so that truncation and sign are those of the code at a smaller width.
`FormatToJson` gives the C type that `/exports` announces for each item and
`IntsOf` the integers of that type; `Sent` is the number the node put into the
buffer, read in the item's own type, where the code reads a `uint64_t` with a
sign.

`MCServer` adds the symmetry of mountpoint names for TLC, `MCMultipart` and
`MCStaticFs` the data of parts and the names of files.

The proofs are in modules of their own: `CallResourceProofs` for `CallResource`
and `AuraClient`, `UploadProofs` for `UploadBuffer`, `UploadFile` and
`Multipart`, and `NodeFsProofs`, `StaticFsProofs`, `SerDesProofs`, `V4l2Proofs`,
`DaemonProofs` and `ServerProofs` for the module each is named after. The
specifications of `UploadFile` and `Multipart` are `FileSpec` and `ParserSpec`,
so that one module can extend all three. Definitions commented *Faulty variant* are not part
of any specification: each is a plausible mistake in the definition that follows
it, and substituting it must break the property `PROJECT.json` pairs it with.

### External parts

libevent, the aura core and libdaemon are modelled by how the code uses them:

- a connection holds one close callback, which runs when the connection is
  freed, at the latest in `evhttp_free`; an error reply closes its connection;
  a client that leaves during a request detaches the request from its
  connection;
- `evhttp_set_cb` refuses a path that is taken, `evhttp_del_cb` removes by name;
- the aura core runs a completion callback at most once, and `aura_close`
  forgets the calls under way; its event queue has a limit, and which event it
  loses there is left open;
- an evbuffer is a list of chains; draining frees a chain with its last byte,
  `evbuffer_pullup` moves the bytes asked for into a chain of that size unless
  the first chain has them, and `evbuffer_peek` follows the pointer it is given
  without looking whether the chain is still there; with a pointer it finds at
  least one extent;
- a browser runs the success or the error callback of every `$.ajax` request,
  and does not repeat a request by itself;
- `daemon_pid_file_is_running` removes a file that names a dead process,
  `daemon_pid_file_create` fails if the file exists, `daemon_pid_file_remove`
  removes it whoever it names; SIGINT has no handler and kills.

## What TLC checks

Runs that pass:

| run | bounds | shows |
|---|---|---|
| `call_resource` | 2 connections, 2 calls | type, `PathsMatchCalls`, `InflightAlive`, `SoleReaderSafe`, `SyncWaiters`, `ResultNotLost`, refinement of `RemoteCall`; under fairness `SyncCallAnswered` and `TerminateEnds` |
| `aura_client` | 2 scripts, 2 connections, 2 calls | each handler gets its own call's result, polled resources stay, scripts never make the server free a record twice; under fairness every handler runs unless a connection was lost |
| `node_fs` | 2 objects, 5 events, room for 3 | paths and `/exports` follow the table; events in order, lost only to a full queue; a poll takes half of the queue, rounded up |
| `upload_buffer` | 3 ids, parts of 0 to 2 blocks, a limit of 3 | paths and list agree, the limit holds, pointers to freed memory are left between requests only and the first hook clears them, the reply lists this upload, an upload is answered once, or twice exactly if a hook has failed |
| `upload_file` | 3 file names | reply array owned by one request, which lists the files it has opened, whether or not the writes to them succeed |
| `multipart` | 2 parts, 1 header line each, 3 kinds of data, one unit missing or a tail, 2 chains | a whole body that leaves the pointer valid arrives byte for byte; under fairness (the handler runs to its end) every body is done with |
| `static_fs` | 2 mountpoints, 12 names, 2 changes of the file system | one answer, the documented one; none only for what cannot be read or changed meanwhile |
| `v4l2` | 3 entries, 2 devices, 2 inputs | one descriptor per device, shared by its instances; descriptors and frames accounted for after any failure |
| `daemon` | 3 invocations | one daemon unless a PID file was taken from a live one, the parent's verdict is final, PID files left behind are explained |
| `serdes` | 2 items, bytes of 4 values, JSON integers of 2 bytes, strings shorter, equal to and longer than a binary item | arguments fit the buffer, no ill-typed call is sent, numbers lie in place behind binary items that were filled; results have the announced kinds, and up to the first binary item the values sent, in the range of the announced type but for a `uint64_t` of 2^63 and more |
| `server` | 2 mountpoint names, 3 sections | live handlers, first mount owns a path, buffer uploads use an open node; a server that comes up has no fatal section and serves all good ones; all is released |

Each module has a type invariant (`TypeOK`, or with a prefix as in `BodyTypeOK`) that holds with
these bounds as well; the runs list only that of `CallResource`. The proofs
establish it, or the part of it they need, for all bounds.

Two connections and two calls are enough for a second reader, for a second call
on a connection kept alive and for a client that leaves; the proofs lift the
safety results to any number. Three invocations are one that serves, one that
fails and one that comes later. Three sections are a node, something else under
its name and a buffer upload that names it. Two items are one that disturbs the
position of another; two bytes per integer have an item that is narrower and
one that is not. Two parts are needed for what `evbuffer_pullup` does to the
second; two chains put one cut in every place of a body. Three devices are one
that is listed again behind another. Two changes let a file vanish and come
back between system calls. Symmetry is used for mountpoint names only, in a run without
liveness properties.

Fairness. `CallResource!Fairness` says that the aura core completes the calls
it accepted (it has timeouts of its own), that libevent closes a connection
whose reply said so, and that a scheduled exit of the loop happens; nothing is
assumed of clients. `ParserSpec` of
`Multipart` has weak fairness of `ParserNext`: the parser is one callback that nothing interrupts.
`AuraClient!ClientFairness` keeps the fairness of completions, and says of the
browser that it opens connections, hands in replies that have come, and lets a
script whose timer has fired send its request in the end (strong fairness: the
connections may be busy with other scripts in between). Connections may still
break at any time and as often as they like.

Deadlock checking is off where a behaviour may end: clients may stop coming,
processes exit, and the bounds run out.

### Where the code and its own words disagree

The run `call_use_after_free` is expected to find a violation, and
`PROJECT.json` quotes the line of the repository it disagrees with: two readers
of one result free its record twice.

Also met while modelling. These follow from the lines named, and no run is
kept for them:

- `ahttpd_server_destroy` frees the call records with their mountpoint
  (`server.c:144`) before `evhttp_free` runs the close callbacks that point to
  them: a connection that was sent a result and is still open at the end uses
  a freed record (`LoopExit`, `dangling_call_at_exit`), though
  `test-wrapper.c:23` expects this shutdown to be clean.
- A client that leaves during its synchronous call trips the assertion of
  `call_completed_cb` (`call_resource.c:74`), or has a freed request used
  (`CompleteOrphan`).
- `main.c:59` promises one daemon per server id; a process that loses the race
  for the PID file, or a server in the foreground that ends, removes the file
  of the running daemon at `bailout` (`main.c:234`), and another can start
  beside it. `OneDaemonUnlessRobbed` says that nothing else can break it.
- A config without `host` leaves the literal default (`server.c:101`), which
  `ahttpd_server_destroy` passes to `free` (`server.c:148`; `Destroy`).
- `fs_upload.c:274` reads the data of a part through a pointer taken before the
  boundary and the headers were drained. It is right only if nothing precedes
  the first boundary and no chain of the buffer ends in the head of a part
  (`PointersHold`); else the module is given other bytes or freed memory, and
  the comparison in `test-scripts/upload-mode-buf.sh` may fail. The sanity check
  at `:263` compares positions from before and after the draining.
- A header line without a value ends the process (`fs_upload.c:211`), and so
  does a body that ends with the boundary (`:288`, a NULL from
  `evbuffer_pullup`). Data of length zero is fine; a boundary right behind the
  headers makes the length negative (`:273`).
- `fs_upload.c:195` says that a line is freed when parsing goes on; it is freed
  only when parsing stops (`:247`).
- A file that exists and cannot be read, and a directory that cannot be
  listed, are not answered at all (`fs_static.c:163`, `:43`, `:69`).
- `cleanup_devices` (`fs_v4l2.c:22`) counts to `num_instances`, which is never
  set, and the grabbers have no `deinit` to call: a failed mount leaves the
  devices it has opened, and unmounting leaves all of them. An mmap grabber
  that fails behind `calloc` leaves its mappings. A second entry without
  `device` is given to `strcmp` (`:85`). Entries of one device with different
  inputs leave it at the last one.
- The frame functions of `v4l2_read.c` have no caller; the checks of a frame
  index at `:515` and `:545` are inverted, and a userptr grabber never sets the
  frame count they use.
- `doPollForResult` has no error callback (`www/aura.js:12`): a script whose
  poll fails never calls its handler. `auraCallAsync` does not pass `arg` on
  (`:39`).
- `call_resource.c:33` marks a resource as dead once it was read, but it still
  delivers its result to later readers.
- A second readout on a connection kept alive replaces the close callback of
  the first (`call_resource.c:39`, `:76`), and the record of the first stays
  until the server ends.
- `buffer_send_result` gives away `current_info` after a success, and frees
  `current_buf` after a failure, without clearing them. The warnings at
  `fs_upload_mod_buffer.c:189` and `:195` say that a leftover "shouldn't
  happen"; the first hook of every request behind a success releases the array
  a second time, and that of a request behind a failure may drop a buffer that
  is gone. `FreedMemoryConfined` says where such pointers are left.
- A buffer that fails in the data hook is dropped while `current_buf` still
  points to it (`:277`), and the error that is sent next frees it again.
- After a hook has failed, and with it answered the request, `upload()` sends
  its own error for the same request (`fs_upload.c:336`).
- `dump_iovec` ignores the result of `fwrite` and always succeeds
  (`fs_upload.c:157`), and that of `fclose` is ignored too (`:172`): an upload to a full
  disk is reported as stored.
- The README (line 193) describes a `ttl` for uploaded buffers. The code has
  none.
- The README's key `node` of a buffer upload (line 200) is `owner` in the code
  (`fs_upload_mod_buffer.c:143`), and its `/control/shutdown` is `terminate`.
- `DAEMON_FAIL_TO_CLOSE` is 0, so the parent reports that failure as success
  (`main.c:198`, `:186`).
- `vfs.c:50` says that a section without type or mountpoint is skipped, and
  aborts. A static section without `dir` (`fs_static.c:178`) and an upload
  without `mode` (`fs_upload.c:30`) end the process with a NULL pointer. So a
  bad section costs only itself when its mount function refuses it.
- The entries of `mime.c:21` and `:62` for `.tar.gz` and `.tar.bz2` are never
  found: `file_get_extension` starts at the last dot. One extension stands
  for all in `StaticFs`, which does not show this.
- A node that withdraws its table leaves `etable` released and set
  (`fs_node.c:193`), and `/exports` reads it until there is a new one.
  `ExportsCurrent` excepts that time.
- `main.c:180` says 20 seconds where the call says 5.
- `serdes-json.c:120` says that a binary item is ignored. Its bytes are not
  passed over, so the items behind it are read from the wrong place.
- A `uint64_t` of 2^63 and more is announced as such (`serdes-json.c:34`) and
  comes out as a negative number (`:95`).
- The bailout of `device_common_init` closes the descriptor (`v4l2_read.c:237`)
  and `device_common_cleanup` closes it again (`:93`). Nothing runs in between,
  so that the second close fails and does no harm.
- A call refused by the marshalling (`call_resource.c:120`) does not release
  the buffer it requested.

## What is proved

Every theorem is of the form `Spec => []P` or `Spec => P` and holds for all
values of the constants that satisfy the assumptions of the module. These say
that the bounds are numbers, that the values that stand for "none" (a null
connection, no object, no device, no process) are not among what they are told
apart from, and of two modules a little more: the data of a part does not
contain the boundary the client chose (`Multipart`), and a byte has an even
number of values, which gives an integer a sign bit, and a JSON integer is wider
than a byte (`SerDes`). Sets may be
infinite. No proof uses fairness: the theorems hold with and without it.

Each proof has an inductive invariant `IInv`, the properties plus what they
need to be preserved, one lemma for each action or group of actions, and a last
step that combines them. TLC has checked every `IInv` with the bounds of the
module's run.

Three models compute by recursion: the bytes of all buffers (`Total`), the body
of a list of parts (`From`) and the offsets, powers and encodings of `SerDes`.
The library's induction theorems have an operator parameter the provers cannot
instantiate, so the step of such a definition is given as a function, and one
lemma (`Recursion`) shows by a least counterexample that the recursion equation
has a solution. From it each definition gets a lemma with its equation
(`SumDef`, `FromDef`, `PowDef`, `DecodeDef`, `OffsetDef`), and only that is used
after. Inductions over data go by `InductionUpTo`, with the set of the good
indices as its parameter.

### Remote calls (`CallResourceProofs`)

`TypeOK`, `PathsMatchCalls`, `InflightAlive`, `SoleReaderSafe`, `SyncWaiters`
and `ResultNotLost`, for any number of connections and calls. `IInv` adds:

- `Fresh`: ids from `callid` on are untouched. Without it a new call might
  meet a path or a close callback of an old one.
- `ReadDone`: a call with readers is complete. It makes `ResultNotLost` follow
  when a close callback deletes.
- `HoldersRead`: a connection whose close callback names a call has read that
  call's result. It is what ties a dangling callback to a second reader.

Steps that change only replies share a lemma (`QuietStep`), and so do all that
end the process (`CrashStep`). `Refinement` maps initial states and steps to
those of `RemoteCall`, with `IInv` as the invariant, and concludes
`Spec => ImplementsRemoteCall`.

### Browser client (`CallResourceProofs`)

`ScriptsAreClients` shows that a behaviour of the scripts is one of
`CallResource`; with it every theorem above holds of the composition, and its
`IInv` is there to build on. `ResourceStays`, `ScriptsSafe` and `OwnResult`
follow from `CInv`, which says who holds what: a script has its connection for
itself (`OneRequestPerConn`), a call belongs to one script
(`OneScriptPerCall`), and `JobsOK` gives for each place of a script what the
server holds for it: the call in flight on its connection, a result nobody
has read (`Fetchable`), or the reply made of its call (`Fetched`). From that no
result has two readers (`SoleReader`), which is the case `SoleReaderSafe` needs.
`OrphansExplained` is for the crash under a lost `auraCall()`.

### Node filesystem (`NodeFsProofs`)

`TypeOK`, `CallpathsMatchTable`, `ExportsCurrent` and `EventsInOrder` are
inductive together, and `PollTakesHalf` is a property of each step. The work is in the lemmas: `PolledHalf` (the loop of
`events()`, whose bound moves while it runs, takes half of the queue, rounded
up) and that appending, polling and losing an event at any place of the queue
keep what was given in order.

### Uploads (`UploadProofs`)

Both use `DriverInv` of `UploadFs`: where `upload()` is tells whether a hook
has failed and how often the request was answered. It gives
`EveryUploadAnswered` in either mode: one answer, and a second exactly if a hook
had failed before. In buffer mode `PathsMatchBuffers` and `FreedMemoryConfined`
join it, with `NoBufferBetween` for the steps between two parts, and
`RequestListed` says at every step what
`ReplyListsUpload` says at the end: the array lists the ids handed out since
the request began. In file mode `ReplyOwned` and `ListedSoFar` do the same for
`ListedFilesOwn`.

`SizeBounded` compares `current_size` with a sum over the buffers. `SumGrows`
says that a change of one buffer changes the sum by as much; `CountedStep` and
`SizeStep` then follow `current_size` through a part that is stored, a part that
is refused and a buffer that is dropped.

`UploadFaithful` of `Multipart` relates what the module was given to the whole
body, through searches in what is left of it. `BodyIInv` says where the parser
is: in part `k`, with the data of the parts before handed over, `start` at the
beginning of the head (`Opened`), and in the buffer what `Left` says, the body
from `d` units into part `k` on. The lemmas about the body are independent of
the parser's state: how a part is laid out (`PartLaid`), what draining leaves
(`DrainLeft`), where the end of one part is the beginning of the next
(`LeftNext`), and where a search for a boundary or a line end stops at each of
these places (`AtBoundary`, `AtLine`, `AtHeadEnd`, `AtData`, `AtNext`). That the
data of a part does not contain a boundary makes the search behind the head stop
at the end of the data (`AtData`); `PointersHold` makes the pointer that was
taken before the drain name the data after it (`HeadInChain`).

`ParserRunsDown` is about every body, damaged ones too: each step lowers
`StepsLeft`. It is the part of `Terminates` that is not about fairness.

### Static files (`StaticFsProofs`)

`AnsweredOnce` and `AnswerRight`, for any mountpoints, any file names and any
number of changes of the file system. `Unanswered` says that no answer is given
before the last system call; `SeenByNow` what the calls so far have established
about the object, as long as nothing was changed. The lemmas carry the rest:
`MatchFirst` (the loop of `generic_route` finds the first mountpoint that the
URI lies under) and `GuessRight` (the search of `mime.c` from the right finds
the type of the last component's extension).

### Serialisation (`SerDesProofs`)

`TypeOK`, `ArgsInPlace` and `ResultRight`, for any format, any even number of
values of a byte and any JSON integer wider than that. `PutSoFar` and `GotSoFar`
say of the items dealt with what the properties say of all, and `BytesInPlace`
that the bytes at a number's offset are the client's. They rest on
four lemmas about the operators: `RoundTrip` (decoding what was encoded gives the
number modulo the width of the item), `TypedRight` (an integer of the announced
type is that very number), `OffsetsApart` (items do not overlap) and `FetchRight`
(what a number sent in its type comes out as, with the `uint64_t` that is too
large for a JSON integer).

### v4l2 (`V4l2Proofs`)

`OneDescriptorPerDevice` and `DescriptorsAccounted`, for any list of entries.
`Shape` and `OnlyLastOpen` tie the array of instances to the loop of
`v4l2_mount`; `Holds` and `Share` say what an instance that is through its init
holds and with whom; `ParentRight` that the parent found for a virtual device is
an earlier instance of the same device; `FdsDense` that descriptors come from
the lowest number up, so that a new one is not shared by accident.

### Daemon (`DaemonProofs`)

`OneDaemonUnlessRobbed`, `PidFileExplained` and `VerdictFinal`, for any number
of invocations. The verdict needs the history of what a process sent:
`EarlySilent` (nothing before its outcome is known), `ErrorsFinal` and
`ZeroExplained` (the 0 that is an error code comes from a process on its way
out), `VerdictSent` (the parent repeats it). `ZeroNotNamed` is needed because
such a process must not be brought to another end by a kill through the PID
file.

### Server (`ServerProofs`)

`HandlersLive`, `FirstMountOwnsPath`, `BufferNodeOpen`, `GoodSectionsServed` and
`AllReleased`, for any config of any length. `PathsExplained` and
`OffersRegistered` say that the argument of a callback is the first mountpoint
that offers its path and that everything offered is registered; `NodesOpen`,
`NodesOfBuffers` and `MountsGood` say which sections are mounted and what a
buffer upload refers to, and `GoodMounted` is `GoodSectionsServed` from the first
section on. `NoneFatal` says that the process has not come past a section it
cannot survive. As in the properties, those about paths and about good sections
except a run of `up_mount` out of memory (`nomem`).

### Only model-checked

- `SyncCallAnswered`, `TerminateEnds`, `HandlerRuns` and `Terminates`: liveness under fairness, and `ENABLED`, are beyond the prover.
  For `Terminates`, `ParserRunsDown` proves the variant.
- The type invariants of modules whose proofs need only a part of them (see the
  plan).

## Not modelled, and why

- The text of Content-Disposition, its parser and the entity decoder it uses
  (`entity.c`, third-party) convert strings without state. A part has a file
  name or not, and a header line has a value or not; that is what the hooks
  tell apart.
- What a module does with a part of negative length, or with bytes from outside
  of the body: the behaviour of the memory functions called is undefined.
- `start`, `wait_for_frame` and `read_frame` of the grabbers: nothing calls them.
- `auraGetEvents` and the pages in `www/`: one GET each, and layout.
- The contents of files, frames and replies; logging; memory exhaustion where
  the code answers it with `BUG()`.
- `upload` mode `debug` keeps no state. `fs_memcache.c` and `v4l2fs_thread.c`
  are not built. `dropzone.js` is third-party.
- Read-only handlers (`/status`, `/version`, `/fstab`, list and download of
  buffers) change nothing and have no action.

## Plan

The components with behaviour of their own are modelled, and every safety
property the runs check is proved for all bounds. What could be added:

1. The rest of the type invariants (`V4l2`, `Server`, `StaticFs`, `Multipart`),
   of which the proofs use a part.
2. Variants like `StepsLeft` of `Multipart` for the loops of `v4l2_mount` and of
   the configuration.
