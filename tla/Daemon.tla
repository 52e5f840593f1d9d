------------------------------ MODULE Daemon ------------------------------
(***************************************************************************)
(* main.c: several invocations of the program with one server identifier,   *)
(* started at any time, that share one PID file. An invocation with -d      *)
(* forks: the parent waits for the value the daemon sends through a pipe    *)
(* and tells the user, the daemon goes on to serve. An invocation with -k   *)
(* kills the daemon the PID file names; one without either serves in the    *)
(* foreground.                                                              *)
(*                                                                          *)
(* libdaemon (the PID file, the pipe) is external: is_running() reads the   *)
(* file and removes one that names a dead process, create() fails if the    *)
(* file exists, remove() unlinks it whoever it names.                       *)
(***************************************************************************)
EXTENDS Naturals

CONSTANTS
    Runs,   \* invocations of the program
    NoPid   \* there is no PID file

ASSUME NoPidAssumption == NoPid \notin Runs

\* enum daemon_error_codes
DAEMON_FAIL_TO_CLOSE == 0
DAEMON_FAIL_PID == 1
DAEMON_FAIL_CONF == 2

\* Nothing has been sent through the pipe yet.
NoValue == 4

VARIABLES
    mode,       \* what each invocation was asked to do
    pc,         \* where the serving process of each invocation is in main()
    parent,     \* the waiting parent of an invocation with -d, and its verdict
    retval,     \* the value in the pipe from daemon to parent
    pidfile,    \* the process the PID file names
    started,    \* history: ahttpd_server_create() has returned
    robbed      \* history: a PID file that named another live process was removed

vars == <<mode, pc, parent, retval, pidfile, started, robbed>>

\* Places of main() at which the process exists.
Live == {"close", "pid", "config", "create", "serving", "bailout"}

Alive(r) == pc[r] \in Live

TypeOK ==
    /\ mode \in [Runs -> {"daemon", "foreground", "kill"}]
    /\ pc \in [Runs -> Live \cup {"begin", "exited", "aborted", "killed"}]
    /\ parent \in [Runs -> {"none", "waiting", "up", "failed", "no_answer"}]
    /\ retval \in [Runs -> 0 .. NoValue]
    /\ pidfile \in Runs \cup {NoPid}
    /\ started \in SUBSET Runs
    /\ robbed \in BOOLEAN

Init ==
    /\ mode \in [Runs -> {"daemon", "foreground", "kill"}]
    /\ pc = [r \in Runs |-> "begin"]
    /\ parent = [r \in Runs |-> "none"]
    /\ retval = [r \in Runs |-> NoValue]
    /\ pidfile = NoPid
    /\ started = {}
    /\ robbed = FALSE

---------------------------------------------------------------------------
(* libdaemon                                                               *)

\* daemon_pid_file_is_running(): the PID file names a live process.
Running == pidfile # NoPid /\ Alive(pidfile)

\* The file as daemon_pid_file_is_running() leaves it.
CheckedPidfile == IF Running THEN pidfile ELSE NoPid

---------------------------------------------------------------------------
(* main() up to the fork.                                                  *)

\* -k: SIGINT to the daemon, which has no handler for it, or nobody to kill.
Kill(r) ==
    /\ pc[r] = "begin"
    /\ mode[r] = "kill"
    /\ pc' = [q \in Runs |-> IF q = r THEN "exited"
                            ELSE IF Running /\ q = pidfile THEN "killed"
                            ELSE pc[q]]
    /\ pidfile' = CheckedPidfile
    /\ UNCHANGED <<mode, parent, retval, started, robbed>>

\* A server with this identifier is already running.
Refuse(r) ==
    /\ pc[r] = "begin"
    /\ mode[r] # "kill"
    /\ Running
    /\ pc' = [pc EXCEPT ![r] = "exited"]
    /\ UNCHANGED <<mode, parent, retval, pidfile, started, robbed>>

\* Nobody is running: fork and go on as the daemon, or go on in the
\* foreground.
Begin(r) ==
    /\ pc[r] = "begin"
    /\ mode[r] # "kill"
    /\ ~Running
    /\ pidfile' = CheckedPidfile
    /\ pc' = [pc EXCEPT ![r] = IF mode[r] = "daemon" THEN "close" ELSE "config"]
    /\ parent' = [parent EXCEPT ![r] =
                    IF mode[r] = "daemon" THEN "waiting" ELSE "none"]
    /\ UNCHANGED <<mode, retval, started, robbed>>

\* daemon_retval_init() or daemon_fork() failed.
ForkFails(r) ==
    /\ pc[r] = "begin"
    /\ mode[r] = "daemon"
    /\ ~Running
    /\ pidfile' = CheckedPidfile
    /\ pc' = [pc EXCEPT ![r] = "exited"]
    /\ UNCHANGED <<mode, parent, retval, started, robbed>>

---------------------------------------------------------------------------
(* The daemon.                                                             *)

Step(r, from, to) == pc[r] = from /\ pc' = [pc EXCEPT ![r] = to]

\* daemon_retval_send: only a daemon has a pipe to send through.
Send(r, v) ==
    retval' = [retval EXCEPT ![r] = IF mode[r] = "daemon" THEN v ELSE @]

\* A step of the start-up fails: the code is sent and main() goes to bailout.
GiveUp(r, from, code) ==
    /\ Step(r, from, "bailout")
    /\ Send(r, code)
    /\ UNCHANGED <<mode, parent, pidfile, started, robbed>>

CloseAll(r) ==
    /\ Step(r, "close", "pid")
    /\ UNCHANGED <<mode, parent, retval, pidfile, started, robbed>>

\* daemon_close_all() failed.
CloseFails(r) == GiveUp(r, "close", DAEMON_FAIL_TO_CLOSE)

\* Faulty variant: an existing PID file is overwritten.
CreatePidFileOver(r) ==
    /\ Step(r, "pid", "config")
    /\ pidfile' = r
    /\ UNCHANGED <<mode, parent, retval, started, robbed>>

\* daemon_pid_file_create() makes a file that was not there.
CreatePidFile(r) ==
    /\ pidfile = NoPid
    /\ Step(r, "pid", "config")
    /\ pidfile' = r
    /\ UNCHANGED <<mode, parent, retval, started, robbed>>

\* daemon_pid_file_create() failed: the file exists or cannot be written.
PidFileFails(r) == GiveUp(r, "pid", DAEMON_FAIL_PID)

LoadConfig(r) ==
    /\ Step(r, "config", "create")
    /\ UNCHANGED <<mode, parent, retval, pidfile, started, robbed>>

\* json_load_from_file() returned NULL.
ConfigFails(r) == GiveUp(r, "config", DAEMON_FAIL_CONF)

\* ahttpd_server_create() returned; a daemon sends 0. It never returns NULL.
StartServer(r) ==
    /\ Step(r, "create", "serving")
    /\ started' = started \cup {r}
    /\ Send(r, 0)
    /\ UNCHANGED <<mode, parent, pidfile, robbed>>

\* BUG() in ahttpd_server_create(), for instance because the port is taken:
\* abort, with no value sent and the PID file left behind.
StartAborts(r) ==
    /\ Step(r, "create", "aborted")
    /\ UNCHANGED <<mode, parent, retval, pidfile, started, robbed>>

\* The event loop ends and ahttpd_server_destroy() returns.
StopServing(r) ==
    /\ Step(r, "serving", "bailout")
    /\ UNCHANGED <<mode, parent, retval, pidfile, started, robbed>>

\* Faulty variant: the PID file is left when serving ends.
BailoutKeepsPidFile(r) ==
    /\ Step(r, "bailout", "exited")
    /\ UNCHANGED <<mode, parent, retval, pidfile, started, robbed>>

\* bailout: daemon_pid_file_remove(), whether or not this process has made the
\* file, and exit.
Bailout(r) ==
    /\ Step(r, "bailout", "exited")
    /\ pidfile' = NoPid
    /\ robbed' = (robbed \/ (pidfile # r /\ Running))
    /\ UNCHANGED <<mode, parent, retval, started>>

---------------------------------------------------------------------------
(* The waiting parent: daemon_retval_wait(5).                              *)

\* Faulty variant: the sense of the value is turned round.
ParentReadsSwapped(r) ==
    /\ parent[r] = "waiting"
    /\ retval[r] # NoValue
    /\ parent' = [parent EXCEPT ![r] = IF retval[r] = 0 THEN "failed" ELSE "up"]
    /\ UNCHANGED <<mode, pc, retval, pidfile, started, robbed>>

\* The value arrived: 0 is "now up and running", anything else a failure.
ParentReads(r) ==
    /\ parent[r] = "waiting"
    /\ retval[r] # NoValue
    /\ parent' = [parent EXCEPT ![r] = IF retval[r] = 0 THEN "up" ELSE "failed"]
    /\ UNCHANGED <<mode, pc, retval, pidfile, started, robbed>>

\* The daemon is slow, or is gone without having sent anything.
ParentGivesUp(r) ==
    /\ parent[r] = "waiting"
    /\ retval[r] = NoValue
    /\ parent' = [parent EXCEPT ![r] = "no_answer"]
    /\ UNCHANGED <<mode, pc, retval, pidfile, started, robbed>>

Next ==
    \E r \in Runs :
        \/ Kill(r) \/ Refuse(r) \/ Begin(r) \/ ForkFails(r)
        \/ CloseAll(r) \/ CloseFails(r) \/ CreatePidFile(r) \/ PidFileFails(r)
        \/ LoadConfig(r) \/ ConfigFails(r) \/ StartServer(r) \/ StartAborts(r)
        \/ StopServing(r) \/ Bailout(r)
        \/ ParentReads(r) \/ ParentGivesUp(r)

Spec == Init /\ [][Next]_vars

---------------------------------------------------------------------------
\* A daemon that has made its PID file and has not exited.
Owns(r) ==
    mode[r] = "daemon" /\ pc[r] \in {"config", "create", "serving"}

\* As long as no process has removed the PID file of another live one, the
\* check, the creation and the removal of the file keep daemons apart: at most
\* one is past the creation of the file, and the file names it.
OneDaemonUnlessRobbed ==
    ~robbed => \A r \in Runs : Owns(r) =>
        pidfile = r /\ \A q \in Runs \ {r} : ~Owns(q)

\* What the parent tells the user is final: a daemon reported as failed never
\* serves, and one reported as up has started or is past hope. (It is the
\* latter after daemon_close_all() failed, whose error code is the value 0
\* that stands for success.)
VerdictFinal ==
    \A r \in Runs :
        /\ parent[r] = "failed" => r \notin started
        /\ parent[r] = "up" => r \in started \/ pc[r] \in {"bailout", "exited"}

\* Every way through main() that reaches its end takes the PID file along: a file
\* names a process that is alive or that was aborted or killed before bailout.
PidFileExplained ==
    pidfile # NoPid =>
        Owns(pidfile) \/ pc[pidfile] \in {"bailout", "aborted", "killed"}
===========================================================================
