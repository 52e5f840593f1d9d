--------------------------- MODULE DaemonProofs ---------------------------
(***************************************************************************)
(* Theorems about Daemon, for any number of invocations that share a PID    *)
(* file.                                                                    *)
(***************************************************************************)
EXTENDS Daemon, TLAPS

(* The inductive invariant. What the parent says depends on what the daemon *)
(* has sent, and that on how far the daemon had come.                       *)

\* Places of main() in front of the first value sent.
Early == {"begin", "close", "pid", "config", "create", "aborted"}

\* Only a daemon closes its descriptors and makes a PID file.
DaemonsOnly ==
    \A r \in Runs : pc[r] \in {"close", "pid"} => mode[r] = "daemon"

\* A process that has not come to a verdict of its own has sent nothing.
EarlySilent ==
    \A r \in Runs : pc[r] \in Early => retval[r] = NoValue /\ r \notin started

\* An error code other than 0 is only sent by a process that never serves.
ErrorsFinal ==
    \A r \in Runs : retval[r] \notin {0, NoValue} => r \notin started

\* A 0 that is no success is that of a process on its way out.
ZeroExplained ==
    \A r \in Runs : retval[r] = 0 =>
        r \in started \/ pc[r] \in {"bailout", "exited"}

\* The PID file never names a process that sent the other 0, so that such a
\* process cannot be killed.
ZeroNotNamed ==
    pidfile # NoPid /\ retval[pidfile] = 0 => pidfile \in started

\* The verdict of the parent is the value sent.
VerdictSent ==
    \A r \in Runs :
        /\ parent[r] = "up" => retval[r] = 0
        /\ parent[r] = "failed" => retval[r] \notin {0, NoValue}

IInv ==
    /\ TypeOK
    /\ DaemonsOnly
    /\ EarlySilent
    /\ ErrorsFinal
    /\ ZeroExplained
    /\ ZeroNotNamed
    /\ VerdictSent
    /\ PidFileExplained
    /\ OneDaemonUnlessRobbed

\* The invariant holds before the first invocation.
LEMMA IInvInit == Init => IInv
<1> SUFFICES ASSUME Init PROVE IInv
  OBVIOUS
<1>1. TypeOK
  <2>1. robbed \in BOOLEAN /\ pidfile \in Runs \cup {NoPid} /\ started \in SUBSET Runs
    BY DEF Init
  <2>2. pc \in [Runs -> Live \cup {"begin", "exited", "aborted", "killed"}]
    BY DEF Init, Live
  <2>3. retval \in [Runs -> 0 .. NoValue]
    BY DEF Init, NoValue
  <2>4. parent \in [Runs -> {"none", "waiting", "up", "failed", "no_answer"}]
    BY DEF Init
  <2> QED BY <2>1, <2>2, <2>3, <2>4 DEF Init, TypeOK
<1>2. /\ DaemonsOnly /\ EarlySilent /\ ErrorsFinal /\ ZeroExplained
      /\ ZeroNotNamed /\ VerdictSent
  BY DEF Init, DaemonsOnly, EarlySilent, ErrorsFinal, ZeroExplained,
         ZeroNotNamed, VerdictSent, NoValue
<1>3. PidFileExplained /\ OneDaemonUnlessRobbed
  BY DEF Init, PidFileExplained, OneDaemonUnlessRobbed, Owns
<1> QED BY <1>1, <1>2, <1>3 DEF IInv

---------------------------------------------------------------------------
\* Every step keeps the types.
LEMMA TypeStep == IInv /\ [Next]_vars => TypeOK'
<1> SUFFICES ASSUME TypeOK, [Next]_vars PROVE TypeOK'
  BY DEF IInv
<1> USE NoPidAssumption DEF TypeOK, NoValue, Live
<1>1. CASE UNCHANGED vars
  BY <1>1 DEF vars
<1>2. ASSUME NEW r \in Runs, Kill(r) PROVE TypeOK'
  BY <1>2 DEF Kill, Running, CheckedPidfile, Alive
<1>3. ASSUME NEW r \in Runs, Refuse(r) PROVE TypeOK'
  BY <1>3 DEF Refuse
<1>4. ASSUME NEW r \in Runs, Begin(r) PROVE TypeOK'
  BY <1>4 DEF Begin, Running, CheckedPidfile, Alive
<1>5. ASSUME NEW r \in Runs, ForkFails(r) PROVE TypeOK'
  BY <1>5 DEF ForkFails, Running, CheckedPidfile, Alive
<1>6. ASSUME NEW r \in Runs, CloseAll(r) PROVE TypeOK'
  BY <1>6 DEF CloseAll, Step
<1>7. ASSUME NEW r \in Runs, CloseFails(r) PROVE TypeOK'
  BY <1>7 DEF CloseFails, GiveUp, Step, Send, DAEMON_FAIL_TO_CLOSE
<1>8. ASSUME NEW r \in Runs, CreatePidFile(r) PROVE TypeOK'
  BY <1>8 DEF CreatePidFile, Step
<1>9. ASSUME NEW r \in Runs, PidFileFails(r) PROVE TypeOK'
  BY <1>9 DEF PidFileFails, GiveUp, Step, Send, DAEMON_FAIL_PID
<1>10. ASSUME NEW r \in Runs, LoadConfig(r) PROVE TypeOK'
  BY <1>10 DEF LoadConfig, Step
<1>11. ASSUME NEW r \in Runs, ConfigFails(r) PROVE TypeOK'
  BY <1>11 DEF ConfigFails, GiveUp, Step, Send, DAEMON_FAIL_CONF
<1>12. ASSUME NEW r \in Runs, StartServer(r) PROVE TypeOK'
  BY <1>12 DEF StartServer, Step, Send
<1>13. ASSUME NEW r \in Runs, StartAborts(r) PROVE TypeOK'
  BY <1>13 DEF StartAborts, Step
<1>14. ASSUME NEW r \in Runs, StopServing(r) PROVE TypeOK'
  BY <1>14 DEF StopServing, Step
<1>15. ASSUME NEW r \in Runs, Bailout(r) PROVE TypeOK'
  BY <1>15 DEF Bailout, Step, Running, Alive
<1>16. ASSUME NEW r \in Runs, ParentReads(r) PROVE TypeOK'
  BY <1>16 DEF ParentReads
<1>17. ASSUME NEW r \in Runs, ParentGivesUp(r) PROVE TypeOK'
  BY <1>17 DEF ParentGivesUp
<1> QED
  BY <1>1, <1>2, <1>3, <1>4, <1>5, <1>6, <1>7, <1>8, <1>9, <1>10, <1>11, <1>12, <1>13, <1>14, <1>15, <1>16, <1>17
  DEF Next

\* What was sent and what was said of it stay consistent over every step.
LEMMA VerdictStep ==
    IInv /\ [Next]_vars =>
        (DaemonsOnly /\ EarlySilent /\ ErrorsFinal /\ ZeroExplained
           /\ ZeroNotNamed /\ VerdictSent)'
<1> DEFINE Verdicts == /\ DaemonsOnly /\ EarlySilent /\ ErrorsFinal
                       /\ ZeroExplained /\ ZeroNotNamed /\ VerdictSent
<1> SUFFICES ASSUME IInv, [Next]_vars PROVE Verdicts'
  OBVIOUS
<1> USE NoPidAssumption
    DEF IInv, TypeOK, DaemonsOnly, EarlySilent, ErrorsFinal, ZeroExplained,
        ZeroNotNamed, VerdictSent, PidFileExplained, Owns, NoValue, Early, Live
<1>1. CASE UNCHANGED vars
  BY <1>1 DEF vars
<1>2. ASSUME NEW r \in Runs, Kill(r) PROVE Verdicts'
  BY <1>2 DEF Kill, Running, CheckedPidfile, Alive
<1>3. ASSUME NEW r \in Runs, Refuse(r) PROVE Verdicts'
  BY <1>3 DEF Refuse
<1>4. ASSUME NEW r \in Runs, Begin(r) PROVE Verdicts'
  BY <1>4 DEF Begin, Running, CheckedPidfile, Alive
<1>5. ASSUME NEW r \in Runs, ForkFails(r) PROVE Verdicts'
  BY <1>5 DEF ForkFails, Running, CheckedPidfile, Alive
<1>6. ASSUME NEW r \in Runs, CloseAll(r) PROVE Verdicts'
  BY <1>6 DEF CloseAll, Step
<1>7. ASSUME NEW r \in Runs, CloseFails(r) PROVE Verdicts'
  BY <1>7 DEF CloseFails, GiveUp, Step, Send, DAEMON_FAIL_TO_CLOSE
<1>8. ASSUME NEW r \in Runs, CreatePidFile(r) PROVE Verdicts'
  BY <1>8 DEF CreatePidFile, Step
<1>9. ASSUME NEW r \in Runs, PidFileFails(r) PROVE Verdicts'
  BY <1>9 DEF PidFileFails, GiveUp, Step, Send, DAEMON_FAIL_PID
<1>10. ASSUME NEW r \in Runs, LoadConfig(r) PROVE Verdicts'
  BY <1>10 DEF LoadConfig, Step
<1>11. ASSUME NEW r \in Runs, ConfigFails(r) PROVE Verdicts'
  BY <1>11 DEF ConfigFails, GiveUp, Step, Send, DAEMON_FAIL_CONF
<1>12. ASSUME NEW r \in Runs, StartServer(r) PROVE Verdicts'
  BY <1>12 DEF StartServer, Step, Send
<1>13. ASSUME NEW r \in Runs, StartAborts(r) PROVE Verdicts'
  BY <1>13 DEF StartAborts, Step
<1>14. ASSUME NEW r \in Runs, StopServing(r) PROVE Verdicts'
  BY <1>14 DEF StopServing, Step
<1>15. ASSUME NEW r \in Runs, Bailout(r) PROVE Verdicts'
  BY <1>15 DEF Bailout, Step, Running, Alive
<1>16. ASSUME NEW r \in Runs, ParentReads(r) PROVE Verdicts'
  BY <1>16 DEF ParentReads
<1>17. ASSUME NEW r \in Runs, ParentGivesUp(r) PROVE Verdicts'
  BY <1>17 DEF ParentGivesUp
<1> QED
  BY <1>1, <1>2, <1>3, <1>4, <1>5, <1>6, <1>7, <1>8, <1>9, <1>10, <1>11, <1>12, <1>13, <1>14, <1>15, <1>16, <1>17
  DEF Next

\* The PID file and the processes it may name stay consistent over every step.
LEMMA PidFileStep ==
    IInv /\ [Next]_vars => (PidFileExplained /\ OneDaemonUnlessRobbed)'
<1> SUFFICES ASSUME IInv, [Next]_vars
             PROVE  (PidFileExplained /\ OneDaemonUnlessRobbed)'
  OBVIOUS
<1> USE NoPidAssumption
    DEF IInv, TypeOK, DaemonsOnly, PidFileExplained, OneDaemonUnlessRobbed,
        Owns, Live
<1>1. CASE UNCHANGED vars
  BY <1>1 DEF vars
<1>2. ASSUME NEW r \in Runs, Kill(r) PROVE (PidFileExplained /\ OneDaemonUnlessRobbed)'
  BY <1>2 DEF Kill, Running, CheckedPidfile, Alive
<1>3. ASSUME NEW r \in Runs, Refuse(r) PROVE (PidFileExplained /\ OneDaemonUnlessRobbed)'
  BY <1>3 DEF Refuse
<1>4. ASSUME NEW r \in Runs, Begin(r) PROVE (PidFileExplained /\ OneDaemonUnlessRobbed)'
  BY <1>4 DEF Begin, Running, CheckedPidfile, Alive
<1>5. ASSUME NEW r \in Runs, ForkFails(r) PROVE (PidFileExplained /\ OneDaemonUnlessRobbed)'
  BY <1>5 DEF ForkFails, Running, CheckedPidfile, Alive
<1>6. ASSUME NEW r \in Runs, CloseAll(r) PROVE (PidFileExplained /\ OneDaemonUnlessRobbed)'
  BY <1>6 DEF CloseAll, Step
<1>7. ASSUME NEW r \in Runs, CloseFails(r) PROVE (PidFileExplained /\ OneDaemonUnlessRobbed)'
  BY <1>7 DEF CloseFails, GiveUp, Step, Send, DAEMON_FAIL_TO_CLOSE
<1>8. ASSUME NEW r \in Runs, CreatePidFile(r) PROVE (PidFileExplained /\ OneDaemonUnlessRobbed)'
  BY <1>8 DEF CreatePidFile, Step
<1>9. ASSUME NEW r \in Runs, PidFileFails(r) PROVE (PidFileExplained /\ OneDaemonUnlessRobbed)'
  BY <1>9 DEF PidFileFails, GiveUp, Step, Send, DAEMON_FAIL_PID
<1>10. ASSUME NEW r \in Runs, LoadConfig(r) PROVE (PidFileExplained /\ OneDaemonUnlessRobbed)'
  BY <1>10 DEF LoadConfig, Step
<1>11. ASSUME NEW r \in Runs, ConfigFails(r) PROVE (PidFileExplained /\ OneDaemonUnlessRobbed)'
  BY <1>11 DEF ConfigFails, GiveUp, Step, Send, DAEMON_FAIL_CONF
<1>12. ASSUME NEW r \in Runs, StartServer(r) PROVE (PidFileExplained /\ OneDaemonUnlessRobbed)'
  BY <1>12 DEF StartServer, Step, Send
<1>13. ASSUME NEW r \in Runs, StartAborts(r) PROVE (PidFileExplained /\ OneDaemonUnlessRobbed)'
  BY <1>13 DEF StartAborts, Step
<1>14. ASSUME NEW r \in Runs, StopServing(r) PROVE (PidFileExplained /\ OneDaemonUnlessRobbed)'
  BY <1>14 DEF StopServing, Step
<1>15. ASSUME NEW r \in Runs, Bailout(r) PROVE (PidFileExplained /\ OneDaemonUnlessRobbed)'
  <2>1. PidFileExplained'
    BY <1>15 DEF Bailout
  <2>2. ASSUME ~robbed', NEW q \in Runs, Owns(q)' PROVE FALSE
    <3>1. pc'[r] = "exited" /\ \A p \in Runs \ {r} : pc'[p] = pc[p]
      BY <1>15 DEF Bailout, Step
    <3>2. q # r /\ Owns(q)
      BY <1>15, <2>2, <3>1 DEF Bailout
    <3>3. ~robbed /\ ~(pidfile # r /\ Running)
      BY <1>15, <2>2 DEF Bailout
    <3>4. pidfile = q /\ Running
      BY <3>2, <3>3 DEF Running, Alive
    <3> QED BY <3>2, <3>3, <3>4
  <2> QED BY <2>1, <2>2
<1>16. ASSUME NEW r \in Runs, ParentReads(r) PROVE (PidFileExplained /\ OneDaemonUnlessRobbed)'
  BY <1>16 DEF ParentReads
<1>17. ASSUME NEW r \in Runs, ParentGivesUp(r) PROVE (PidFileExplained /\ OneDaemonUnlessRobbed)'
  BY <1>17 DEF ParentGivesUp
<1> QED
  BY <1>1, <1>2, <1>3, <1>4, <1>5, <1>6, <1>7, <1>8, <1>9, <1>10, <1>11, <1>12, <1>13, <1>14, <1>15, <1>16, <1>17
  DEF Next

---------------------------------------------------------------------------
\* The invariant is inductive.
LEMMA Inductive == Spec => []IInv
<1>1. IInv /\ [Next]_vars => IInv'
  BY TypeStep, VerdictStep, PidFileStep DEF IInv
<1> QED BY <1>1, IInvInit, PTL DEF Spec

\* As long as no process removes the PID file of another live one (main.c,
\* bailout), at most one daemon is past daemon_pid_file_create(), and the file
\* names it, however many are started at once.
THEOREM DaemonsApart == Spec => []OneDaemonUnlessRobbed
BY Inductive, PTL DEF IInv

\* A PID file is that of a live daemon, or of one that died on its way: no
\* orderly exit leaves a file that would stop the next start.
THEOREM PidFileAlwaysExplained == Spec => []PidFileExplained
BY Inductive, PTL DEF IInv

\* What daemon_retval_wait() made the parent tell the user stays true: nothing
\* that was reported as failed ever serves.
THEOREM VerdictStands == Spec => []VerdictFinal
<1>1. IInv => VerdictFinal
  BY DEF IInv, VerdictSent, ErrorsFinal, ZeroExplained, VerdictFinal, NoValue
<1> QED BY <1>1, Inductive, PTL
===========================================================================
