----------------------------- MODULE RunSession -----------------------------
(***************************************************************************)
(* tkf run: runBatch of src/cli/commands/run.ts with the lock file of      *)
(* src/cli/lock.ts and the job's process group of src/cli/program.ts.      *)
(* A run prepares the stack and waits for it with the steps of UpSession.  *)
(***************************************************************************)
EXTENDS UpSession

CONSTANT JobLimits   \* the choices of --timeout: set (jobTimeoutMs > 0) or not

ASSUME LimitAssumption == JobLimits \subseteq BOOLEAN

VARIABLES prev,      \* state.json as it was when the run began
          job,       \* live processes of the job's group, as the OS sees them
          jobExit,   \* how the job's leader ended
          timers,    \* armed timers of the run
          timedOut,
          cleanup    \* outcome of the capacity release

jobVars == <<job, jobExit, timers, timedOut>>
runVars == <<prev, jobVars, cleanup>>   \* what the steps of UpSession leave alone
awsVars == <<asg, by, stack>>

\* Signals are handled from the registration of the handler to its removal.
Listening(r) == pc[r] \notin {"idle", "finish", "putback", "done", "crashed"}

\* Fault: the lock file is written over whatever is there.
LockOverwritten(r) == TRUE

\* acquireLock: link() fails when the lock file exists, whoever left it there.
LockFree(r) == lock[HostOf[r]] = Nobody

\* The start of a run: refused, or the lock is taken.  Registering the handler and
\* loading the previous state follow with no call in between; a state.json that
\* cannot be parsed ends the run, and its finally block gives the lock back.
StartRun(r) ==
  /\ pc[r] = "idle"
  /\ \/ /\ ~LockFree(r)
        /\ Finished(r, "one") /\ UNCHANGED <<lock, prev>>
     \/ /\ LockFree(r) /\ stateFile[HostOf[r]] \in Unreadable
        /\ Finished(r, "one") /\ UNCHANGED <<lock, prev>>
     \/ /\ LockFree(r) /\ stateFile[HostOf[r]] \notin Unreadable
        /\ lock' = [lock EXCEPT ![HostOf[r]] = r]
        /\ prev' = [prev EXCEPT ![r] = stateFile[HostOf[r]]]
        /\ Goto(r, "outputs") /\ UNCHANGED exit
  /\ UNCHANGED <<awsVars, locals, stateFile, owned, cancelled, jobVars, cleanup>>

\* The second ownership check, immediately before the capacity is raised.
Claim(r) ==
  /\ pc[r] = "claim"
  /\ \/ Busy(asg) /\ Throw(r) /\ UNCHANGED owned
     \/ ~Busy(asg) /\ owned' = [owned EXCEPT ![r] = TRUE] /\ Proceed(r, "raise")
  /\ UNCHANGED <<awsVars, hostVars, cancelled, runVars>>

\* The key arrives: start the command unless the run was cancelled meanwhile.
\* A command that cannot be started (ENOENT) leaves no process.
Spawn(r) ==
  /\ pc[r] = "key"
  /\ \/ cancelled[r] /\ Cancel(r) /\ UNCHANGED <<job, jobExit, timers>>
     \/ /\ ~cancelled[r]
        /\ \E g \in {{}, {"leader"}, {"leader", "member"}} :
             /\ job' = [job EXCEPT ![r] = g]
             /\ jobExit' = [jobExit EXCEPT ![r] = IF g = {} THEN "spawnError" ELSE @]
        /\ \E limited \in JobLimits :
             timers' = [timers EXCEPT ![r] = IF limited THEN {"limit"} ELSE {}]
        /\ Proceed(r, "job")
  /\ UNCHANGED <<awsVars, hostVars, owned, cancelled, prev, timedOut, cleanup>>

\* SIGKILL to the group, as long as the leader's exit was not reported.
KillGroup(r) ==
  /\ job' = [job EXCEPT ![r] = {}]
  /\ jobExit' = [jobExit EXCEPT ![r] = IF "leader" \in job[r] THEN "signal" ELSE @]

\* A process of the job ends by itself or on SIGTERM; this is the OS's view,
\* which the run learns of later.
JobProcessEnds(r) ==
  /\ \E p \in job[r], e \in {"zero", "code", "signal"} :
       /\ job' = [job EXCEPT ![r] = @ \ {p}]
       /\ jobExit' = [jobExit EXCEPT ![r] = IF p = "leader" THEN e ELSE @]
  /\ UNCHANGED <<awsVars, hostVars, locals, owned, cancelled, exit, pc, prev,
                 timers, timedOut, cleanup>>

\* The armed timers t once the limit's timer has fired
Escalate(t) == (t \ {"limit"}) \cup {"limitKill"}

\* --timeout expires: SIGTERM now, SIGKILL after the grace period.
LimitFires(r) ==
  /\ "limit" \in timers[r]
  /\ timedOut' = [timedOut EXCEPT ![r] = TRUE]
  /\ timers' = [timers EXCEPT ![r] = Escalate(@)]
  /\ UNCHANGED <<awsVars, hostVars, locals, owned, cancelled, exit, pc, prev,
                 job, jobExit, cleanup>>

KillFires(r) ==
  /\ \E k \in {"limitKill", "signalKill"} \cap timers[r] :
       timers' = [timers EXCEPT ![r] = @ \ {k}]
  /\ KillGroup(r)
  /\ UNCHANGED <<awsVars, hostVars, locals, owned, cancelled, exit, pc, prev,
                 timedOut, cleanup>>

\* Fault: the signal handler sends SIGTERM only.
NoKillOnSignal(r) == timers[r]

\* A running job is sent SIGTERM now and SIGKILL after the grace period.
ArmedBySignal(r) == IF pc[r] = "job" THEN timers[r] \cup {"signalKill"} ELSE timers[r]

\* The first SIGINT, SIGTERM or SIGHUP; later ones are only logged.
Signal(r) ==
  /\ Listening(r) /\ ~cancelled[r]
  /\ cancelled' = [cancelled EXCEPT ![r] = TRUE]
  /\ timers' = [timers EXCEPT ![r] = ArmedBySignal(r)]
  /\ UNCHANGED <<awsVars, hostVars, locals, owned, exit, pc, prev, job, jobExit,
                 timedOut, cleanup>>

\* Fault: a command that could not be started is taken for one that ended.
OutcomeIgnoresSpawn(r) == IF timedOut[r] THEN "timeout" ELSE jobExit[r]

\* Fault: a cancellation that the job survives is forgotten.
OutcomeIgnoresCancel(r) == IF jobExit[r] = "spawnError" THEN "spawn"
                           ELSE IF timedOut[r] THEN "timeout"
                           ELSE IF jobExit[r] = "signal" THEN "one" ELSE jobExit[r]

\* The exit status of a job that is over: spawn error, limit, cancellation,
\* then the job's own status.
JobOutcome(r) == CASE jobExit[r] = "spawnError" -> "spawn"
                   [] jobExit[r] # "spawnError" /\ timedOut[r] -> "timeout"
                   [] jobExit[r] # "spawnError" /\ ~timedOut[r] /\ cancelled[r] -> "signal"
                   [] OTHER -> IF jobExit[r] = "signal" THEN "one" ELSE jobExit[r]

\* Fault: grandchildren are left alone.
LeaveGroup(r) == UNCHANGED job

\* The exit event kills what is left of the group.
ReapGroup(r) == job' = [job EXCEPT ![r] = {}]

\* Fault: the SIGKILL timer of the signal handler is forgotten.
StopLimitTimers(r) == timers' = [timers EXCEPT ![r] = @ \ {"limit", "limitKill"}]

StopTimers(r) == timers' = [timers EXCEPT ![r] = {}]

\* The leader's exit is reported: what is left of the group is killed, every
\* timer is cancelled and the exit status is fixed.
JobDone(r) ==
  /\ pc[r] = "job" /\ "leader" \notin job[r]
  /\ ReapGroup(r) /\ StopTimers(r)
  /\ exit' = [exit EXCEPT ![r] = JobOutcome(r)]
  /\ Goto(r, "release")
  /\ UNCHANGED <<awsVars, hostVars, locals, owned, cancelled, prev, jobExit, timedOut,
                 cleanup>>

CleanupFails(r) ==
  /\ cleanup' = [cleanup EXCEPT ![r] = "failed"]
  /\ exit' = [exit EXCEPT ![r] = IF @ = "zero" THEN "one" ELSE @]
  /\ Goto(r, "finish")

Release(r) ==
  /\ pc[r] = "release"
  /\ \/ Request(r, SetDesired(asg, 0)) /\ Goto(r, "confirm") /\ UNCHANGED <<cleanup, exit>>
     \/ RequestFails(r, SetDesired(asg, 0)) /\ CleanupFails(r)
  /\ UNCHANGED <<stack, hostVars, locals, owned, cancelled, prev, jobVars>>

\* The desired capacity is read back; the read may fail as well.
Confirm(r) ==
  /\ pc[r] = "confirm"
  /\ \/ /\ asg.desired = 0
        /\ cleanup' = [cleanup EXCEPT ![r] = "ok"]
        /\ Goto(r, "finish") /\ UNCHANGED exit
     \/ CleanupFails(r)
  /\ UNCHANGED <<awsVars, hostVars, locals, owned, cancelled, prev, jobVars>>

\* The end of the finally block: the handler is removed, and the lock file if
\* it names this run.
Leave(r) == /\ lock' = [lock EXCEPT ![HostOf[r]] = IF @ = r THEN Nobody ELSE @]
            /\ Goto(r, "done")

\* restoreState has something to write back, and the cleanup did not fail.
Restores(r) == cleanup[r] # "failed" /\ prev[r] # "none"

\* A restoring save that fails, in either half, is only noted.
Finish(r) ==
  /\ pc[r] = "finish"
  /\ \/ Restores(r) /\ Opened(r) /\ Goto(r, "putback") /\ UNCHANGED lock
     \/ UNCHANGED stateFile /\ Leave(r)
  /\ UNCHANGED <<awsVars, locals, owned, cancelled, exit, prev, jobVars, cleanup>>

PutBack(r) ==
  /\ pc[r] = "putback"
  /\ Written(r, prev[r]) \/ WriteFails(r)
  /\ Leave(r)
  /\ UNCHANGED <<awsVars, locals, owned, cancelled, exit, prev, jobVars, cleanup>>

RunOnly(r) == \/ StartRun(r) \/ Claim(r) \/ Spawn(r) \/ JobDone(r)
              \/ Release(r) \/ Confirm(r) \/ Finish(r) \/ PutBack(r)

RunStep(r) == \/ RunOnly(r)
              \/ SharedStep(r) /\ UNCHANGED runVars

TimerStep(r) == LimitFires(r) \/ KillFires(r)
=============================================================================
