------------------------------ MODULE Sessions ------------------------------
(***************************************************************************)
(* Every tkf session that works on one stack: runs, ups and downs on       *)
(* several hosts, with the idle guard, EC2, crashes of any session, the    *)
(* manual removal of a crashed run's lock file, and sessions of other      *)
(* stacks that write the same state.json.                                  *)
(***************************************************************************)
EXTENDS RunSession

CONSTANT BusyHosts   \* hosts on which sessions of other stacks run too

ASSUME HostAssumption == BusyHosts \subseteq Hosts

vars == <<asg, by, stack, lock, stateFile, pc, seen, polls, forbidden, owned, cancelled,
          exit, prev, job, jobExit, timers, timedOut, cleanup>>

Init ==
  /\ asg = EmptyGroup
  /\ by = Nobody
  /\ stack \in StartStacks
  /\ lock = [h \in Hosts |-> Nobody]
  /\ stateFile \in [Hosts -> Targets]
  /\ pc = [s \in Sessions |-> "idle"]
  /\ seen = [s \in Sessions |-> "absent"]
  /\ polls = [s \in Sessions |-> 0]
  /\ forbidden = [s \in Sessions |-> 0]
  /\ owned = [s \in Sessions |-> FALSE]
  /\ cancelled = [s \in Sessions |-> FALSE]
  /\ exit = [s \in Sessions |-> "none"]
  /\ prev = [r \in Runs |-> "none"]
  /\ job = [r \in Runs |-> {}]
  /\ jobExit = [r \in Runs |-> "none"]
  /\ timers = [r \in Runs |-> {}]
  /\ timedOut = [r \in Runs |-> FALSE]
  /\ cleanup = [r \in Runs |-> "not-needed"]

----------------------------------------------------------------------------
(* tkf down without --purge.  Its target is state.json's unless --region is
   given, and without a state.json that it can parse it gives up. *)

StartDown(d) ==
  /\ pc[d] = "idle"
  /\ LET target == stateFile[HostOf[d]] IN
       \/ target \in {"none"} \cup Unreadable /\ Finished(d, "one")
       \/ target = "other" /\ Finished(d, "zero")
       \/ target \in {"here", "other"} /\ stack = "absent" /\ Finished(d, "zero")
       \/ target \in {"here", "other"} /\ stack # "absent" /\ Goto(d, "lower") /\ UNCHANGED exit
  /\ UNCHANGED <<awsVars, hostVars, locals, owned, cancelled, runVars>>

Lower(d) ==
  /\ pc[d] = "lower"
  /\ \/ Request(d, SetDesired(asg, 0)) /\ Finished(d, "zero")
     \/ RequestFails(d, SetDesired(asg, 0)) /\ Finished(d, "one")
  /\ UNCHANGED <<stack, hostVars, locals, owned, cancelled, runVars>>

DownStep(d) == StartDown(d) \/ Lower(d)

----------------------------------------------------------------------------
(* The environment *)

\* The idle Lambda, at any time the policy has an idle window: a delayed event
\* may deliver it late.  IdleAlarm's timing is not modelled here.
IdleStop ==
  /\ stack \notin {"absent", "online"}
  /\ asg.desired = 1
  /\ Request(Guard, SetDesired(asg, 0))
  /\ UNCHANGED <<stack, hostVars, locals, owned, cancelled, exit, pc, runVars>>

Ec2Step == Ec2 /\ UNCHANGED <<stack, hostVars, locals, owned, cancelled, exit, pc, runVars>>

\* SIGKILL or loss of the host at any point; Ctrl-C for an up or a down, which
\* install no handler.  Its memory is gone; the lock file and state.json stay, and
\* the job's group is detached and may live on.
Crash(s) ==
  /\ pc[s] \notin {"idle", "done", "crashed"}
  /\ Goto(s, "crashed")
  /\ LocalsEnd(s)
  /\ owned' = [owned EXCEPT ![s] = FALSE]
  /\ cancelled' = [cancelled EXCEPT ![s] = FALSE]
  /\ IF s \in Runs THEN /\ timers' = [timers EXCEPT ![s] = {}]
                        /\ prev' = [prev EXCEPT ![s] = "none"]
                   ELSE UNCHANGED <<timers, prev>>
  /\ UNCHANGED <<awsVars, hostVars, exit, job, jobExit, timedOut, cleanup>>

\* The user deletes the lock file of a run known to be gone, as the error says.
RemoveStaleLock(h) ==
  /\ lock[h] \in Runs /\ pc[lock[h]] = "crashed"
  /\ lock' = [lock EXCEPT ![h] = Nobody]
  /\ UNCHANGED <<awsVars, stateFile, locals, owned, cancelled, exit, pc, runVars>>

\* Either half of a save by a session of another stack, or one that went wrong
OtherStackSaves(h) ==
  /\ h \in BusyHosts
  /\ \E t \in {"other"} \cup Unreadable : stateFile' = [stateFile EXCEPT ![h] = t]
  /\ UNCHANGED <<awsVars, lock, locals, owned, cancelled, exit, pc, runVars>>

SessionStep(s) == \/ s \in Runs /\ (RunStep(s) \/ TimerStep(s))
                  \/ s \in Ups /\ UpStep(s) /\ UNCHANGED runVars
                  \/ s \in Downs /\ DownStep(s)

Next == \/ \E s \in Sessions : SessionStep(s) \/ Crash(s)
        \/ \E r \in Runs : Signal(r) \/ JobProcessEnds(r)
        \/ \E h \in Hosts : RemoveStaleLock(h) \/ OtherStackSaves(h)
        \/ IdleStop \/ Ec2Step

Spec == Init /\ [][Next]_vars

\* Every session's own calls return and its timers fire; nothing else is owed.
FairSpec == /\ Spec
            /\ \A s \in Sessions : WF_vars(SessionStep(s))
----------------------------------------------------------------------------
(* Properties *)

Working(r) == pc[r] \notin {"idle", "done", "crashed"}
Ended(s) == pc[s] \in {"done", "crashed"}

Labels == {"idle", "lockcheck", "outputs", "ownership", "deploy", "verify", "write", "weights",
           "claim", "raise", "secret", "probe", "pin", "status", "recover", "sleep", "restore",
           "rewrite", "key", "job", "release", "confirm", "finish", "putback", "lower", "done",
           "crashed"}

ExitStatus == {"none", "zero", "one", "code", "timeout", "spawn", "signal"}

\* Every variable holds a value the program can give it.
TypeOK ==
  /\ asg \in Group
  /\ by \in Sessions \cup {Nobody, Guard}
  /\ stack \in StackStates
  /\ lock \in [Hosts -> Runs \cup {Nobody}]
  /\ stateFile \in [Hosts -> Targets]
  /\ pc \in [Sessions -> Labels]
  /\ seen \in [Sessions -> StackStates]
  /\ polls \in [Sessions -> 0..MaxPolls]
  /\ forbidden \in [Sessions -> Nat]
  /\ owned \in [Sessions -> BOOLEAN]
  /\ cancelled \in [Sessions -> BOOLEAN]
  /\ exit \in [Sessions -> ExitStatus]
  /\ prev \in [Runs -> Targets]
  /\ job \in [Runs -> SUBSET {"leader", "member"}]
  /\ jobExit \in [Runs -> {"none", "zero", "code", "signal", "spawnError"}]
  /\ timers \in [Runs -> SUBSET {"limit", "limitKill", "signalKill"}]
  /\ timedOut \in [Runs -> BOOLEAN]
  /\ cleanup \in [Runs -> {"not-needed", "ok", "failed"}]

\* The lock file names exactly the run at work on the stack: two runs of one
\* host never overlap, and a run that ended by itself leaves no lock behind,
\* whatever was crashed and cleared by hand in between (lock.ts, run.ts:53,197).
LockExclusive ==
  /\ \A r \in Runs : Working(r) => lock[HostOf[r]] = r
  /\ \A h \in Hosts : lock[h] # Nobody => HostOf[lock[h]] = h /\ pc[lock[h]] # "done"

\* A run that ends and does not report a failed cleanup leaves no capacity it
\* asked for, also when the guard, a down or another session acted in between
\* (run.ts:174-191).
NoLeakedCapacity ==
  \A r \in Runs : pc[r] = "done" /\ asg.desired = 1 /\ by = r => cleanup[r] = "failed"

\* r has ended and written back the snapshot of state.json it took at its start.
PutBackBy(r) == pc[r] = "done" /\ Restores(r) /\ stateFile[HostOf[r]] = prev[r]

\* Whenever a GPU is requested by a run or an up, that host's state.json names
\* the stack, so that a plain `tkf down` finds it, or cannot be parsed, so that
\* `tkf down` fails and says so.  It names something else only after a session of
\* another stack has saved its own target, or after another run of the host has
\* ended and written back a snapshot older than the request (up.ts:91,
\* run.ts:84-89,192; state.ts:17 writes in place).
TargetRecorded ==
  \A s \in Runs \cup Ups : asg.desired = 1 /\ by = s =>
    \/ stateFile[HostOf[s]] \in {"here"} \cup Unreadable
    \/ stateFile[HostOf[s]] = "other" /\ HostOf[s] \in BusyHosts
    \/ \E r \in Runs \ {s} : HostOf[r] = HostOf[s] /\ PutBackBy(r)

\* Exit status 0 is only given for a job that ended with 0 by itself, within its
\* limit and before any cancellation, and kept only if the GPU was released
\* (run.ts:156-168,186-189).
HonestExit ==
  /\ [][\A r \in Runs : exit[r] # "zero" /\ exit'[r] = "zero" =>
          jobExit[r] = "zero" /\ ~timedOut[r] /\ ~cancelled[r]]_vars
  /\ [](\A r \in Runs : pc[r] = "done" /\ exit[r] = "zero" => cleanup[r] = "ok")

\* No process of the job's group outlives the job in a run that is still alive
\* (program.ts:328-332).
NoOrphans == \A r \in Runs : job[r] # {} => pc[r] \in {"job", "crashed"}

\* No armed timer survives the job, so that no late SIGKILL is sent
\* (run.ts:151-152).
NoLateTimers == \A r \in Runs : timers[r] # {} => pc[r] = "job"

\* The pinned minimum of online mode never outlives the capacity: whoever stops
\* the GPU also clears the minimum (aws.ts:45-53, the Lambda's request).
MinWithinDesired == asg.min <= asg.desired

\* A run stops only a GPU that it requested itself (run.ts:45, README's "does
\* not take over or stop").
NoForeignStop ==
  [][\A r \in Runs : asg.desired = 1 /\ asg'.desired = 0 /\ by' = r => by = r]_vars

\* Only a run that waits for a job without a limit may wait for ever.
Unlimited(s) == /\ s \in Runs /\ pc[s] = "job" /\ "leader" \in job[s]
                /\ timers[s] = {} /\ ~timedOut[s] /\ ~cancelled[s]

\* Every session that starts ends, if its calls return: the wait has a deadline,
\* a job with a limit is killed in the end, and so is any job, with or without
\* one, once a signal has come (up.ts:120, run.ts:60-70,135-142).
SessionsEnd == \A s \in Sessions : pc[s] # "idle" ~> Ended(s) \/ Unlimited(s)

----------------------------------------------------------------------------
(* What the documentation says and the code does not do *)

\* docs/architecture.md:142: desired is returned to 0 on every failure path of
\* tkf up.  Left out are the two failed requests that the error message itself
\* reports, and the first request for the GPU, which may have failed on its way.
UpFailureReleases ==
  [][\A u \in Ups : pc[u] \notin {"raise", "restore", "pin"} /\ exit'[u] = "one" /\ exit[u] # "one"
       => ~(asg'.desired = 1 /\ by' = u)]_vars
=============================================================================
