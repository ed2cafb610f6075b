---------------------------- MODULE BootSupervisor ----------------------------
(***************************************************************************)
(* The main thread of assets/user-data/boot.sh: the preparation jobs run   *)
(* in parallel or one after the other, then the container is started and   *)
(* its health is awaited.  A failure, a signal or the deadline ends the    *)
(* boot; whatever still runs is killed.  The upload of the events, which   *)
(* follows, is BootUploader.                                               *)
(***************************************************************************)
EXTENDS Naturals, Sequences, Functions

VARIABLES pc, todo,  \* the main thread: where it is, and what is still to be done
          left,      \* the jobs not yet polled in this pass of await_jobs
          active,    \* the dict of started jobs, in order
          jobs,      \* each job's leader, other processes of its group, cache file
          phase,     \* per phase: its latest event
          seen,      \* cache_seen
          cancel,    \* a signal has been handled
          late,      \* the deadline of the current phase has passed
          error,     \* the exception being handled
          code       \* the exit status

vars == <<pc, todo, left, active, jobs, phase, seen, cancel, late, error, code>>

Prepare == {"weights", "image"}
Started == Prepare \cup {"container"}   \* the phases that are jobs
Jobs == Started \cup {"probe"}
Phases == Started \cup {"health", "boot"}

\* Fault: the container does not wait for the parallel jobs.
PlanUnawaited(mode) == <<"weights", "image", "container", "await", "health">>

Plan(mode) ==
  IF mode = "serial"
    THEN <<"weights", "await", "image", "await", "await", "container", "await", "health">>
    ELSE <<"weights", "image", "await", "container", "await", "health">>

NoJob == [leader |-> "none", kids |-> FALSE, cache |-> FALSE]

Init ==
  /\ pc = "begin" /\ todo = <<>> /\ left = <<>> /\ active = <<>>
  /\ jobs = [j \in Jobs |-> NoJob]
  /\ phase = [p \in Phases |-> IF p = "boot" THEN "start" ELSE "none"]
  /\ seen = {}
  /\ cancel = FALSE /\ late = FALSE
  /\ error = "none" /\ code = "one"

----------------------------------------------------------------------------
(* Helpers *)

\* Control leaves the try block.
Raise(e) == pc' = "except" /\ error' = e /\ left' = <<>>

Continue(l) == pc' = l /\ UNCHANGED error

\* Fault: the deadline is not looked at.
CancelOnly == IF cancel THEN "interrupted" ELSE "none"

\* Cancellation first, then the deadline
Interruption == IF cancel THEN "interrupted" ELSE IF late THEN "timeout" ELSE "none"

\* observe_cache: jobs whose cache file exists
Observed == seen \cup {j \in Prepare : jobs[j].cache}

\* Fault: only the leader is waited for.
LeaderOnly(job) == [job EXCEPT !.leader = IF @ = "running" THEN "failed" ELSE @]

\* group_kill with SIGKILL
Killed(job) == [job EXCEPT !.leader = IF @ = "running" THEN "failed" ELSE @, !.kids = FALSE]

\* `active` without the job j, the others in their order
Without(j) == LET i == CHOOSE k \in DOMAIN active : active[k] = j
              IN [k \in 1..(Len(active) - 1) |-> active[IF k < i THEN k ELSE k + 1]]

\* event(): the phase's latest status
Noted(p, status) == phase' = [phase EXCEPT ![p] = status]

\* subprocess.Popen in a session of its own
Spawned(j) == /\ jobs' = [jobs EXCEPT ![j] = [NoJob EXCEPT !.leader = "running"]]
              /\ active' = Append(active, j)

----------------------------------------------------------------------------
(* The try block *)

\* A limit or the mode may be invalid.
Begin ==
  /\ pc = "begin"
  /\ \/ Raise("failed") /\ UNCHANGED todo
     \/ /\ \E mode \in {"serial", "parallel"} : todo' = Plan(mode)
        /\ Continue("run") /\ UNCHANGED left
  /\ UNCHANGED <<active, jobs, phase, seen, cancel, late, code>>

Doing(what) == pc = "run" /\ Head(todo) = what

\* launch(): the phase is started before its process, which may fail to start.
Launch(j) ==
  /\ Doing(j) /\ Noted(j, "start")
  /\ seen' = IF j = "container" THEN Observed ELSE seen
  /\ \/ Spawned(j) /\ todo' = Tail(todo) /\ Continue("run") /\ UNCHANGED left
     \/ Raise("failed") /\ UNCHANGED <<todo, active, jobs>>
  /\ UNCHANGED <<cancel, late, code>>

\* await_jobs, between two passes over the active jobs
Await ==
  /\ Doing("await")
  /\ \/ /\ active = <<>>
        /\ todo' = Tail(todo) /\ Continue("run") /\ UNCHANGED <<left, seen>>
     \/ /\ active # <<>> /\ seen' = Observed /\ UNCHANGED todo
        /\ \/ Interruption # "none" /\ Raise(Interruption)
           \/ Interruption = "none" /\ Continue("poll") /\ left' = active
  /\ UNCHANGED <<active, jobs, phase, cancel, late, code>>

\* One job of a pass: it runs, or has ended and is reaped with what is left of its
\* group.  A failed job ends the boot.
Poll ==
  /\ pc = "poll" /\ UNCHANGED <<todo, cancel, late, code>>
  /\ LET j == Head(left)
         leader == jobs[j].leader
         on == IF Len(left) = 1 THEN "run" ELSE "poll"
     IN \/ /\ leader = "running" /\ Continue(on) /\ left' = Tail(left)
           /\ UNCHANGED <<active, jobs, phase, seen>>
        \/ /\ leader # "running"
           /\ jobs' = [jobs EXCEPT ![j] = Killed(@)]
           /\ active' = Without(j)
           /\ seen' = Observed
           /\ \/ leader = "ok" /\ Noted(j, "complete") /\ Continue(on) /\ left' = Tail(left)
              \/ leader = "failed" /\ Noted(j, "failed") /\ Raise("failed")

HealthStarts ==
  /\ Doing("health") /\ Noted("health", "start") /\ Continue("health")
  /\ UNCHANGED <<todo, left, active, jobs, seen, cancel, late, code>>

\* The next probe of the local endpoint
Health ==
  /\ pc = "health" /\ UNCHANGED <<todo, phase, seen, cancel, late, code>>
  /\ \/ Interruption # "none" /\ Raise(Interruption) /\ UNCHANGED <<active, jobs>>
     \/ Interruption = "none" /\ Spawned("probe") /\ Continue("probe") /\ UNCHANGED left
     \/ Interruption = "none" /\ Raise("failed") /\ UNCHANGED <<active, jobs>>

\* The wait for a probe: 0 from curl is READY, anything else is tried again.
Probe ==
  /\ pc = "probe" /\ UNCHANGED <<todo, seen, cancel, late>>
  /\ \/ /\ jobs["probe"].leader = "running" /\ Interruption # "none"
        /\ Raise(Interruption) /\ UNCHANGED <<active, jobs, phase, code>>
     \/ /\ jobs["probe"].leader # "running"
        /\ jobs' = [jobs EXCEPT !["probe"] = Killed(@)]
        /\ active' = Without("probe") /\ UNCHANGED left
        /\ \/ /\ jobs["probe"].leader = "ok" /\ code' = "zero" /\ Continue("cleanup")
              /\ phase' = [phase EXCEPT !["health"] = "ready", !["boot"] = "ready"]
           \/ jobs["probe"].leader = "failed" /\ Continue("health") /\ UNCHANGED <<phase, code>>

----------------------------------------------------------------------------
(* The except and finally blocks *)

Status == IF cancel THEN "cancelled" ELSE IF error = "timeout" THEN "timeout" ELSE "failed"

\* Fault: the health phase is not closed.
ActiveOnly == Range(active) \cup {"boot"}

Open == Range(active) \cup {"boot"} \cup {p \in {"health"} : phase[p] # "none"}

\* Every phase that is still open is closed with the status of the boot.
Except ==
  /\ pc = "except" /\ Continue("status")
  /\ phase' = [p \in Phases |-> IF p \in Open THEN Status ELSE phase[p]]
  /\ UNCHANGED <<todo, left, active, jobs, seen, cancel, late, code>>

\* The exit status is computed after the events are written.
ExitCode ==
  /\ pc = "status" /\ Continue("cleanup")
  /\ code' = IF cancel THEN "signal" ELSE "one"
  /\ UNCHANGED <<todo, left, active, jobs, phase, seen, cancel, late>>

\* Fault: a signal that comes after READY changes the exit status.
SignalWins == IF cancel THEN "signal" ELSE code

FinalCode == code

\* SIGTERM and SIGKILL to the group of every job that is still active
Cleanup ==
  /\ pc = "cleanup" /\ Continue("done")
  /\ jobs' = [j \in Jobs |-> IF j \in Range(active) THEN Killed(jobs[j]) ELSE jobs[j]]
  /\ active' = <<>> /\ code' = FinalCode
  /\ UNCHANGED <<todo, left, phase, seen, cancel, late>>

MainStep ==
  \/ Begin \/ (\E j \in Started : Launch(j)) \/ Await \/ Poll \/ HealthStarts \/ Health \/ Probe
  \/ Except \/ ExitCode \/ Cleanup

----------------------------------------------------------------------------
(* The environment *)

\* prepare_weights and prepare_image write their cache file, hit or miss, before
\* the work itself; jobs may start further processes, and end.
JobStep(j) ==
  /\ \/ /\ jobs[j].leader = "running"
        /\ \/ jobs' = [jobs EXCEPT ![j].kids = TRUE]
           \/ j \in Prepare /\ jobs' = [jobs EXCEPT ![j].cache = TRUE]
           \/ (j \in Prepare => jobs[j].cache) /\ jobs' = [jobs EXCEPT ![j].leader = "ok"]
           \/ jobs' = [jobs EXCEPT ![j].leader = "failed"]
     \/ jobs[j].kids /\ jobs' = [jobs EXCEPT ![j].kids = FALSE]
  /\ UNCHANGED <<pc, todo, left, active, phase, seen, cancel, late, error, code>>

Signal == /\ ~cancel /\ cancel' = TRUE
          /\ UNCHANGED <<pc, todo, left, active, jobs, phase, seen, late, error, code>>

Expire == /\ ~late /\ late' = TRUE
          /\ UNCHANGED <<pc, todo, left, active, jobs, phase, seen, cancel, error, code>>

Next == MainStep \/ (\E j \in Jobs : JobStep(j)) \/ Signal \/ Expire

Spec == Init /\ [][Next]_vars

\* The main thread is scheduled and time passes; jobs may hang.
FairSpec == Spec /\ WF_vars(MainStep) /\ WF_vars(Expire)
----------------------------------------------------------------------------
(* Properties *)

Closed == {"complete", "failed", "cancelled", "timeout", "ready"}
Over == pc = "done"
Alive(j) == jobs[j].leader = "running" \/ jobs[j].kids

\* The container is started only when both preparations have succeeded and nothing
\* of them still runs (README "Both must succeed before container launch").
ContainerNeedsBoth ==
  phase["container"] # "none" => \A j \in Prepare : phase[j] = "complete" /\ ~Alive(j) /\ j \in seen

\* The exit status and the event of the boot agree, whenever signals come: status 0
\* exactly for a boot that was READY after all its phases, and a boot recorded as
\* cancelled exits with the signal's status (boot.sh:283-303).
BootVerdict ==
  Over => /\ phase["boot"] \in {"ready", "cancelled", "timeout", "failed"}
          /\ code = "zero" <=> phase["boot"] = "ready"
          /\ phase["boot"] = "ready" =>
               phase["health"] = "ready" /\ \A j \in Started : phase[j] = "complete"
          /\ phase["boot"] = "cancelled" => code = "signal"

\* When the boot is over, each phase that has started has an outcome, except one
\* whose process could not be started (boot.sh:287-290).
PhasesClosed ==
  Over => \A p \in Phases : phase[p] = "start" => p \in Started /\ jobs[p].leader = "none"

\* No process of any job's group survives the boot (boot.sh:154-160,184).
NothingLeft == Over => \A j \in Jobs : ~Alive(j)

\* The boot ends, though a job may hang and the endpoint never answer.
BootEnds == <>Over
=============================================================================
