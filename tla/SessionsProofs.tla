--------------------------- MODULE SessionsProofs ---------------------------
(* Theorems about Sessions, for every set of sessions, hosts and policies.    *)
EXTENDS Sessions, TLAPS

(* The iteration counter stays below its bound inside the loop's body, which   *)
(* is what keeps Tick within the type.                                         *)
PollsBelow == \A s \in Sessions :
  pc[s] \in {"status", "recover", "sleep"} => polls[s] < MaxPolls

TypeInv == TypeOK /\ PollsBelow

LEMMA RequestTyped ==
  ASSUME NEW w \in Sessions \cup {Nobody, Guard}, NEW g \in Group,
         asg \in Group, by \in Sessions \cup {Nobody, Guard}, RequestFails(w, g)
  PROVE  asg' \in Group /\ by' \in Sessions \cup {Nobody, Guard}
BY DEF RequestFails, Request

LEMMA CapacityTyped ==
  ASSUME NEW g \in Group, NEW m \in {0, 1}, NEW n \in {0, 1}
  PROVE  SetDesired(g, n) \in Group /\ SetCapacity(g, m, n) \in Group
BY DEF Group, SetDesired, SetCapacity

LEMMA ReadsTyped ==
  ASSUME TypeInv, NEW s \in Runs \cup Ups, Reads(s), UNCHANGED <<asg, by, stack, lock, owned, cancelled, runVars>>
  PROVE  TypeInv'
<1> USE SessionAssumption DEF TypeInv, TypeOK, PollsBelow, Sessions, Labels, ExitStatus, Targets, StackStates,
        Policies, Policy, runVars, jobVars, locals, Goto, Proceed, LocalsEnd, Opened, FileBecomes
<1>0. s \in Sessions OBVIOUS
<1>1. CASE ReadOutputs(s) BY SMTT(60), <1>0, <1>1 DEF ReadOutputs, Reconcile, Record, Saves, Throw, Unwind
<1>2. CASE CheckOwnership(s) BY SMTT(60), <1>0, <1>2 DEF CheckOwnership, Reconcile, Record, Saves, Throw, Unwind
<1>3. CASE Verify(s) BY SMTT(60), <1>0, <1>3 DEF Verify, Record, Saves, Throw, Unwind
<1>4. CASE Weights(s) BY SMTT(60), <1>0, <1>4 DEF Weights, Cancel, Unwind
<1>5. CASE Secret(s) BY <1>0, <1>5 DEF Secret
<1>6. CASE Probe200(s) BY SMTT(60), <1>0, <1>6 DEF Probe200, Ready, Cancel, Throw, Unwind
<1>7. CASE ProbeElse(s) BY <1>0, <1>7 DEF ProbeElse
<1>8. CASE Status(s) BY <1>0, <1>8 DEF Status
<1>9. CASE Sleep(s) BY SMTT(60), <1>0, <1>9 DEF Sleep, Tick, Cancel, Unwind
<1>10. CASE Deadline(s) BY <1>0, <1>10 DEF Deadline
<1>11. CASE CallThrows(s) BY <1>0, <1>11 DEF CallThrows, Throw, Unwind
<1>12. CASE Write(s) BY SMTT(60), <1>0, <1>12 DEF Write, Written, WriteFails, Throw, Unwind
<1>13. CASE Rewrite(s) BY SMTT(60), <1>0, <1>13 DEF Rewrite, Written, WriteFails, Finished
<1> QED BY <1>1, <1>2, <1>3, <1>4, <1>5, <1>6, <1>7, <1>8, <1>9, <1>10, <1>11, <1>12, <1>13 DEF Reads

LEMMA WritesTyped ==
  ASSUME TypeInv, NEW s \in Runs \cup Ups, Writes(s), UNCHANGED <<lock, owned, cancelled, runVars>>
  PROVE  TypeInv'
<1> USE SessionAssumption DEF TypeInv, TypeOK, PollsBelow, Sessions, Labels, ExitStatus, Targets, StackStates,
        Policies, Policy, runVars, jobVars, locals, Goto, Proceed, LocalsEnd, Opened, FileBecomes
<1>0. s \in Sessions OBVIOUS
<1>a. SetDesired(asg, 0) \in Group /\ SetDesired(asg, 1) \in Group /\ SetCapacity(asg, 1, 1) \in Group
  BY CapacityTyped
<1>1. CASE Deploy(s)
  <2>1. asg' \in Group BY <1>1 DEF Deploy, Group
  <2> QED BY <1>0, <1>1, <2>1 DEF Deploy
<1>2. CASE Raise(s)
  <2>1. RequestFails(s, SetDesired(asg, 1)) BY <1>2 DEF Raise, RequestFails
  <2>2. asg' \in Group /\ by' \in Sessions \cup {Nobody, Guard} BY <1>a, <2>1, RequestTyped
  <2> QED BY <1>0, <1>2, <2>2 DEF Raise, Throw, Unwind
<1>3. CASE Pin(s)
  <2>1. RequestFails(s, SetCapacity(asg, 1, 1)) BY <1>3 DEF Pin, RequestFails
  <2>2. asg' \in Group /\ by' \in Sessions \cup {Nobody, Guard} BY <1>a, <2>1, RequestTyped
  <2> QED BY SMTT(60), <1>0, <1>3, <2>2 DEF Pin, Ready, Cancel, Throw, Unwind
<1>4. CASE Recover(s)
  <2>1. RequestFails(s, SetDesired(asg, 1)) BY <1>4 DEF Recover, RequestFails
  <2>2. asg' \in Group /\ by' \in Sessions \cup {Nobody, Guard} BY <1>a, <2>1, RequestTyped
  <2> QED BY <1>0, <1>4, <2>2 DEF Recover, Throw, Unwind
<1>5. CASE Restore(s)
  <2>1. asg' \in Group /\ by' \in Sessions \cup {Nobody, Guard}
    BY <1>a, <1>5, RequestTyped DEF Restore
  <2> QED BY <1>0, <1>5, <2>1 DEF Restore, Throw, Unwind
<1> QED BY <1>1, <1>2, <1>3, <1>4, <1>5 DEF Writes

LEMMA SharedTyped ==
  ASSUME TypeInv, NEW s \in Runs \cup Ups, SharedStep(s), UNCHANGED runVars
  PROVE  TypeInv'
BY ReadsTyped, WritesTyped DEF SharedStep

LEMMA UpTyped ==
  ASSUME TypeInv, NEW u \in Ups, UpStep(u), UNCHANGED runVars
  PROVE  TypeInv'
<1>1. CASE SharedStep(u) BY <1>1, SharedTyped
<1>2. CASE (StartUp(u) \/ CheckLock(u)) /\ UNCHANGED <<asg, by, stack, lock, owned, cancelled>>
  BY SMTT(60), <1>2, SessionAssumption DEF TypeInv, TypeOK, PollsBelow, Sessions, Labels, ExitStatus, StackStates, Policies,
     runVars, jobVars, locals, Goto, Proceed, LocalsEnd, StartUp, CheckLock, Throw, Unwind
<1> QED BY <1>1, <1>2 DEF UpStep

LEMMA RunOnlyTyped ==
  ASSUME TypeInv, NEW r \in Runs, RunOnly(r)
  PROVE  TypeInv'
<1> USE SessionAssumption, LimitAssumption
    DEF TypeInv, TypeOK, PollsBelow, Sessions, Labels, ExitStatus, Targets, runVars, jobVars, awsVars, hostVars,
        locals, Goto, Proceed
<1>0. r \in Sessions OBVIOUS
<1>a. SetDesired(asg, 0) \in Group BY CapacityTyped
<1>1. CASE StartRun(r)
  <2>1. HostOf[r] \in Hosts BY <1>0
  <2> QED BY SMTT(60), <1>0, <1>1, <2>1 DEF StartRun, Finished
<1>2. CASE Claim(r)
  <2>1. UNCHANGED <<asg, by, stack, lock, stateFile, cancelled, prev, job, jobExit, timers, timedOut, cleanup>>
    BY <1>2 DEF Claim
  <2>2. seen' \in [Sessions -> StackStates] /\ polls' \in [Sessions -> 0..MaxPolls]
        /\ forbidden' \in [Sessions -> Nat]
    BY SMTT(30), <1>0, <1>2 DEF Claim, Throw, Unwind, LocalsEnd, StackStates, Policies
  <2>5. owned' \in [Sessions -> BOOLEAN] BY <1>0, <1>2 DEF Claim
  <2>3. pc' \in [Sessions -> Labels] /\ exit' \in [Sessions -> ExitStatus]
    BY <1>0, <1>2 DEF Claim, Throw, Unwind, ExitStatus
  <2>4. PollsBelow' BY <1>0, <1>2 DEF Claim, Throw, Unwind, LocalsEnd
  <2> QED BY <2>1, <2>2, <2>3, <2>4, <2>5
<1>3. CASE Spawn(r)
  <2>1. /\ job' \in [Runs -> SUBSET {"leader", "member"}]
        /\ jobExit' \in [Runs -> {"none", "zero", "code", "signal", "spawnError"}]
        /\ timers' \in [Runs -> SUBSET {"limit", "limitKill", "signalKill"}]
    BY <1>3 DEF Spawn
  <2>2. seen' \in [Sessions -> StackStates] /\ polls' \in [Sessions -> 0..MaxPolls]
        /\ forbidden' \in [Sessions -> Nat]
    BY SMTT(60), <1>0, <1>3 DEF Spawn, Cancel, Unwind, LocalsEnd, StackStates, Policies
  <2>3. PollsBelow'
    BY <1>0, <1>3 DEF Spawn, Cancel, Unwind, LocalsEnd
  <2>4. pc' \in [Sessions -> Labels] /\ exit' \in [Sessions -> ExitStatus]
    BY <1>0, <1>3 DEF Spawn, Cancel, Unwind, ExitStatus
  <2>5. UNCHANGED <<asg, by, stack, lock, stateFile, owned, cancelled, prev, timedOut, cleanup>>
    BY <1>3 DEF Spawn
  <2> QED BY <2>1, <2>2, <2>3, <2>4, <2>5
<1>4. CASE JobDone(r)
  BY <1>0, <1>4 DEF JobDone, JobOutcome, ReapGroup, StopTimers
<1>5. CASE Release(r)
  <2>1. RequestFails(r, SetDesired(asg, 0)) BY <1>5 DEF Release, RequestFails
  <2>2. asg' \in Group /\ by' \in Sessions \cup {Nobody, Guard} BY <1>a, <2>1, RequestTyped
  <2> QED BY SMTT(60), <1>0, <1>5, <2>2 DEF Release, CleanupFails
<1>6. CASE Confirm(r) BY <1>0, <1>6 DEF Confirm, CleanupFails
<1>7. CASE Finish(r) BY <1>0, <1>7 DEF Finish, Leave, Opened, FileBecomes
<1>8. CASE PutBack(r) BY <1>0, <1>8 DEF PutBack, Leave, Written, WriteFails, FileBecomes
<1> QED BY <1>1, <1>2, <1>3, <1>4, <1>5, <1>6, <1>7, <1>8 DEF RunOnly

LEMMA JobTyped ==
  ASSUME TypeInv, NEW r \in Runs, TimerStep(r) \/ Signal(r) \/ JobProcessEnds(r)
  PROVE  TypeInv'
<1> USE SessionAssumption
    DEF TypeInv, TypeOK, PollsBelow, Sessions, runVars, jobVars, awsVars, hostVars, locals
<1>1. CASE LimitFires(r) BY <1>1 DEF LimitFires, Escalate
<1>2. CASE KillFires(r) BY <1>2 DEF KillFires, KillGroup
<1>3. CASE Signal(r) BY <1>3 DEF Signal, ArmedBySignal
<1>4. CASE JobProcessEnds(r) BY <1>4 DEF JobProcessEnds
<1> QED BY <1>1, <1>2, <1>3, <1>4 DEF TimerStep

LEMMA DownTyped ==
  ASSUME TypeInv, NEW d \in Downs, DownStep(d)
  PROVE  TypeInv'
<1> USE SessionAssumption
    DEF TypeInv, TypeOK, PollsBelow, Sessions, Labels, ExitStatus, runVars, jobVars, awsVars, hostVars, locals,
        Goto, Finished
<1>1. CASE StartDown(d) BY <1>1 DEF StartDown
<1>2. CASE Lower(d)
  <2>1. RequestFails(d, SetDesired(asg, 0)) BY <1>2 DEF Lower, RequestFails
  <2>2. asg' \in Group /\ by' \in Sessions \cup {Nobody, Guard} BY <2>1, CapacityTyped, RequestTyped
  <2> QED BY <1>2, <2>2 DEF Lower
<1> QED BY <1>1, <1>2 DEF DownStep

LEMMA EnvironmentTyped ==
  ASSUME TypeInv,
         \/ \E s \in Sessions : Crash(s)
         \/ \E h \in Hosts : RemoveStaleLock(h) \/ OtherStackSaves(h)
         \/ IdleStop \/ Ec2Step
  PROVE  TypeInv'
<1> USE SessionAssumption
    DEF TypeInv, TypeOK, PollsBelow, Sessions, Labels, ExitStatus, runVars, jobVars, awsVars, hostVars, locals
<1>1. ASSUME NEW s \in Sessions, Crash(s) PROVE TypeInv'
  BY <1>1 DEF Crash, Goto, LocalsEnd, StackStates, Policies, Targets
<1>2. ASSUME NEW h \in Hosts, RemoveStaleLock(h) PROVE TypeInv' BY <1>2 DEF RemoveStaleLock
<1>3. ASSUME NEW h \in Hosts, OtherStackSaves(h) PROVE TypeInv' BY <1>3 DEF OtherStackSaves, Targets, Unreadable
<1>4. CASE IdleStop
  <2>1. asg' \in Group /\ by' \in Sessions \cup {Nobody, Guard}
    BY <1>4, CapacityTyped, RequestTyped DEF IdleStop, RequestFails
  <2> QED BY <1>4, <2>1 DEF IdleStop
<1>5. CASE Ec2Step
  <2>1. asg' \in Group /\ by' = by
    BY <1>5 DEF Ec2Step, Ec2, Launch, EnterService, Withdraw, Terminated, Group, Lifecycle
  <2> QED BY <1>5, <2>1 DEF Ec2Step
<1> QED BY <1>1, <1>2, <1>3, <1>4, <1>5

LEMMA NextTyped == TypeInv /\ [Next]_vars => TypeInv'
<1> SUFFICES ASSUME TypeInv, [Next]_vars PROVE TypeInv' OBVIOUS
<1>1. ASSUME NEW s \in Sessions, SessionStep(s) PROVE TypeInv'
  BY <1>1, SharedTyped, UpTyped, RunOnlyTyped, JobTyped, DownTyped DEF SessionStep, RunStep
<1>2. ASSUME NEW r \in Runs, Signal(r) \/ JobProcessEnds(r) PROVE TypeInv' BY <1>2, JobTyped
<1>3. CASE UNCHANGED vars BY <1>3 DEF TypeInv, TypeOK, PollsBelow, vars
<1> QED BY <1>1, <1>2, <1>3, EnvironmentTyped DEF Next

(* Every variable of the sessions keeps its type, whatever the instance.       *)
THEOREM TypeCorrect == Spec => []TypeOK
<1>1. Init => TypeInv
  BY SessionAssumption DEF Init, TypeInv, TypeOK, PollsBelow, EmptyGroup, Group, Sessions, Labels,
     ExitStatus, Targets, StackStates, Policies
<1>2. TypeInv => TypeOK BY DEF TypeInv
<1> QED BY <1>1, <1>2, NextTyped, PTL DEF Spec

----------------------------------------------------------------------------
(* The lock.  A run at work is named in its host's lock file, and the file     *)
(* names no run that has not begun or has ended.                               *)

LockInv ==
  /\ \A r \in Runs : Working(r) => lock[HostOf[r]] = r
  /\ \A h \in Hosts : lock[h] # Nobody =>
       HostOf[lock[h]] = h /\ pc[lock[h]] \notin {"idle", "done"}

(* A shared step moves one session between two calls; only an up can end.      *)
LEMMA SharedMoves ==
  ASSUME TypeOK, NEW s \in Runs \cup Ups, SharedStep(s)
  PROVE  /\ lock' = lock
         /\ pc[s] \notin {"idle", "done", "crashed"}
         /\ \E l \in Labels \ {"idle", "crashed"} : pc' = [pc EXCEPT ![s] = l] /\ (s \in Runs => l # "done")
<1> USE SessionAssumption DEF Labels, Goto, Proceed, Finished, Throw, Cancel, Unwind
<1>1. lock' = lock BY DEF SharedStep
<1>2. CASE Reads(s)
  <2>1. CASE ReadOutputs(s) \/ CheckOwnership(s) \/ Verify(s)
    BY <1>1, <2>1 DEF ReadOutputs, CheckOwnership, Verify, Reconcile, Record, Saves
  <2>4. CASE Write(s) \/ Rewrite(s) BY <1>1, <2>4 DEF Write, Rewrite
  <2>2. CASE Weights(s) \/ Secret(s) \/ ProbeElse(s) \/ Status(s) \/ Sleep(s) \/ Deadline(s) \/ CallThrows(s)
    BY <1>1, <2>2 DEF Weights, Secret, ProbeElse, Status, Sleep, Deadline, CallThrows
  <2>3. CASE Probe200(s) BY <1>1, <2>3 DEF Probe200, Ready
  <2> QED BY <1>2, <2>1, <2>2, <2>3, <2>4 DEF Reads
<1>3. CASE Writes(s)
  BY <1>1, <1>3 DEF Writes, Deploy, Raise, Pin, Recover, Restore, Ready
<1> QED BY <1>2, <1>3 DEF SharedStep

LEMMA LockPreserved == TypeOK /\ LockInv /\ [Next]_vars => LockInv'
<1> SUFFICES ASSUME TypeOK, LockInv, [Next]_vars PROVE LockInv' OBVIOUS
<1> USE SessionAssumption DEF LockInv, Working
<1>0. /\ Runs \subseteq Sessions /\ Ups \subseteq Sessions /\ Downs \subseteq Sessions
      /\ pc \in [Sessions -> Labels] /\ lock \in [Hosts -> Runs \cup {Nobody}]
      /\ \A s \in Sessions : HostOf[s] \in Hosts
  BY DEF TypeOK, Sessions
<1>1. ASSUME NEW s \in Runs \cup Ups, SharedStep(s) PROVE LockInv'
  BY <1>0, <1>1, SharedMoves
<1>2. ASSUME NEW u \in Ups, StartUp(u) \/ CheckLock(u), lock' = lock PROVE LockInv'
  BY <1>0, <1>2 DEF StartUp, CheckLock, Proceed, Goto, Throw, Unwind
<1>3. ASSUME NEW r \in Runs, StartRun(r) PROVE LockInv'
  BY <1>0, <1>3 DEF StartRun, LockFree, Finished, Goto
<1>4. ASSUME NEW r \in Runs, Claim(r) \/ Spawn(r) \/ JobDone(r) \/ Release(r) \/ Confirm(r) PROVE LockInv'
  <2>1. /\ lock' = lock /\ pc[r] \notin {"idle", "done", "crashed"}
        /\ \E l \in Labels \ {"idle", "done", "crashed"} : pc' = [pc EXCEPT ![r] = l]
    BY <1>4 DEF Claim, Spawn, JobDone, Release, Confirm, CleanupFails, Goto, Proceed, Throw, Cancel,
       Unwind, Labels, hostVars
  <2> QED BY <1>0, <2>1
<1>5. ASSUME NEW r \in Runs, Finish(r) \/ PutBack(r) PROVE LockInv'
  BY <1>0, <1>5 DEF Finish, PutBack, Leave, Goto
<1>6. ASSUME NEW d \in Downs, DownStep(d) PROVE LockInv'
  BY <1>0, <1>6 DEF DownStep, StartDown, Lower, Finished, Goto, hostVars
<1>7. ASSUME NEW s \in Sessions, Crash(s) PROVE LockInv'
  BY <1>0, <1>7 DEF Crash, Goto, hostVars
<1>8. ASSUME NEW h \in Hosts, RemoveStaleLock(h) PROVE LockInv'
  BY <1>0, <1>8 DEF RemoveStaleLock
<1>9. ASSUME UNCHANGED <<pc, lock>> PROVE LockInv' BY <1>9
<1>10. ASSUME NEW r \in Runs, TimerStep(r) \/ Signal(r) \/ JobProcessEnds(r) PROVE UNCHANGED <<pc, lock>>
  BY <1>10 DEF TimerStep, LimitFires, KillFires, Signal, JobProcessEnds, hostVars
<1>11. ASSUME (\E h \in Hosts : OtherStackSaves(h)) \/ IdleStop \/ Ec2Step \/ UNCHANGED vars
       PROVE  UNCHANGED <<pc, lock>>
  BY <1>11 DEF OtherStackSaves, IdleStop, Ec2Step, hostVars, vars
<1>12. ASSUME NEW s \in Sessions, SessionStep(s) PROVE LockInv'
  BY <1>12, <1>1, <1>2, <1>3, <1>4, <1>5, <1>6, <1>9, <1>10
     DEF SessionStep, RunStep, RunOnly, UpStep, SharedStep
<1> QED BY <1>7, <1>8, <1>9, <1>10, <1>11, <1>12 DEF Next

(* Two runs of one host never work on the stack at the same time, and a run    *)
(* that ends leaves no lock, through every crash and removal of a stale lock.  *)
THEOREM LockIsExclusive == Spec => []LockExclusive
<1>1. Init => LockInv
  BY SessionAssumption DEF Init, LockInv, Working, Sessions
<1>2. LockInv => LockExclusive BY DEF LockInv, LockExclusive
<1> QED BY <1>1, <1>2, LockPreserved, TypeCorrect, PTL DEF Spec

----------------------------------------------------------------------------
(* The capacity.  Only the author of a request can become its author, so a run *)
(* is the author of requested capacity only while it is responsible for it, or *)
(* after it reported that its cleanup failed.                                  *)

Responsible == {"raise", "secret", "probe", "pin", "status", "recover", "sleep", "restore",
                "key", "job", "release", "confirm"}

ByAuthor(w) == (asg'.desired = asg.desired /\ by' = by) \/ by' = w

LeakInv ==
  /\ \A r \in Runs : pc[r] \in Responsible => owned[r]
  /\ \A r \in Runs : asg.desired = 1 /\ by = r =>
       \/ pc[r] \in Responsible \cup {"crashed"}
       \/ pc[r] \in {"finish", "done"} /\ cleanup[r] = "failed"

LEMMA RequestByAuthor ==
  ASSUME NEW w, NEW g, RequestFails(w, g)
  PROVE  ByAuthor(w)
BY DEF RequestFails, Request, ByAuthor

(* What a step of session s does to the sessions of LeakInv other than s.      *)
LEMMA OthersLeakNothing ==
  ASSUME TypeOK, LeakInv, NEW s \in Sessions \cup {Guard}, ByAuthor(s),
         \A q \in Runs \ {s} : pc'[q] = pc[q] /\ owned'[q] = owned[q] /\ cleanup'[q] = cleanup[q],
         \A q \in Runs : q = s =>
           /\ pc'[q] \in Responsible => owned'[q]
           /\ asg'.desired = 1 /\ by' = q =>
                \/ pc'[q] \in Responsible \cup {"crashed"}
                \/ pc'[q] \in {"finish", "done"} /\ cleanup'[q] = "failed"
  PROVE  LeakInv'
<1> SUFFICES ASSUME NEW q \in Runs
             PROVE  /\ pc'[q] \in Responsible => owned'[q]
                    /\ asg'.desired = 1 /\ by' = q =>
                         \/ pc'[q] \in Responsible \cup {"crashed"}
                         \/ pc'[q] \in {"finish", "done"} /\ cleanup'[q] = "failed"
  BY DEF LeakInv
<1>1. CASE q = s BY <1>1
<1>2. CASE q # s
  <2>1. by' = q => asg'.desired = asg.desired /\ by = q BY <1>2 DEF ByAuthor
  <2>2. pc'[q] = pc[q] /\ owned'[q] = owned[q] /\ cleanup'[q] = cleanup[q] BY <1>2
  <2> QED BY <2>1, <2>2 DEF LeakInv
<1> QED BY <1>1, <1>2

LEMMA SharedKeepsCapacity ==
  ASSUME TypeOK, LeakInv, NEW s \in Runs \cup Ups, SharedStep(s), UNCHANGED runVars
  PROVE  LeakInv'
<1> USE SessionAssumption
<1>0. s \in Sessions /\ pc \in [Sessions -> Labels] /\ cleanup' = cleanup /\ owned' = owned
  BY DEF Sessions, TypeOK, SharedStep, runVars
<1>1. ByAuthor(s)
  <2>1. CASE Reads(s) /\ UNCHANGED <<asg, by, stack>> BY <2>1 DEF ByAuthor
  <2>2. CASE Deploy(s) BY <2>2 DEF Deploy, ByAuthor, TypeOK, Group
  <2>3. CASE Raise(s) \/ Pin(s) \/ Recover(s) \/ Restore(s)
    BY <2>3, RequestByAuthor DEF Raise, Pin, Recover, Restore, RequestFails
  <2> QED BY <2>1, <2>2, <2>3 DEF SharedStep, Writes
<1>2. \A q \in Runs \ {s} : pc'[q] = pc[q] BY <1>0, SharedMoves DEF Sessions
<1>3. ASSUME s \in Runs
      PROVE  /\ pc'[s] \in Responsible => owned[s]
             /\ asg'.desired = 1 /\ by' = s => pc'[s] \in Responsible
  <2>1. pc[s] \in Responsible => owned[s] BY <1>3 DEF LeakInv
  <2>2. CASE pc[s] \in {"outputs", "ownership", "deploy", "verify", "write", "weights", "claim"}
    <3>1. ~(asg.desired = 1 /\ by = s) BY <1>3, <2>2 DEF LeakInv, Responsible
    <3>2. ~(asg'.desired = 1 /\ by' = s)
      <4>1. ~Raise(s) /\ ~Pin(s) /\ ~Recover(s) /\ ~Restore(s)
        BY <2>2 DEF Raise, Pin, Recover, Restore
      <4> QED BY <3>1, <4>1 DEF SharedStep, Writes, Deploy, TypeOK, Group
    <3>3. pc'[s] \in Responsible => owned[s]
      BY <1>0, <1>3, <2>2 DEF SharedStep, Reads, Writes, ReadOutputs, CheckOwnership, Reconcile, Deploy,
         Verify, Record, Saves, Write, Rewrite, Weights, CallThrows, Raise, Secret, Probe200, Pin, ProbeElse, Status, Recover, Sleep,
         Deadline, Restore, Throw, Cancel, Unwind, Proceed, Goto, Responsible
    <3> QED BY <3>2, <3>3
  <2>3. CASE pc[s] \in Responsible
    <3>1. pc'[s] \in Responsible
      BY <1>0, <1>3, <2>1, <2>3 DEF SharedStep, Reads, Writes, ReadOutputs, CheckOwnership, Deploy,
         Verify, Write, Rewrite, Weights, CallThrows, Raise, Secret, Probe200, Pin, Ready, ProbeElse, Status, Recover,
         Sleep, Deadline, Restore, Throw, Cancel, Unwind, Proceed, Goto, Responsible
    <3> QED BY <2>1, <2>3, <3>1
  <2>4. pc[s] \in {"outputs", "ownership", "deploy", "verify", "write", "weights", "claim"} \cup Responsible
    BY <1>0, <1>3 DEF SharedStep, Reads, Writes, ReadOutputs, CheckOwnership, Deploy, Verify, Write, Rewrite, Weights,
       CallThrows, Raise, Secret, Probe200, Pin, ProbeElse, Status, Recover, Sleep, Deadline, Restore,
       Responsible
  <2> QED BY <2>2, <2>3, <2>4
<1> QED BY <1>0, <1>1, <1>2, <1>3, OthersLeakNothing

LEMMA RunOnlyKeepsCapacity ==
  ASSUME TypeOK, LeakInv, NEW r \in Runs, RunOnly(r)
  PROVE  LeakInv'
<1> USE SessionAssumption
<1>0. /\ r \in Sessions /\ pc \in [Sessions -> Labels] /\ owned \in [Sessions -> BOOLEAN]
      /\ cleanup \in [Runs -> {"not-needed", "ok", "failed"}]
      /\ asg.desired \in {0, 1} /\ Runs \subseteq Sessions
  BY DEF TypeOK, Sessions, Group
<1>1. CASE StartRun(r) \/ Claim(r) \/ Spawn(r) \/ JobDone(r)
  <2>1. asg' = asg /\ by' = by /\ cleanup' = cleanup
    BY <1>1 DEF StartRun, Claim, Spawn, JobDone, awsVars, runVars
  <2>2. \A q \in Runs \ {r} : pc'[q] = pc[q] /\ owned'[q] = owned[q]
    BY <1>0, <1>1 DEF StartRun, Claim, Spawn, JobDone, Finished, Proceed, Goto, Throw, Cancel, Unwind
  <2>3. pc'[r] \in Responsible => owned'[r]
    BY <1>0, <1>1 DEF StartRun, Claim, Spawn, JobDone, Finished, Proceed, Goto, Throw, Cancel, Unwind,
       Responsible, LeakInv
  <2>4. pc[r] \in Responsible => pc'[r] \in Responsible
    BY <1>0, <1>1 DEF StartRun, Claim, Spawn, JobDone, Proceed, Goto, Throw, Cancel, Unwind,
       Responsible, LeakInv
  <2>5. pc[r] \notin {"crashed", "finish", "done"}
    BY <1>1 DEF StartRun, Claim, Spawn, JobDone
  <2>6. asg.desired = 1 /\ by = r => pc'[r] \in Responsible BY <2>4, <2>5 DEF LeakInv
  <2> QED BY <1>0, <2>1, <2>2, <2>3, <2>6, OthersLeakNothing DEF ByAuthor
<1>2. CASE Release(r)
  <2>1. ByAuthor(r) BY <1>2, RequestByAuthor DEF Release, RequestFails
  <2>2. /\ \A q \in Runs \ {r} : pc'[q] = pc[q] /\ owned'[q] = owned[q] /\ cleanup'[q] = cleanup[q]
        /\ pc'[r] = "confirm" \/ (pc'[r] = "finish" /\ cleanup'[r] = "failed")
        /\ owned'[r] = owned[r] /\ pc[r] = "release"
    BY <1>0, <1>2 DEF Release, Goto, CleanupFails
  <2> QED BY <1>0, <2>1, <2>2, OthersLeakNothing DEF Responsible, LeakInv
<1>3. CASE Confirm(r)
  <2>1. asg' = asg /\ by' = by /\ owned' = owned /\ pc[r] = "confirm"
    BY <1>3 DEF Confirm, awsVars
  <2>2. /\ \A q \in Runs \ {r} : pc'[q] = pc[q] /\ cleanup'[q] = cleanup[q]
        /\ pc'[r] = "finish" /\ (asg.desired = 0 \/ cleanup'[r] = "failed")
    BY <1>0, <1>3 DEF Confirm, Goto, CleanupFails
  <2> QED BY <1>0, <2>1, <2>2, OthersLeakNothing DEF Responsible, ByAuthor
<1>4. CASE Finish(r) \/ PutBack(r)
  <2>1. /\ asg' = asg /\ by' = by /\ owned' = owned /\ cleanup' = cleanup
        /\ \A q \in Runs \ {r} : pc'[q] = pc[q]
        /\ \/ pc[r] \in {"finish", "putback"} /\ pc'[r] = "done"
           \/ pc[r] = "finish" /\ cleanup[r] # "failed" /\ pc'[r] = "putback"
    BY <1>0, <1>4 DEF Finish, PutBack, Restores, Leave, awsVars, Goto
  <2> QED BY <1>0, <2>1, OthersLeakNothing DEF Responsible, ByAuthor, LeakInv
<1> QED BY <1>1, <1>2, <1>3, <1>4 DEF RunOnly

LEMMA CapacityPreserved == TypeOK /\ LeakInv /\ [Next]_vars => LeakInv'
<1> SUFFICES ASSUME TypeOK, LeakInv, [Next]_vars PROVE LeakInv' OBVIOUS
<1> USE SessionAssumption
<1>0. /\ Runs \subseteq Sessions /\ Ups \subseteq Sessions /\ Downs \subseteq Sessions
      /\ pc \in [Sessions -> Labels] /\ owned \in [Sessions -> BOOLEAN]
  BY DEF TypeOK, Sessions
<1>1. ASSUME NEW u \in Ups, UpStep(u), UNCHANGED runVars PROVE LeakInv'
  <2>1. CASE SharedStep(u) BY <1>1, <2>1, SharedKeepsCapacity
  <2>2. CASE (StartUp(u) \/ CheckLock(u)) /\ UNCHANGED <<asg, by, stack, lock, owned, cancelled>>
    BY <1>0, <1>1, <2>2 DEF LeakInv, runVars, StartUp, CheckLock, Proceed, Goto, Throw, Unwind
  <2> QED BY <1>1, <2>1, <2>2 DEF UpStep
<1>2. ASSUME NEW r \in Runs, TimerStep(r) \/ Signal(r) \/ JobProcessEnds(r) PROVE LeakInv'
  BY <1>2 DEF LeakInv, TimerStep, LimitFires, KillFires, Signal, JobProcessEnds, awsVars
<1>3. ASSUME NEW d \in Downs, DownStep(d) PROVE LeakInv'
  <2>1. ByAuthor(d)
    BY <1>3, RequestByAuthor DEF DownStep, StartDown, Lower, awsVars, ByAuthor, RequestFails
  <2>2. /\ \A q \in Runs : pc'[q] = pc[q] /\ owned'[q] = owned[q] /\ cleanup'[q] = cleanup[q]
    BY <1>0, <1>3 DEF DownStep, StartDown, Lower, Finished, Goto, runVars
  <2> QED BY <1>0, <2>1, <2>2, OthersLeakNothing
<1>4. ASSUME NEW s \in Sessions, Crash(s) PROVE LeakInv'
  BY <1>0, <1>4 DEF LeakInv, Crash, Goto, awsVars, Responsible
<1>5. CASE IdleStop
  <2>1. ByAuthor(Guard) BY <1>5 DEF IdleStop, ByAuthor, Request
  <2> QED BY <1>0, <1>5, <2>1, OthersLeakNothing DEF IdleStop, runVars
<1>6. CASE Ec2Step
  <2>1. asg'.desired = asg.desired
    BY <1>6 DEF Ec2Step, Ec2, Launch, EnterService, Withdraw, Terminated, TypeOK, Group
  <2> QED BY <1>6, <2>1 DEF Ec2Step, Ec2, Launch, EnterService, Withdraw, Terminated, LeakInv, runVars
<1>7. ASSUME NEW h \in Hosts, RemoveStaleLock(h) \/ OtherStackSaves(h) PROVE LeakInv'
  BY <1>7 DEF LeakInv, RemoveStaleLock, OtherStackSaves, awsVars, runVars
<1>8. CASE UNCHANGED vars BY <1>8 DEF LeakInv, vars
<1>9. ASSUME NEW s \in Sessions, SessionStep(s) PROVE LeakInv'
  BY <1>9, <1>1, <1>2, <1>3, SharedKeepsCapacity, RunOnlyKeepsCapacity DEF SessionStep, RunStep
<1> QED BY <1>2, <1>4, <1>5, <1>6, <1>7, <1>8, <1>9 DEF Next

(* A run that ended and did not report a failed cleanup is not the author of   *)
(* capacity that is still requested, for any number of sessions and hosts.     *)
THEOREM NoCapacityLeaks == Spec => []NoLeakedCapacity
<1>1. Init => LeakInv
  <2> SUFFICES ASSUME Init PROVE LeakInv OBVIOUS
  <2>1. \A r \in Runs : pc[r] = "idle" /\ by # r
    BY SessionAssumption DEF Init, Sessions
  <2> QED BY <2>1 DEF LeakInv, Responsible
<1>2. LeakInv => NoLeakedCapacity BY SessionAssumption DEF LeakInv, NoLeakedCapacity, Responsible
<1> QED BY <1>1, <1>2, CapacityPreserved, TypeCorrect, PTL DEF Spec

----------------------------------------------------------------------------
(* The minimum.                                                                *)

LEMMA RequestKeepsMin ==
  ASSUME asg \in Group, MinWithinDesired, NEW w,
         \/ RequestFails(w, SetDesired(asg, 0))
         \/ RequestFails(w, SetDesired(asg, 1))
         \/ RequestFails(w, SetCapacity(asg, 1, 1))
  PROVE  MinWithinDesired'
<1>1. asg.min \in {0, 1} /\ asg.desired \in {0, 1} BY DEF Group
<1>2. /\ SetDesired(asg, 0).min = 0 /\ SetDesired(asg, 0).desired = 0
      /\ SetDesired(asg, 1).min = asg.min /\ SetDesired(asg, 1).desired = 1
      /\ SetCapacity(asg, 1, 1).min = 1 /\ SetCapacity(asg, 1, 1).desired = 1
  BY DEF SetDesired, SetCapacity, Group
<1>3. asg' \in {asg, SetDesired(asg, 0), SetDesired(asg, 1), SetCapacity(asg, 1, 1)}
  BY DEF RequestFails, Request
<1> QED BY <1>1, <1>2, <1>3 DEF MinWithinDesired

LEMMA MinPreserved == TypeOK /\ MinWithinDesired /\ [Next]_vars => MinWithinDesired'
<1> SUFFICES ASSUME TypeOK, MinWithinDesired, [Next]_vars PROVE MinWithinDesired' OBVIOUS
<1>0. asg \in Group BY DEF TypeOK
<1>1. CASE UNCHANGED asg BY <1>1 DEF MinWithinDesired
<1>2. ASSUME NEW s \in Sessions, SharedStep(s) PROVE MinWithinDesired'
  <2>1. CASE Deploy(s) BY <1>0, <2>1 DEF Deploy, Group, MinWithinDesired
  <2>2. CASE Raise(s) \/ Pin(s) \/ Recover(s) \/ Restore(s)
    BY <1>0, <2>2, RequestKeepsMin DEF Raise, Pin, Recover, Restore, RequestFails
  <2> QED BY <1>1, <1>2, <2>1, <2>2 DEF SharedStep, Writes
<1>3. ASSUME NEW r \in Runs, RunOnly(r) PROVE MinWithinDesired'
  <2>1. CASE Release(r) BY <1>0, <2>1, RequestKeepsMin DEF Release, RequestFails
  <2>2. CASE ~Release(r)
    BY <1>1, <1>3, <2>2 DEF RunOnly, StartRun, Claim, Spawn, JobDone, Confirm, Finish, PutBack, awsVars
  <2> QED BY <2>1, <2>2
<1>4. ASSUME NEW d \in Downs, DownStep(d) PROVE MinWithinDesired'
  <2>1. CASE StartDown(d) BY <1>1, <2>1 DEF StartDown, awsVars
  <2>2. CASE Lower(d) BY <1>0, <2>2, RequestKeepsMin DEF Lower, RequestFails
  <2> QED BY <1>4, <2>1, <2>2 DEF DownStep
<1>5. CASE IdleStop BY <1>0, <1>5, RequestKeepsMin DEF IdleStop, RequestFails
<1>6. CASE Ec2Step
  BY <1>0, <1>6 DEF Ec2Step, Ec2, Launch, EnterService, Withdraw, Terminated, Group, MinWithinDesired
<1>7. ASSUME \/ \E s \in Sessions : Crash(s)
             \/ \E r \in Runs : TimerStep(r) \/ Signal(r) \/ JobProcessEnds(r)
             \/ \E h \in Hosts : RemoveStaleLock(h) \/ OtherStackSaves(h)
             \/ UNCHANGED vars
      PROVE  MinWithinDesired'
  BY <1>1, <1>7 DEF Crash, TimerStep, LimitFires, KillFires, Signal, JobProcessEnds, RemoveStaleLock,
     OtherStackSaves, awsVars, vars
<1>8. ASSUME NEW u \in Ups, UpStep(u) PROVE MinWithinDesired'
  BY <1>1, <1>2, <1>8 DEF UpStep, Sessions
<1>9. ASSUME NEW s \in Sessions, SessionStep(s) PROVE MinWithinDesired'
  BY <1>2, <1>3, <1>4, <1>7, <1>8, <1>9 DEF SessionStep, RunStep
<1> QED BY <1>5, <1>6, <1>7, <1>9 DEF Next

(* The minimum that online mode pins never exceeds the desired capacity,       *)
(* whoever lowers or deploys the group between two steps of a session.         *)
THEOREM MinStaysWithin == Spec => []MinWithinDesired
<1>1. Init => MinWithinDesired BY DEF Init, MinWithinDesired, EmptyGroup
<1> QED BY <1>1, MinPreserved, TypeCorrect, PTL DEF Spec

----------------------------------------------------------------------------
(* The job.  Its processes, its timers and an exit status of 0 exist only on   *)
(* one side of the point where the leader's exit is reported.                  *)

JobInv ==
  \A r \in Runs :
    /\ timers[r] # {} => pc[r] = "job"
    /\ job[r] # {} => pc[r] \in {"job", "crashed"}
    /\ exit[r] = "zero" =>
         /\ pc[r] \in {"release", "confirm", "finish", "putback", "done", "crashed"}
         /\ pc[r] # "crashed" => jobExit[r] = "zero" /\ ~timedOut[r]
         /\ pc[r] \in {"finish", "putback", "done"} => cleanup[r] = "ok"

(* A shared step takes place before the job, and gives a run no exit status 0. *)
LEMMA SharedExit ==
  ASSUME TypeOK, NEW s \in Runs \cup Ups, SharedStep(s)
  PROVE  /\ pc[s] \notin {"job", "release", "confirm", "finish", "putback"}
         /\ \E e \in ExitStatus :
              exit' = [exit EXCEPT ![s] = e] /\ (s \in Runs => e \in {exit[s], "one", "signal"})
<1> USE SessionAssumption DEF Goto, Proceed, Finished, Throw, Cancel, Unwind
<1>0. exit \in [Sessions -> ExitStatus] /\ s \in Sessions /\ {"one", "signal", "zero"} \subseteq ExitStatus
  BY DEF TypeOK, Sessions, ExitStatus
<1>1. exit = [exit EXCEPT ![s] = exit[s]] /\ exit[s] \in ExitStatus BY <1>0
<1>2. CASE Reads(s)
  <2>1. CASE ReadOutputs(s) \/ CheckOwnership(s) \/ Verify(s)
    BY <1>0, <1>1, <2>1 DEF ReadOutputs, CheckOwnership, Verify, Reconcile, Record, Saves
  <2>4. CASE Write(s) \/ Rewrite(s) BY <1>0, <1>1, <2>4 DEF Write, Rewrite
  <2>2. CASE Weights(s) \/ Secret(s) \/ ProbeElse(s) \/ Status(s) \/ Sleep(s) \/ Deadline(s) \/ CallThrows(s)
    BY <1>0, <1>1, <2>2 DEF Weights, Secret, ProbeElse, Status, Sleep, Deadline, CallThrows
  <2>3. CASE Probe200(s) BY <1>0, <1>1, <2>3 DEF Probe200, Ready
  <2> QED BY <1>2, <2>1, <2>2, <2>3, <2>4 DEF Reads
<1>3. CASE Writes(s)
  BY <1>0, <1>1, <1>3 DEF Writes, Deploy, Raise, Pin, Recover, Restore, Ready
<1> QED BY <1>2, <1>3 DEF SharedStep

LEMMA RunOnlyKeepsJob ==
  ASSUME TypeOK, JobInv, NEW r \in Runs, RunOnly(r)
  PROVE  JobInv'
<1> USE DEF JobInv
<1>0. /\ r \in Sessions /\ Runs \subseteq Sessions
      /\ pc \in [Sessions -> Labels] /\ exit \in [Sessions -> ExitStatus]
      /\ job \in [Runs -> SUBSET {"leader", "member"}]
      /\ jobExit \in [Runs -> {"none", "zero", "code", "signal", "spawnError"}]
      /\ timers \in [Runs -> SUBSET {"limit", "limitKill", "signalKill"}]
      /\ cleanup \in [Runs -> {"not-needed", "ok", "failed"}]
  BY DEF TypeOK, Sessions
<1>1. CASE StartRun(r)
  BY <1>0, <1>1 DEF StartRun, Finished, Goto, jobVars
<1>2. CASE Claim(r)
  BY <1>0, <1>2 DEF Claim, Throw, Unwind, Proceed, Goto, runVars, jobVars
<1>3. CASE Spawn(r)
  BY <1>0, <1>3 DEF Spawn, Cancel, Unwind, Proceed, Goto
<1>4. CASE JobDone(r)
  <2>1. exit'[r] = "zero" => jobExit[r] = "zero" /\ ~timedOut[r]
    BY <1>0, <1>4 DEF JobDone, JobOutcome
  <2> QED BY <1>0, <1>4, <2>1 DEF JobDone, ReapGroup, StopTimers, Goto
<1>5. CASE Release(r)
  BY <1>0, <1>5 DEF Release, CleanupFails, Goto, jobVars
<1>6. CASE Confirm(r)
  BY <1>0, <1>6 DEF Confirm, CleanupFails, Goto, jobVars
<1>7. CASE Finish(r) \/ PutBack(r)
  BY <1>0, <1>7 DEF Finish, PutBack, Leave, Goto, jobVars
<1> QED BY <1>1, <1>2, <1>3, <1>4, <1>5, <1>6, <1>7 DEF RunOnly

LEMMA JobPreserved == TypeOK /\ JobInv /\ [Next]_vars => JobInv'
<1> SUFFICES ASSUME TypeOK, JobInv, [Next]_vars PROVE JobInv' OBVIOUS
<1> USE SessionAssumption DEF JobInv
<1>0. /\ Runs \subseteq Sessions /\ Ups \subseteq Sessions /\ Downs \subseteq Sessions
      /\ pc \in [Sessions -> Labels] /\ exit \in [Sessions -> ExitStatus]
      /\ job \in [Runs -> SUBSET {"leader", "member"}]
      /\ jobExit \in [Runs -> {"none", "zero", "code", "signal", "spawnError"}]
      /\ timers \in [Runs -> SUBSET {"limit", "limitKill", "signalKill"}]
      /\ timedOut \in [Runs -> BOOLEAN]
  BY DEF TypeOK, Sessions
<1>1. ASSUME NEW s \in Runs \cup Ups, SharedStep(s), UNCHANGED runVars PROVE JobInv'
  <2>1. UNCHANGED <<job, jobExit, timers, timedOut, cleanup>> BY <1>1 DEF runVars, jobVars
  <2>2. PICK l \in Labels : pc' = [pc EXCEPT ![s] = l] BY <1>1, SharedMoves
  <2>3. PICK e \in ExitStatus :
          exit' = [exit EXCEPT ![s] = e] /\ (s \in Runs => e \in {exit[s], "one", "signal"})
    BY <1>1, SharedExit
  <2>4. pc[s] \notin {"job", "release", "confirm", "finish", "putback", "done", "crashed"}
    BY <1>1, SharedExit, SharedMoves
  <2> QED BY <1>0, <2>1, <2>2, <2>3, <2>4
<1>2. ASSUME NEW u \in Ups, StartUp(u) \/ CheckLock(u), UNCHANGED runVars PROVE JobInv'
  BY <1>0, <1>2 DEF StartUp, CheckLock, Proceed, Goto, Throw, Unwind, runVars, jobVars
<1>3. ASSUME NEW d \in Downs, DownStep(d) PROVE JobInv'
  BY <1>0, <1>3 DEF DownStep, StartDown, Lower, Finished, Goto, runVars, jobVars
<1>4. ASSUME NEW r \in Runs, LimitFires(r) PROVE JobInv'
  BY <1>0, <1>4 DEF LimitFires, Escalate
<1>5. ASSUME NEW r \in Runs, KillFires(r) PROVE JobInv'
  BY <1>0, <1>5 DEF KillFires, KillGroup
<1>6. ASSUME NEW r \in Runs, Signal(r) PROVE JobInv'
  BY <1>0, <1>6 DEF Signal, ArmedBySignal
<1>7. ASSUME NEW r \in Runs, JobProcessEnds(r) PROVE JobInv'
  BY <1>0, <1>7 DEF JobProcessEnds
<1>8. ASSUME NEW s \in Sessions, Crash(s) PROVE JobInv'
  BY <1>0, <1>8 DEF Crash, Goto
<1>9. ASSUME \/ \E h \in Hosts : RemoveStaleLock(h) \/ OtherStackSaves(h)
             \/ IdleStop \/ Ec2Step \/ UNCHANGED vars
      PROVE  JobInv'
  BY <1>9 DEF RemoveStaleLock, OtherStackSaves, IdleStop, Ec2Step, runVars, jobVars, vars
<1>10. ASSUME NEW s \in Sessions, SessionStep(s) PROVE JobInv'
  BY <1>10, <1>1, <1>2, <1>3, <1>4, <1>5, RunOnlyKeepsJob DEF SessionStep, RunStep, UpStep, TimerStep
<1> QED BY <1>6, <1>7, <1>8, <1>9, <1>10 DEF Next

LEMMA JobInvariant == Spec => []JobInv
<1>1. Init => JobInv BY SessionAssumption DEF Init, JobInv, Sessions
<1> QED BY <1>1, JobPreserved, TypeCorrect, PTL DEF Spec

(* No process of a job's group outlives the job in a run that is still alive,  *)
(* however the job, its limit and the signals interleave.                      *)
THEOREM NoOrphansLeft == Spec => []NoOrphans
<1>1. JobInv => NoOrphans BY DEF JobInv, NoOrphans
<1> QED BY <1>1, JobInvariant, PTL

(* No armed timer survives the job, so that no SIGKILL is sent after its end.  *)
THEOREM TimersEndWithJob == Spec => []NoLateTimers
<1>1. JobInv => NoLateTimers BY DEF JobInv, NoLateTimers
<1> QED BY <1>1, JobInvariant, PTL

(* Only the report of the job's end gives a run the exit status 0.             *)
LEMMA ZeroOfJob ==
  ASSUME TypeOK, [Next]_vars, NEW r \in Runs, exit[r] # "zero", exit'[r] = "zero"
  PROVE  jobExit[r] = "zero" /\ ~timedOut[r] /\ ~cancelled[r]
<1> USE SessionAssumption
<1>0. /\ r \in Sessions /\ Runs \subseteq Sessions /\ Ups \subseteq Sessions /\ Downs \subseteq Sessions
      /\ exit \in [Sessions -> ExitStatus] /\ exit'[r] # exit[r]
      /\ jobExit \in [Runs -> {"none", "zero", "code", "signal", "spawnError"}]
  BY DEF TypeOK, Sessions
<1>1. ASSUME NEW s \in Runs \cup Ups, SharedStep(s) PROVE FALSE
  BY <1>0, <1>1, SharedExit
<1>2. ASSUME NEW u \in Ups, StartUp(u) \/ CheckLock(u) PROVE FALSE
  BY <1>0, <1>2 DEF StartUp, CheckLock, Proceed, Throw, Unwind
<1>3. ASSUME NEW d \in Downs, DownStep(d) PROVE FALSE
  BY <1>0, <1>3 DEF DownStep, StartDown, Lower, Finished
<1>4. ASSUME NEW q \in Runs, RunOnly(q) PROVE q = r /\ JobDone(r)
  BY <1>0, <1>4 DEF RunOnly, StartRun, Claim, Spawn, JobDone, Release, Confirm, Finish, PutBack, CleanupFails,
     Finished, Proceed, Throw, Cancel, Unwind
<1>5. ASSUME \/ \E q \in Runs : TimerStep(q) \/ Signal(q) \/ JobProcessEnds(q)
             \/ \E s \in Sessions : Crash(s)
             \/ \E h \in Hosts : RemoveStaleLock(h) \/ OtherStackSaves(h)
             \/ IdleStop \/ Ec2Step \/ UNCHANGED vars
      PROVE  FALSE
  BY <1>0, <1>5 DEF TimerStep, LimitFires, KillFires, Signal, JobProcessEnds, Crash, RemoveStaleLock,
     OtherStackSaves, IdleStop, Ec2Step, vars
<1>6. JobDone(r)
  BY <1>1, <1>2, <1>3, <1>4, <1>5 DEF Next, SessionStep, RunStep, UpStep
<1> QED BY <1>0, <1>6 DEF JobDone, JobOutcome

(* A run is given the exit status 0 only for a job that ended with 0, within   *)
(* its limit and before any cancellation, and keeps it only if the release of  *)
(* the GPU was confirmed.                                                      *)
THEOREM ExitIsHonest == Spec => HonestExit
<1> DEFINE Step == \A r \in Runs : exit[r] # "zero" /\ exit'[r] = "zero" =>
                     jobExit[r] = "zero" /\ ~timedOut[r] /\ ~cancelled[r]
           End == \A r \in Runs : pc[r] = "done" /\ exit[r] = "zero" => cleanup[r] = "ok"
<1>1. JobInv => End BY DEF JobInv
<1>2. TypeOK /\ [Next]_vars => [Step]_vars BY ZeroOfJob
<1>3. HonestExit <=> [][Step]_vars /\ []End BY DEF HonestExit
<1> HIDE DEF Step, End
<1> QED BY <1>1, <1>2, <1>3, JobInvariant, TypeCorrect, PTL DEF Spec

----------------------------------------------------------------------------
(* What is true of a session between its first saved target and its end.       *)

(* Only a run's own finally block puts its snapshot back.                      *)
LEMMA SharedPutsNothing ==
  ASSUME TypeOK, NEW s \in Runs \cup Ups, SharedStep(s)
  PROVE  pc'[s] # "putback"
<1> USE SessionAssumption DEF Goto, Proceed, Finished, Throw, Cancel, Unwind
<1>0. s \in Sessions /\ pc \in [Sessions -> Labels] BY DEF TypeOK, Sessions
<1>1. CASE Reads(s)
  BY <1>0, <1>1 DEF Reads, ReadOutputs, CheckOwnership, Verify, Reconcile, Record, Saves, Write, Rewrite, Weights,
     Secret, ProbeElse, Status, Sleep, Deadline, CallThrows, Probe200, Ready
<1>2. CASE Writes(s)
  BY <1>0, <1>2 DEF Writes, Deploy, Raise, Pin, Recover, Restore, Ready
<1> QED BY <1>1, <1>2 DEF SharedStep

Early == {"idle", "outputs", "ownership", "deploy", "verify", "write", "weights", "claim"}
Saving == Responsible \cup {"weights", "claim"}

(* A run owns no capacity before its claim, and is responsible only after it.  *)
UnownedEarly == \A r \in Runs : pc[r] \in Early => ~owned[r]

(* A shared step: what it may do to the capacity, to state.json and to pc.     *)
LEMMA SharedEffects ==
  ASSUME TypeOK, UnownedEarly, NEW s \in Runs \cup Ups, SharedStep(s)
  PROVE  /\ \/ asg'.desired = asg.desired /\ by' = by
            \/ /\ by' = s /\ pc[s] \in Responsible
               /\ asg'.desired = 0 => pc[s] = "restore"
         /\ \/ stateFile' = stateFile
            \/ \E t \in {"here"} \cup Unreadable : FileBecomes(s, t)
         /\ pc'[s] \in Saving => pc[s] \in Saving \/ stateFile'[HostOf[s]] \in {"here"} \cup Unreadable
         /\ s \in Runs /\ pc'[s] \in Early => pc[s] \in Early
         /\ s \in Runs /\ pc'[s] \in Responsible => pc[s] \in Responsible
<1> USE SessionAssumption
<1>0. /\ s \in Sessions /\ pc \in [Sessions -> Labels] /\ HostOf[s] \in Hosts
      /\ stateFile \in [Hosts -> Targets] /\ asg \in Group /\ (s \in Runs /\ pc[s] \in Early => ~owned[s])
  BY DEF TypeOK, Sessions, UnownedEarly
<1>1. /\ SetDesired(asg, 0).desired = 0 /\ SetDesired(asg, 1).desired = 1
      /\ SetCapacity(asg, 1, 1).desired = 1 /\ asg.desired \in {0, 1}
  BY <1>0 DEF SetDesired, SetCapacity, Group
<1>2. CASE Reads(s) /\ UNCHANGED <<asg, by, stack>>
  <2> USE DEF Goto, Proceed, Throw, Cancel, Unwind, Early, Responsible, Saving, Unreadable, FileBecomes, Opened
  <2>1. CASE ReadOutputs(s) \/ CheckOwnership(s) \/ Verify(s)
    BY SMTT(60), <1>0, <1>2, <2>1 DEF ReadOutputs, CheckOwnership, Verify, Reconcile, Record, Saves
  <2>4. CASE Write(s) \/ Rewrite(s)
    BY SMTT(60), <1>0, <1>2, <2>4 DEF Write, Rewrite, Written, WriteFails, Finished
  <2>2. CASE Weights(s) \/ Secret(s) \/ ProbeElse(s) \/ Status(s) \/ Sleep(s) \/ Deadline(s) \/ CallThrows(s)
    BY SMTT(60), <1>0, <1>2, <2>2 DEF Weights, Secret, ProbeElse, Status, Sleep, Deadline, CallThrows
  <2>3. CASE Probe200(s)
    BY SMTT(60), <1>0, <1>2, <2>3 DEF Probe200, Ready
  <2> QED BY <1>2, <2>1, <2>2, <2>3, <2>4 DEF Reads
<1>3. CASE Deploy(s)
  BY <1>0, <1>3 DEF Deploy, Goto, Proceed, Early, Responsible, Saving, Group
<1>4. CASE Raise(s) \/ Pin(s) \/ Recover(s) \/ Restore(s)
  <2>1. /\ \/ asg'.desired = asg.desired /\ by' = by
           \/ by' = s /\ asg'.desired = (IF pc[s] = "restore" THEN 0 ELSE 1)
        /\ pc[s] \in {"raise", "pin", "recover", "restore"}
    BY <1>0, <1>1, <1>4 DEF Raise, Pin, Recover, Restore, RequestFails, Request
  <2>2. /\ stateFile' = stateFile \/ FileBecomes(s, "empty")
        /\ s \in Runs => pc'[s] \notin Early
    BY <1>0, <1>4 DEF Raise, Pin, Recover, Restore, Ready, Opened, Goto, Proceed, Throw, Cancel,
       Unwind, Early
  <2> QED BY <2>1, <2>2 DEF Responsible, Saving, Unreadable
<1> QED BY <1>2, <1>3, <1>4 DEF SharedStep, Writes

LEMMA UnownedPreserved == TypeOK /\ UnownedEarly /\ [Next]_vars => UnownedEarly'
<1> SUFFICES ASSUME TypeOK, UnownedEarly, [Next]_vars PROVE UnownedEarly' OBVIOUS
<1> USE SessionAssumption
<1>0. /\ Runs \subseteq Sessions /\ Ups \subseteq Sessions /\ Downs \subseteq Sessions
      /\ pc \in [Sessions -> Labels] /\ owned \in [Sessions -> BOOLEAN]
  BY DEF TypeOK, Sessions
<1>1. ASSUME NEW s \in Runs \cup Ups, SharedStep(s) PROVE UnownedEarly'
  <2>1. owned' = owned BY <1>1 DEF SharedStep
  <2>2. PICK l \in Labels : pc' = [pc EXCEPT ![s] = l] BY <1>1, SharedMoves
  <2>3. s \in Runs /\ pc'[s] \in Early => pc[s] \in Early BY <1>1, SharedEffects
  <2> QED BY <1>0, <2>1, <2>2, <2>3 DEF UnownedEarly
<1>2. ASSUME NEW u \in Ups, (StartUp(u) \/ CheckLock(u)) /\ UNCHANGED owned PROVE UnownedEarly'
  BY <1>0, <1>2 DEF StartUp, CheckLock, Proceed, Goto, Throw, Unwind, UnownedEarly
<1>3. ASSUME NEW r \in Runs, RunOnly(r) PROVE UnownedEarly'
  BY SMTT(60), <1>0, <1>3 DEF RunOnly, StartRun, Claim, Spawn, JobDone, Release, Confirm, Finish, PutBack, Leave,
     CleanupFails, Finished, Goto, Proceed, Throw, Cancel, Unwind, UnownedEarly, Early
<1>4. ASSUME NEW s \in Sessions, Crash(s) PROVE UnownedEarly'
  BY <1>0, <1>4 DEF Crash, Goto, UnownedEarly, Early
<1>5. ASSUME NEW d \in Downs, DownStep(d) PROVE UnownedEarly'
  BY <1>0, <1>5 DEF DownStep, StartDown, Lower, Finished, Goto, UnownedEarly
<1>6. ASSUME \/ \E r \in Runs : TimerStep(r) \/ Signal(r) \/ JobProcessEnds(r)
             \/ \E h \in Hosts : RemoveStaleLock(h) \/ OtherStackSaves(h)
             \/ IdleStop \/ Ec2Step \/ UNCHANGED vars
      PROVE  UnownedEarly'
  BY <1>6 DEF TimerStep, LimitFires, KillFires, Signal, JobProcessEnds, RemoveStaleLock,
     OtherStackSaves, IdleStop, Ec2Step, vars, UnownedEarly
<1>7. ASSUME NEW s \in Sessions, SessionStep(s) PROVE UnownedEarly'
  BY <1>1, <1>2, <1>3, <1>5, <1>6, <1>7 DEF SessionStep, RunStep, UpStep
<1> QED BY <1>4, <1>6, <1>7 DEF Next

LEMMA RunInvariant == Spec => [](TypeOK /\ LockInv /\ LeakInv /\ UnownedEarly)
<1>1. Init => LockInv /\ LeakInv /\ UnownedEarly
  <2> SUFFICES ASSUME Init PROVE LockInv /\ LeakInv /\ UnownedEarly OBVIOUS
  <2>1. \A r \in Runs : pc[r] = "idle" /\ by # r /\ ~owned[r]
    BY SessionAssumption DEF Init, Sessions
  <2> QED BY <2>1 DEF Init, LockInv, LeakInv, UnownedEarly, Working, Responsible
<1> QED BY <1>1, TypeCorrect, LockPreserved, CapacityPreserved, UnownedPreserved, PTL DEF Spec

----------------------------------------------------------------------------
(* Who changes the capacity.                                                   *)

(* A step that changes the desired capacity is one of a session responsible    *)
(* for it, or a request for 0 by a down or by the guard.                       *)
LEMMA WhoChanges ==
  ASSUME TypeOK, UnownedEarly, [Next]_vars
  PROVE  \/ asg'.desired = asg.desired /\ by' = by
         \/ \E s \in Runs \cup Ups : /\ by' = s /\ pc[s] \in Responsible
                                     /\ asg'.desired = 0 => pc[s] \in {"restore", "release"}
         \/ asg'.desired = 0 /\ by' \in Downs \cup {Guard}
<1> DEFINE P == \/ asg'.desired = asg.desired /\ by' = by
                \/ \E s \in Runs \cup Ups : /\ by' = s /\ pc[s] \in Responsible
                                            /\ asg'.desired = 0 => pc[s] \in {"restore", "release"}
                \/ asg'.desired = 0 /\ by' \in Downs \cup {Guard}
<1>0. asg \in Group /\ SetDesired(asg, 0).desired = 0 BY DEF TypeOK, SetDesired, Group
<1>1. ASSUME UNCHANGED <<asg, by>> PROVE P BY <1>1
<1>2. ASSUME NEW s \in Runs \cup Ups, SharedStep(s) PROVE P BY <1>2, SharedEffects
<1>3. ASSUME NEW r \in Runs, RunOnly(r) PROVE P
  <2>1. CASE Release(r) BY <1>0, <2>1 DEF Release, RequestFails, Request, Responsible
  <2>2. CASE ~Release(r)
    BY <1>1, <1>3, <2>2 DEF RunOnly, StartRun, Claim, Spawn, JobDone, Confirm, Finish, PutBack, awsVars
  <2> QED BY <2>1, <2>2
<1>4. ASSUME NEW d \in Downs, DownStep(d) PROVE P
  BY <1>0, <1>4 DEF DownStep, StartDown, Lower, RequestFails, Request, awsVars
<1>5. ASSUME IdleStop PROVE P BY <1>0, <1>5 DEF IdleStop, Request
<1>6. ASSUME Ec2Step PROVE P
  BY <1>0, <1>6 DEF Ec2Step, Ec2, Launch, EnterService, Withdraw, Terminated, Group
<1>7. ASSUME \/ \E s \in Sessions : Crash(s)
             \/ \E r \in Runs : TimerStep(r) \/ Signal(r) \/ JobProcessEnds(r)
             \/ \E h \in Hosts : RemoveStaleLock(h) \/ OtherStackSaves(h)
             \/ UNCHANGED vars
      PROVE  P
  BY <1>1, <1>7 DEF Crash, TimerStep, LimitFires, KillFires, Signal, JobProcessEnds, RemoveStaleLock,
     OtherStackSaves, awsVars, vars
<1>8. ASSUME NEW s \in Sessions, SessionStep(s) PROVE P
  <2> HIDE DEF P
  <2> QED BY <1>1, <1>2, <1>3, <1>4, <1>7, <1>8 DEF SessionStep, RunStep, UpStep
<1> HIDE DEF P
<1>9. P BY <1>5, <1>6, <1>7, <1>8 DEF Next
<1> QED BY <1>9 DEF P

(* A run becomes responsible by its claim, of a group that is off; and a run   *)
(* that has ended keeps what it knew.                                          *)
LEMMA RunMoves ==
  ASSUME TypeOK, UnownedEarly, [Next]_vars, NEW r \in Runs
  PROVE  /\ pc'[r] \in Responsible => pc[r] \in Responsible \/ (asg.desired = 0 /\ asg' = asg)
         /\ pc[r] = "done" => pc'[r] = "done" /\ prev'[r] = prev[r] /\ cleanup'[r] = cleanup[r]
<1> DEFINE P == /\ pc'[r] \in Responsible => pc[r] \in Responsible \/ (asg.desired = 0 /\ asg' = asg)
                /\ pc[r] = "done" => pc'[r] = "done" /\ prev'[r] = prev[r] /\ cleanup'[r] = cleanup[r]
<1> USE SessionAssumption
<1>0. /\ Runs \subseteq Sessions /\ Ups \subseteq Sessions /\ Downs \subseteq Sessions
      /\ pc \in [Sessions -> Labels] /\ asg \in Group /\ prev \in [Runs -> Targets]
      /\ (pc[r] \in Early => ~owned[r]) /\ cleanup \in [Runs -> {"not-needed", "ok", "failed"}]
  BY DEF TypeOK, Sessions, UnownedEarly
<1>1. ASSUME pc'[r] = pc[r], prev'[r] = prev[r], cleanup'[r] = cleanup[r] PROVE P BY <1>1
<1>2. ASSUME NEW s \in Runs \cup Ups, SharedStep(s), prev' = prev, cleanup' = cleanup PROVE P
  <2>1. PICK l \in Labels : pc' = [pc EXCEPT ![s] = l] BY <1>2, SharedMoves
  <2>2. CASE s # r BY <1>0, <1>1, <1>2, <2>1, <2>2
  <2>3. CASE s = r BY <1>2, <2>3, SharedMoves, SharedEffects
  <2> QED BY <2>2, <2>3
<1>3. ASSUME NEW q \in Runs, RunOnly(q) PROVE P
  <2>1. CASE StartRun(q)
    BY <1>0, <1>1, <2>1 DEF StartRun, Finished, Goto, Responsible
  <2>2. CASE Claim(q)
    BY <1>0, <1>1, <2>2 DEF Claim, Throw, Unwind, Proceed, Goto, Responsible, Busy, awsVars, runVars,
       Group, Early
  <2>3. CASE Spawn(q) \/ JobDone(q) \/ Release(q) \/ Confirm(q) \/ Finish(q) \/ PutBack(q)
    <3>1. prev' = prev /\ pc[q] # "done" /\ (pc[q] \in Responsible \/ pc'[q] \notin Responsible)
      BY <1>0, <2>3 DEF Spawn, JobDone, Release, Confirm, Finish, PutBack, Leave, CleanupFails, Goto, Responsible
    <3>2. \A p \in Runs \ {q} : pc'[p] = pc[p] /\ cleanup'[p] = cleanup[p]
      BY <1>0, <2>3 DEF Spawn, JobDone, Release, Confirm, Finish, PutBack, Leave, CleanupFails, Cancel, Unwind,
         Proceed, Goto
    <3> QED BY <1>1, <3>1, <3>2
  <2> QED BY <1>3, <2>1, <2>2, <2>3 DEF RunOnly
<1>4. ASSUME NEW s \in Sessions, Crash(s) PROVE P
  BY <1>0, <1>1, <1>4 DEF Crash, Goto, Responsible
<1>5. ASSUME NEW s \in Ups \cup Downs,
             ((StartUp(s) \/ CheckLock(s)) /\ UNCHANGED runVars) \/ DownStep(s)
      PROVE  P
  BY <1>0, <1>1, <1>5 DEF StartUp, CheckLock, DownStep, StartDown, Lower, Finished, Proceed, Goto, Throw, Unwind,
     runVars
<1>6. ASSUME \/ \E q \in Runs : TimerStep(q) \/ Signal(q) \/ JobProcessEnds(q)
             \/ \E h \in Hosts : RemoveStaleLock(h) \/ OtherStackSaves(h)
             \/ IdleStop \/ Ec2Step \/ UNCHANGED vars
      PROVE  P
  BY <1>1, <1>6 DEF TimerStep, LimitFires, KillFires, Signal, JobProcessEnds, RemoveStaleLock,
     OtherStackSaves, IdleStop, Ec2Step, runVars, vars
<1>7. ASSUME NEW s \in Sessions, SessionStep(s) PROVE P
  <2>1. UNCHANGED runVars => prev' = prev /\ cleanup' = cleanup BY DEF runVars
  <2> HIDE DEF P
  <2> QED BY <1>2, <1>3, <1>5, <1>6, <1>7, <2>1 DEF SessionStep, RunStep, UpStep
<1> HIDE DEF P
<1>8. P BY <1>4, <1>6, <1>7 DEF Next
<1> QED BY <1>8 DEF P

(* Without ups, and with every run on one host, the lock makes the capacity    *)
(* the business of one run.                                                    *)
OwnCapacity == \A r \in Runs : pc[r] \in Responsible /\ asg.desired = 1 => by = r

RunsOfOneHost == Ups = {} /\ \A q, r \in Runs : HostOf[q] = HostOf[r]

LEMMA OwnPreserved ==
  ASSUME RunsOfOneHost, TypeOK, LockInv, UnownedEarly, OwnCapacity, [Next]_vars
  PROVE  /\ OwnCapacity'
         /\ \A r \in Runs : asg.desired = 1 /\ asg'.desired = 0 /\ by' = r => by = r
<1> USE SessionAssumption
<1>0. asg.desired \in {0, 1} /\ Guard \notin Runs /\ Runs \cap Downs = {}
  BY DEF TypeOK, Group, Sessions
<1>1. \A q, r \in Runs : pc[q] \in Responsible /\ pc[r] \in Responsible => q = r
  <2>1. \A r \in Runs : pc[r] \in Responsible => lock[HostOf[r]] = r
    BY DEF LockInv, Working, Responsible
  <2> QED BY <2>1 DEF RunsOfOneHost
<1>2. CASE asg'.desired = asg.desired /\ by' = by
  <2> SUFFICES ASSUME NEW r \in Runs, pc'[r] \in Responsible, asg'.desired = 1 PROVE by' = r
    BY <1>0, <1>2 DEF OwnCapacity
  <2>1. pc[r] \in Responsible BY <1>2, RunMoves
  <2> QED BY <1>2, <2>1 DEF OwnCapacity
<1>3. ASSUME NEW s \in Runs, by' = s, pc[s] \in Responsible
      PROVE  /\ OwnCapacity'
             /\ \A r \in Runs : asg.desired = 1 /\ asg'.desired = 0 /\ by' = r => by = r
  <2>1. ASSUME NEW r \in Runs, pc'[r] \in Responsible, asg'.desired = 1 PROVE by' = r
    <3>1. CASE pc[r] \in Responsible BY <1>1, <1>3, <3>1
    <3>2. CASE asg.desired = 0 /\ asg' = asg BY <2>1, <3>2
    <3> QED BY <2>1, <3>1, <3>2, RunMoves
  <2>2. asg.desired = 1 => by = s BY <1>3 DEF OwnCapacity
  <2> QED BY <1>3, <2>1, <2>2 DEF OwnCapacity
<1>4. CASE asg'.desired = 0 /\ by' \in Downs \cup {Guard}
  BY <1>0, <1>4 DEF OwnCapacity
<1> QED BY <1>2, <1>3, <1>4, WhoChanges DEF RunsOfOneHost

(* A run stops only a GPU that it requested itself: any number of runs of one  *)
(* host, with downs, the guard, crashes and stale locks beside them.           *)
THEOREM StopsOnlyItsOwn ==
  ASSUME RunsOfOneHost
  PROVE  Spec => NoForeignStop
<1>1. Init => OwnCapacity BY DEF Init, OwnCapacity, EmptyGroup
<1>2. TypeOK /\ LockInv /\ UnownedEarly /\ OwnCapacity /\ [Next]_vars => OwnCapacity'
  BY OwnPreserved
<1>3. TypeOK /\ LockInv /\ UnownedEarly /\ OwnCapacity /\ [Next]_vars =>
        [\A r \in Runs : asg.desired = 1 /\ asg'.desired = 0 /\ by' = r => by = r]_vars
  BY OwnPreserved
<1> QED BY <1>1, <1>2, <1>3, RunInvariant, PTL DEF Spec, NoForeignStop

----------------------------------------------------------------------------
(* The recorded target.  From the save of its target to its end a session's   *)
(* file is good, whoever else writes it.                                       *)

Good(s) ==
  \/ stateFile[HostOf[s]] \in {"here"} \cup Unreadable
  \/ stateFile[HostOf[s]] = "other" /\ HostOf[s] \in BusyHosts
  \/ \E r \in Runs \ {s} : HostOf[r] = HostOf[s] /\ PutBackBy(r)

TargetInv ==
  /\ \A s \in Runs \cup Ups : pc[s] \in Saving \/ (asg.desired = 1 /\ by = s) => Good(s)
  /\ \A r \in Runs : pc[r] = "putback" => Restores(r)

(* Who writes state.json, and when a session may come to raise the capacity.   *)
LEMMA WhoSaves ==
  ASSUME TypeOK, UnownedEarly, TargetInv, [Next]_vars
  PROVE  /\ \/ stateFile' = stateFile
            \/ \E s \in Runs \cup Ups, t \in {"here"} \cup Unreadable : FileBecomes(s, t)
            \/ \E r \in Runs : pc[r] = "putback" /\ PutBackBy(r)' /\ FileBecomes(r, prev[r])
            \/ \E h \in BusyHosts, t \in {"other"} \cup Unreadable : stateFile' = [stateFile EXCEPT ![h] = t]
         /\ \A s \in Runs \cup Ups :
              pc'[s] \in Saving => pc[s] \in Saving \/ stateFile'[HostOf[s]] \in {"here"} \cup Unreadable
         /\ \A r \in Runs : pc'[r] = "putback" => Restores(r)'
<1> DEFINE Writers == \/ stateFile' = stateFile
                      \/ \E s \in Runs \cup Ups, t \in {"here"} \cup Unreadable : FileBecomes(s, t)
                      \/ \E r \in Runs : pc[r] = "putback" /\ PutBackBy(r)' /\ FileBecomes(r, prev[r])
                      \/ \E h \in BusyHosts, t \in {"other"} \cup Unreadable : stateFile' = [stateFile EXCEPT ![h] = t]
           Enters(s) == pc'[s] \in Saving => pc[s] \in Saving \/ stateFile'[HostOf[s]] \in {"here"} \cup Unreadable
           Puts(r) == pc'[r] = "putback" => Restores(r)'
           P == Writers /\ (\A s \in Runs \cup Ups : Enters(s)) /\ \A r \in Runs : Puts(r)
<1> USE SessionAssumption
<1>0. /\ Runs \subseteq Sessions /\ Ups \subseteq Sessions /\ Downs \subseteq Sessions
      /\ pc \in [Sessions -> Labels] /\ (\A r \in Runs : pc[r] \in Early => ~owned[r])
      /\ (\A r \in Runs : pc[r] = "putback" => Restores(r))
      /\ stateFile \in [Hosts -> Targets] /\ (\A s \in Runs \cup Ups : HostOf[s] \in Hosts)
  BY DEF TypeOK, Sessions, UnownedEarly, TargetInv
<1>a. ASSUME UNCHANGED <<prev, cleanup>>, NEW r \in Runs, pc'[r] = "putback" => pc[r] = "putback" PROVE Puts(r)
  BY <1>0, <1>a DEF Restores
<1>1. ASSUME UNCHANGED <<pc, stateFile, prev, cleanup>> PROVE P BY <1>1, <1>a
<1>2. ASSUME NEW s \in Runs \cup Ups, SharedStep(s), UNCHANGED <<prev, cleanup>> PROVE P
  <2>1. PICK l \in Labels : pc' = [pc EXCEPT ![s] = l] BY <1>2, SharedMoves
  <2>2. Writers /\ Enters(s) BY <1>2, SharedEffects
  <2>3. ASSUME NEW q \in Runs \cup Ups, q # s PROVE Enters(q)
    <3>1. pc'[q] = pc[q] BY <1>0, <2>1, <2>3
    <3> QED BY <3>1
  <2>4. s \in Runs => pc'[s] # "putback" BY <1>2, SharedPutsNothing
  <2>5. \A r \in Runs : Puts(r) BY <1>0, <1>2, <1>a, <2>1, <2>4
  <2> QED BY <2>2, <2>3, <2>5
<1>3. ASSUME NEW r \in Runs, RunOnly(r) PROVE P
  <2>0. \A q \in Sessions \ {r} : pc'[q] = pc[q]
    BY <1>0, <1>3 DEF RunOnly, StartRun, Claim, Spawn, JobDone, Release, Confirm, Finish, PutBack, Leave, CleanupFails,
       Finished, Goto, Proceed, Throw, Cancel, Unwind
  <2>1. CASE Finish(r)
    <3>1. pc'[r] \in {"putback", "done"} /\ UNCHANGED <<prev, cleanup>>
          /\ pc[r] = "finish" /\ (pc'[r] = "putback" => Restores(r))
      BY <1>0, <2>1 DEF Finish, Leave, Goto
    <3>2. Writers BY <2>1 DEF Finish, Opened, Unreadable
    <3>3. Enters(r) BY <3>1 DEF Saving, Responsible
    <3>4. Puts(r) BY <3>1 DEF Restores
    <3>5. \A q \in Runs : Puts(q) BY <1>0, <1>a, <2>0, <3>1, <3>4
    <3> QED BY <1>0, <2>0, <3>2, <3>3, <3>5
  <2>2. CASE PutBack(r)
    <3>1. pc'[r] = "done" /\ UNCHANGED <<prev, cleanup>> /\ pc[r] = "putback"
      BY <1>0, <2>2 DEF PutBack, Leave, Goto
    <3>2. stateFile' = stateFile \/ FileBecomes(r, prev[r]) \/ FileBecomes(r, "torn")
      BY <2>2 DEF PutBack, Written, WriteFails
    <3>3. FileBecomes(r, prev[r]) => PutBackBy(r)'
      BY <1>0, <3>1 DEF FileBecomes, PutBackBy, Restores
    <3>4. Writers BY <3>1, <3>2, <3>3 DEF Unreadable
    <3>5. Enters(r) BY <3>1 DEF Saving, Responsible
    <3>6. \A q \in Runs : Puts(q) BY <1>0, <1>a, <2>0, <3>1
    <3> QED BY <1>0, <2>0, <3>4, <3>5, <3>6
  <2>3. CASE StartRun(r) \/ Claim(r) \/ Spawn(r) \/ JobDone(r) \/ Release(r) \/ Confirm(r)
    <3>1. stateFile' = stateFile
      BY <2>3 DEF StartRun, Claim, Spawn, JobDone, Release, Confirm, hostVars
    <3>2. (pc'[r] \in Saving => pc[r] \in Saving) /\ pc'[r] # "putback"
      BY <1>0, <2>3 DEF StartRun, Claim, Spawn, JobDone, Release, Confirm, CleanupFails, Finished, Goto, Proceed,
         Throw, Cancel, Unwind, Saving, Responsible, Early
    <3>3. \A q \in Runs \ {r} : prev'[q] = prev[q] /\ cleanup'[q] = cleanup[q]
      BY <2>3 DEF StartRun, Claim, Spawn, JobDone, Release, Confirm, CleanupFails, runVars, TypeOK
    <3>4. \A q \in Runs : Puts(q) BY <1>0, <2>0, <3>2, <3>3 DEF Restores
    <3> QED BY <1>0, <2>0, <3>1, <3>2, <3>4
  <2> QED BY <1>3, <2>1, <2>2, <2>3 DEF RunOnly
<1>4. ASSUME NEW s \in Sessions, Crash(s) PROVE P
  <2>1. /\ stateFile' = stateFile /\ pc' = [pc EXCEPT ![s] = "crashed"] /\ cleanup' = cleanup
        /\ \A q \in Runs \ {s} : prev'[q] = prev[q]
    BY <1>4 DEF Crash, Goto, hostVars, TypeOK
  <2>2. \A q \in Runs : Puts(q) BY <1>0, <2>1 DEF Restores
  <2> QED BY <1>0, <2>1, <2>2 DEF Saving, Responsible
<1>5. ASSUME NEW u \in Ups, StartUp(u) \/ CheckLock(u), UNCHANGED runVars PROVE P
  <2>1. /\ stateFile' = stateFile /\ UNCHANGED <<prev, cleanup>>
        /\ (pc' = [pc EXCEPT ![u] = "lockcheck"] \/ pc' = [pc EXCEPT ![u] = "outputs"] \/ pc' = [pc EXCEPT ![u] = "done"])
    BY <1>5 DEF StartUp, CheckLock, Proceed, Goto, Throw, Unwind, runVars
  <2>2. \A q \in Runs : Puts(q) BY <1>0, <1>a, <2>1
  <2> QED BY <1>0, <2>1, <2>2 DEF Saving, Responsible
<1>6. ASSUME NEW d \in Downs, DownStep(d) PROVE P
  <2>1. /\ stateFile' = stateFile /\ UNCHANGED <<prev, cleanup>> /\ \A q \in Runs \cup Ups : pc'[q] = pc[q]
    BY <1>0, <1>6 DEF DownStep, StartDown, Lower, Finished, Goto, hostVars, runVars
  <2>2. \A q \in Runs : Puts(q) BY <1>0, <1>a, <2>1
  <2> QED BY <1>0, <2>1, <2>2
<1>7. ASSUME \/ \E q \in Runs : TimerStep(q) \/ Signal(q) \/ JobProcessEnds(q)
             \/ \E h \in Hosts : RemoveStaleLock(h)
             \/ IdleStop \/ Ec2Step \/ UNCHANGED vars
      PROVE  P
  BY <1>1, <1>7 DEF TimerStep, LimitFires, KillFires, Signal, JobProcessEnds, RemoveStaleLock,
     IdleStop, Ec2Step, hostVars, runVars, vars
<1>8. ASSUME NEW h \in Hosts, OtherStackSaves(h) PROVE P
  <2>1. UNCHANGED <<pc, prev, cleanup>> /\ Writers BY <1>8 DEF OtherStackSaves, runVars
  <2>2. \A q \in Runs : Puts(q) BY <1>a, <2>1
  <2> QED BY <2>1, <2>2
<1>9. ASSUME NEW s \in Sessions, SessionStep(s) PROVE P
  <2>1. UNCHANGED runVars => UNCHANGED <<prev, cleanup>> BY DEF runVars
  <2> HIDE DEF P
  <2> QED BY <1>2, <1>3, <1>5, <1>6, <1>7, <1>9, <2>1 DEF SessionStep, RunStep, UpStep
<1> HIDE DEF P
<1>10. P BY <1>4, <1>7, <1>8, <1>9 DEF Next
<1> QED BY <1>10 DEF P

LEMMA TargetPreserved ==
  ASSUME TypeOK, LeakInv, UnownedEarly, TargetInv, [Next]_vars
  PROVE  TargetInv'
<1> USE SessionAssumption
<1>0. /\ stateFile \in [Hosts -> Targets] /\ (\A s \in Runs \cup Ups : HostOf[s] \in Hosts) /\ asg.desired \in {0, 1}
      /\ (\A s \in Runs \cup Ups : s \notin Downs \cup {Guard}) /\ Runs \cap Ups = {}
  BY DEF TypeOK, Sessions, Group
<1>1. ASSUME NEW s \in Runs \cup Ups, pc[s] \in Saving \/ (asg.desired = 1 /\ by = s)
      PROVE  Good(s)'
  <2>1. Good(s) BY <1>1 DEF TargetInv
  <2>2. CASE stateFile'[HostOf[s]] = stateFile[HostOf[s]]
    <3>1. \A r \in Runs : HostOf[r] = HostOf[s] /\ PutBackBy(r) => PutBackBy(r)'
      BY <2>2, RunMoves DEF PutBackBy, Restores
    <3> QED BY <2>1, <2>2, <3>1 DEF Good
  <2>3. ASSUME NEW t \in {"here"} \cup Unreadable, stateFile'[HostOf[s]] = t PROVE Good(s)'
    BY <2>3 DEF Good
  <2>4. ASSUME NEW r \in Runs, pc[r] = "putback", PutBackBy(r)', HostOf[r] = HostOf[s] PROVE Good(s)'
    <3>1. r # s
      <4>1. cleanup[r] # "failed" BY <2>4 DEF TargetInv, Restores
      <4> QED BY <1>1, <2>4, <4>1 DEF LeakInv, Saving, Responsible
    <3> QED BY <2>4, <3>1 DEF Good
  <2>5. ASSUME HostOf[s] \in BusyHosts, stateFile'[HostOf[s]] = "other" PROVE Good(s)' BY <2>5 DEF Good
  <2> QED BY <1>0, <2>2, <2>3, <2>4, <2>5, WhoSaves DEF FileBecomes
<1>2. ASSUME NEW s \in Runs \cup Ups, pc'[s] \in Saving \/ (asg'.desired = 1 /\ by' = s)
      PROVE  Good(s)'
  <2>1. asg'.desired = 1 /\ by' = s => pc[s] \in Saving \/ (asg.desired = 1 /\ by = s)
    BY <1>0, WhoChanges DEF Saving
  <2>2. pc'[s] \in Saving => pc[s] \in Saving \/ stateFile'[HostOf[s]] \in {"here"} \cup Unreadable
    BY WhoSaves
  <2>3. CASE pc[s] \in Saving \/ (asg.desired = 1 /\ by = s) BY <1>1, <2>3
  <2>4. CASE stateFile'[HostOf[s]] \in {"here"} \cup Unreadable BY <2>4 DEF Good
  <2> QED BY <1>2, <2>1, <2>2, <2>3, <2>4
<1> QED BY <1>2, WhoSaves DEF TargetInv

(* On every host, whichever sessions share it and wherever they are cut short, *)
(* a GPU requested by a run or an up is one that the host's tkf down finds, or *)
(* cannot look for because state.json cannot be parsed; the file names another *)
(* target only after a session of another stack saved its own, or after        *)
(* another run of the host put back its older snapshot.                        *)
THEOREM TargetIsRecorded == Spec => []TargetRecorded
<1>1. Init => TargetInv
  <2> SUFFICES ASSUME Init PROVE TargetInv OBVIOUS
  <2>1. \A s \in Runs \cup Ups : pc[s] = "idle" BY DEF Init, Sessions
  <2>2. asg.desired = 0 BY DEF Init, EmptyGroup
  <2> QED BY <2>1, <2>2 DEF TargetInv, Saving, Responsible
<1>2. TypeOK /\ LeakInv /\ UnownedEarly /\ TargetInv /\ [Next]_vars => TargetInv'
  BY TargetPreserved
<1>3. TargetInv => TargetRecorded BY DEF TargetInv, TargetRecorded, Good
<1> QED BY <1>1, <1>2, <1>3, RunInvariant, PTL DEF Spec
=============================================================================
