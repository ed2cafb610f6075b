----------------------------- MODULE UpSession ------------------------------
(***************************************************************************)
(* The part of a tkf session that `tkf up` and `tkf run` share: the        *)
(* preparation of the stack (ensureStackReady) and the wait for the        *)
(* endpoint (waitReady), with runUp around them.  All sessions work on one *)
(* stack of one region.  pc names the remote call a session is about to    *)
(* make; between two calls the program runs without interruption.          *)
(***************************************************************************)
EXTENDS Asg

CONSTANTS Runs, Ups, Downs,   \* the sessions: processes of tkf run, tkf up, tkf down
          Hosts, HostOf,      \* the hosts, and the host of each session
          UpPolicy,           \* the usage policy each tkf up asks for
          StartStacks,        \* what the stack may be when the sessions begin
          MaxPolls            \* iterations of the wait loop before its deadline

Sessions == Runs \cup Ups \cup Downs

\* "interactive" is the default policy, "custom" an interactive one with another
\* idle window, "legacy" a stack deployed before outputs recorded a mode.
Policies == {"batch", "interactive", "custom", "online"}
StackStates == Policies \cup {"legacy", "absent"}

\* What ~/.token-forge/state.json holds: no file, this stack, another one, or text
\* that JSON.parse refuses, because a save emptied the file and wrote nothing yet,
\* or because a write was cut short or mixed with another.
Targets == {"none", "here", "other", "empty", "torn"}
Unreadable == {"empty", "torn"}

ASSUME SessionAssumption ==
  /\ Runs \cap Ups = {} /\ Runs \cap Downs = {} /\ Ups \cap Downs = {}
  /\ Nobody \notin Sessions /\ Guard \notin Sessions /\ Nobody # Guard
  /\ HostOf \in [Sessions -> Hosts]
  /\ UpPolicy \in [Ups -> Policies \ {"batch"}]
  /\ StartStacks \subseteq StackStates
  /\ MaxPolls \in Nat \ {0}

VARIABLES stack,      \* the deployed policy (the stack's outputs)
          lock,       \* per host: the run named in the stack's lock file
          stateFile,  \* per host: state.json
          pc, seen,   \* per session: next call; outputs read by ensureStackReady
          polls, forbidden,  \* per session: loop iterations, consecutive 403s
          owned,      \* per session: runBatch's asgName is set
          cancelled,  \* per session: a signal was handled
          exit        \* per session: exit status

locals == <<seen, polls, forbidden>>
hostVars == <<lock, stateFile>>

Policy(s) == IF s \in Runs THEN "batch" ELSE UpPolicy[s]

Goto(s, l) == pc' = [pc EXCEPT ![s] = l]

Finished(s, e) == /\ exit' = [exit EXCEPT ![s] = e]
                  /\ pc' = [pc EXCEPT ![s] = "done"]

\* The local variables of ensureStackReady and waitReady end with the call.
LocalsEnd(s) == /\ seen' = [seen EXCEPT ![s] = "absent"]
                /\ polls' = [polls EXCEPT ![s] = 0]
                /\ forbidden' = [forbidden EXCEPT ![s] = 0]

\* Fault: the run takes responsibility for the capacity only after waitReady.
UnwindLateOwner(s, e) ==
  /\ LocalsEnd(s)
  /\ exit' = [exit EXCEPT ![s] = e]
  /\ Goto(s, IF s \notin Runs THEN "done"
             ELSE IF owned[s] /\ pc[s] = "key" THEN "release" ELSE "finish")

\* An error or a cancellation: a run that owns the capacity goes on to release
\* it, one that does not goes on to its finally block, an up ends.
Unwind(s, e) ==
  /\ LocalsEnd(s)
  /\ exit' = [exit EXCEPT ![s] = e]
  /\ Goto(s, IF s \notin Runs THEN "done" ELSE IF owned[s] THEN "release" ELSE "finish")

Throw(s) == Unwind(s, "one")
Cancel(s) == Unwind(s, "signal")

\* No error: the session goes on to its next call l.
Proceed(s, l) == Goto(s, l) /\ UNCHANGED <<locals, exit>>

\* saveState writes the file in place.  Opening it empties it; the text follows in
\* a step of its own, in which it may run into what another session has written
\* since, or fail and leave a part of itself.
FileBecomes(s, t) == stateFile' = [stateFile EXCEPT ![HostOf[s]] = t]

Opened(s) == FileBecomes(s, "empty")

Written(s, t) == \/ FileBecomes(s, t)
                 \/ stateFile[HostOf[s]] # "empty" /\ FileBecomes(s, "torn")

WriteFails(s) == UNCHANGED stateFile \/ FileBecomes(s, "torn")

\* The first half of a save; its second half is the session's next step l.
Saves(s, l) == \/ Opened(s) /\ Proceed(s, l)
               \/ Throw(s) /\ UNCHANGED stateFile

\* Fault: the target is recorded only once the endpoint is READY.
RecordLater(s) == Proceed(s, "weights") /\ UNCHANGED stateFile

\* The stack is ensured: saveState({model, profile, region}).
Record(s) == Saves(s, "write")

----------------------------------------------------------------------------
(* ensureStackReady.  An action of this module names what it changes of the
   session and of its host; SharedStep below adds what all of them leave alone. *)

StartUp(u) == pc[u] = "idle" /\ Proceed(u, "lockcheck") /\ UNCHANGED stateFile

CheckLock(u) ==
  /\ pc[u] = "lockcheck" /\ UNCHANGED stateFile
  /\ \/ lock[HostOf[u]] # Nobody /\ Throw(u)
     \/ lock[HostOf[u]] = Nobody /\ Proceed(u, "outputs")

\* policyMatchesOutputs, or the legacy stack that takes a default request as it is
Agrees(s, o) == o = Policy(s) \/ (o = "legacy" /\ Policy(s) = "interactive")

\* Outputs o were read and ownership is settled: use the stack, refuse one
\* whose settings are unknown, or update it.
Reconcile(s, o) ==
  \/ Agrees(s, o) /\ Record(s)
  \/ ~Agrees(s, o) /\ o = "legacy" /\ Throw(s) /\ UNCHANGED stateFile
  \/ ~Agrees(s, o) /\ o # "legacy" /\ Proceed(s, "deploy") /\ UNCHANGED stateFile

ReadOutputs(s) ==
  /\ pc[s] = "outputs"
  /\ \/ stack = "absent" /\ Proceed(s, "deploy") /\ UNCHANGED stateFile
     \/ /\ stack # "absent" /\ "batch" \in {Policy(s), stack}
        /\ seen' = [seen EXCEPT ![s] = stack]
        /\ Goto(s, "ownership") /\ UNCHANGED <<stateFile, polls, forbidden, exit>>
     \/ stack # "absent" /\ "batch" \notin {Policy(s), stack} /\ Reconcile(s, stack)

CheckOwnership(s) ==
  /\ pc[s] = "ownership"
  /\ \/ Busy(asg) /\ Throw(s) /\ UNCHANGED stateFile
     \/ ~Busy(asg) /\ Reconcile(s, seen[s])

\* cdk deploy with minCapacity=0; the template may or may not touch the minimum.
Deploy(s) ==
  /\ pc[s] = "deploy" /\ Proceed(s, "verify")
  /\ stack' = Policy(s)
  /\ \E m \in {0, asg.min} : asg' = [asg EXCEPT !.min = m]
  /\ UNCHANGED <<by, stateFile>>

Verify(s) ==
  /\ pc[s] = "verify"
  /\ \/ Agrees(s, stack) /\ Record(s)
     \/ ~Agrees(s, stack) /\ Throw(s) /\ UNCHANGED stateFile

Write(s) == /\ pc[s] = "write"
            /\ \/ Written(s, "here") /\ Proceed(s, "weights")
               \/ WriteFails(s) /\ Throw(s)

\* The weights are there, or seed-weights.sh succeeded.  A run looks at its
\* cancellation before it goes on.
Weights(s) ==
  /\ pc[s] = "weights" /\ UNCHANGED stateFile
  /\ \/ cancelled[s] /\ Cancel(s)
     \/ /\ ~cancelled[s]
        /\ Goto(s, IF s \in Runs THEN "claim" ELSE "raise")
        /\ LocalsEnd(s) /\ UNCHANGED exit

----------------------------------------------------------------------------
(* waitReady *)

Raise(s) ==
  /\ pc[s] = "raise" /\ UNCHANGED <<stack, stateFile>>
  /\ \/ Request(s, SetDesired(asg, 1)) /\ Proceed(s, "secret")
     \/ RequestFails(s, SetDesired(asg, 1)) /\ Throw(s)

Secret(s) == pc[s] = "secret" /\ Proceed(s, "probe") /\ UNCHANGED stateFile

\* READY: a run goes on with its job unless it was cancelled, an up saves its
\* target once more (Rewrite) and ends.
Ready(s) ==
  \/ s \in Runs /\ cancelled[s] /\ Cancel(s) /\ UNCHANGED stateFile
  \/ s \in Runs /\ ~cancelled[s] /\ LocalsEnd(s) /\ Goto(s, "key") /\ UNCHANGED <<stateFile, exit>>
  \/ s \in Ups /\ Opened(s) /\ LocalsEnd(s) /\ Goto(s, "rewrite") /\ UNCHANGED exit
  \/ s \in Ups /\ UNCHANGED stateFile /\ Throw(s)

Rewrite(u) ==
  /\ u \in Ups /\ pc[u] = "rewrite" /\ UNCHANGED locals
  /\ \/ Written(u, "here") /\ Finished(u, "zero")
     \/ WriteFails(u) /\ Finished(u, "one")

\* The endpoint answers 200 only from an instance in service.
Probe200(s) ==
  /\ pc[s] = "probe" /\ polls[s] < MaxPolls /\ "InService" \in asg.inst
  /\ \/ Policy(s) = "online" /\ Proceed(s, "pin") /\ UNCHANGED stateFile
     \/ Policy(s) # "online" /\ Ready(s)

Pin(s) ==
  /\ pc[s] = "pin" /\ UNCHANGED stack
  /\ \/ Request(s, SetCapacity(asg, 1, 1)) /\ Ready(s)
     \/ RequestFails(s, SetCapacity(asg, 1, 1)) /\ Throw(s) /\ UNCHANGED stateFile

\* Any other answer, a 403 or not; the third 403 in a row ends the wait.
ProbeElse(s) ==
  /\ pc[s] = "probe" /\ polls[s] < MaxPolls
  /\ \/ /\ forbidden' = [forbidden EXCEPT ![s] = @ + 1]
        /\ Goto(s, IF forbidden[s] >= 2 THEN "restore" ELSE "status")
     \/ forbidden' = [forbidden EXCEPT ![s] = 0] /\ Goto(s, "status")
  /\ UNCHANGED <<stateFile, seen, polls, exit>>

Status(s) == /\ pc[s] = "status" /\ UNCHANGED stateFile
             /\ Proceed(s, IF asg.desired = 0 THEN "recover" ELSE "sleep")

\* "idle demotion detected": raise it again
Recover(s) ==
  /\ pc[s] = "recover" /\ UNCHANGED <<stack, stateFile>>
  /\ \/ Request(s, SetDesired(asg, 1)) /\ Proceed(s, "sleep")
     \/ RequestFails(s, SetDesired(asg, 1)) /\ Throw(s)

\* 15 seconds less until the deadline
Tick(s) == polls' = [polls EXCEPT ![s] = @ + 1]

\* A run's sleep is cut short by a signal (abortableSleep).
Sleep(s) ==
  /\ pc[s] = "sleep" /\ UNCHANGED stateFile
  /\ \/ cancelled[s] /\ Cancel(s)
     \/ ~cancelled[s] /\ Goto(s, "probe") /\ Tick(s) /\ UNCHANGED <<seen, forbidden, exit>>

\* The loop's deadline: at the latest after MaxPolls iterations, or earlier
\* when the calls of an iteration were slow.
Deadline(s) == pc[s] = "probe" /\ polls[s] > 0 /\ Proceed(s, "restore") /\ UNCHANGED stateFile

\* The cost guard of the two failures waitReady foresees; an error is tolerated.
Restore(s) == /\ pc[s] = "restore" /\ UNCHANGED <<stack, stateFile>>
              /\ RequestFails(s, SetDesired(asg, 0)) /\ Throw(s)

\* Any read call may throw, and so may cdk deploy and seed-weights.sh.
CallThrows(s) ==
  /\ pc[s] \in {"outputs", "ownership", "deploy", "verify", "weights", "claim",
                "secret", "status", "key"}
  /\ Throw(s) /\ UNCHANGED stateFile

Reads(s) == \/ ReadOutputs(s) \/ CheckOwnership(s) \/ Verify(s) \/ Write(s) \/ Weights(s)
            \/ Secret(s) \/ Probe200(s) \/ ProbeElse(s) \/ Status(s)
            \/ Rewrite(s) \/ Sleep(s) \/ Deadline(s) \/ CallThrows(s)

Writes(s) == Deploy(s) \/ Raise(s) \/ Pin(s) \/ Recover(s) \/ Restore(s)

SharedStep(s) == /\ (Reads(s) /\ UNCHANGED <<asg, by, stack>>) \/ Writes(s)
                 /\ UNCHANGED <<lock, owned, cancelled>>

UpStep(u) == \/ SharedStep(u)
             \/ (StartUp(u) \/ CheckLock(u)) /\ UNCHANGED <<asg, by, stack, lock, owned, cancelled>>
=============================================================================
