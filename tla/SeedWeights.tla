----------------------------- MODULE SeedWeights -----------------------------
(***************************************************************************)
(* The weight cache of one model in one bucket: scripts/seed-weights.sh,   *)
(* the seeder instance it launches, and the weights job of a booting GPU   *)
(* instance (boot.sh prepare_weights), which copies a complete cache and   *)
(* otherwise downloads the weights and fills the cache itself.             *)
(***************************************************************************)
EXTENDS Naturals

CONSTANTS Files,      \* the weight files of the model
          Marker,     \* the key .complete
          Scripts,    \* invocations of seed-weights.sh, on any host
          Boots,      \* GPU instances, each booted once
          NoSeeder,
          MaxPolls    \* 360 in the code

ASSUME FilesAssumption == Marker \notin Files
ASSUME PollsAssumption == MaxPolls \in Nat \ {0}

VARIABLES bucket,     \* the keys that are visible
          script,     \* per invocation: [pc, seeder, polls, exit]
          machine     \* per instance: [pc, disk, sent, tries]

vars == <<bucket, script, machine>>

Markets == {"spot", "ondemand"}
Seeders == Scripts \X Markets
Machines == Seeders \cup Boots

NoMachine == [pc |-> "off", disk |-> {}, sent |-> {}, tries |-> 0]

Init ==
  /\ bucket = {}
  /\ script = [p \in Scripts |-> [pc |-> "begin", seeder |-> NoSeeder, polls |-> 0, exit |-> "none"]]
  /\ machine = [m \in Machines |-> NoMachine]

----------------------------------------------------------------------------
(* The instances *)

Becomes(m, r) == machine' = [machine EXCEPT ![m] = r]
Goes(m, l) == Becomes(m, [machine[m] EXCEPT !.pc = l])

\* The end of an instance's work, after which its disk does not matter
Left(m, l) == Becomes(m, [NoMachine EXCEPT !.pc = l])

\* Fault: a seeder whose command failed stays up.
NoTrap(m) == Left(m, "failed")

\* A command failed under set -e: the trap of a seeder shuts it down, a GPU instance
\* stays unhealthy.
Fails(m) == Left(m, IF m \in Seeders THEN "shutdown" ELSE "failed")

\* Fault: any key of the prefix counts as a cache.
PartialHit == bucket # {}

\* head-object on the marker, in the boot and in the script; a call that fails is
\* taken for a miss.
CacheHit == Marker \in bucket
Hit == Marker \in bucket

BootChecks(b) ==
  /\ machine[b].pc = "off" /\ UNCHANGED <<bucket, script>>
  /\ \/ CacheHit /\ Goes(b, "copy")
     \/ Goes(b, "fetch")

\* s5cmd cp of the whole prefix; it lists the keys once.
BootCopies(b) ==
  /\ machine[b].pc = "copy" /\ UNCHANGED <<bucket, script>>
  /\ \/ Becomes(b, [machine[b] EXCEPT !.disk = bucket \cap Files, !.pc = "ready"])
     \/ Fails(b)

\* The download from Hugging Face: once in a seeder, three attempts in a boot.
Attempts(m) == IF m \in Seeders THEN 1 ELSE 3

Fetch(m) ==
  /\ machine[m].pc = "fetch" /\ UNCHANGED <<bucket, script>>
  /\ LET n == machine[m].tries + 1 IN
       \/ Becomes(m, [machine[m] EXCEPT !.disk = Files, !.tries = n, !.pc = "upload"])
       \/ n < Attempts(m) /\ Becomes(m, [machine[m] EXCEPT !.tries = n])
       \/ n = Attempts(m) /\ Fails(m)

\* One file of the upload becomes visible; the order is free.
Upload(m) ==
  /\ machine[m].pc = "upload" /\ UNCHANGED script
  /\ \E f \in machine[m].disk \ machine[m].sent :
       /\ bucket' = bucket \cup {f}
       /\ Becomes(m, [machine[m] EXCEPT !.sent = @ \cup {f}])

\* Fault: the exit status of the upload is not looked at.
StatusIgnored(m) == TRUE

UploadComplete(m) == machine[m].sent = machine[m].disk

\* s5cmd ends, with an error unless every file was stored.
UploadEnds(m) ==
  /\ machine[m].pc = "upload" /\ UNCHANGED <<bucket, script>>
  /\ \/ UploadComplete(m) /\ Goes(m, "mark")
     \/ Fails(m)

\* The marker, last; the copy may fail with or without effect.
Mark(m) ==
  /\ machine[m].pc = "mark" /\ UNCHANGED script
  /\ \/ bucket' = bucket \cup {Marker}
        /\ IF m \in Seeders THEN Left(m, "shutdown") ELSE Goes(m, "ready")
     \/ bucket' \in {bucket, bucket \cup {Marker}} /\ Fails(m)

\* The instance is set to terminate on shutdown.
Terminate(m) == machine[m].pc = "shutdown" /\ Left(m, "terminated") /\ UNCHANGED <<bucket, script>>

\* A spot interruption, or an operator
Interrupt(m) == /\ machine[m].pc \notin {"off", "terminated"} /\ Left(m, "terminated")
                /\ UNCHANGED <<bucket, script>>

MachineStep(m) ==
  \/ m \in Boots /\ (BootChecks(m) \/ BootCopies(m))
  \/ Fetch(m) \/ Upload(m) \/ UploadEnds(m) \/ Mark(m) \/ Terminate(m)

----------------------------------------------------------------------------
(* The script *)

Turns(p, r) == script' = [script EXCEPT ![p] = r]
Exits(p, e) == Turns(p, [script[p] EXCEPT !.pc = "done", !.exit = e])

\* The marker may be there already; otherwise the instance profile and the image
\* are looked up, which may fail.
Begin(p) ==
  /\ script[p].pc = "begin" /\ UNCHANGED <<bucket, machine>>
  /\ \/ Hit /\ Exits(p, "zero")
     \/ Turns(p, [script[p] EXCEPT !.pc = "spot"])
     \/ Exits(p, "error")

\* run-instances: answered, or failed with or without an instance.  A failed spot
\* request is followed by an on-demand one.
RunInstance(p, market) ==
  /\ script[p].pc = market /\ UNCHANGED bucket
  /\ LET s == <<p, market>>
         started == [machine EXCEPT ![s].pc = "fetch"]
     IN \/ /\ machine' = started
           /\ Turns(p, [script[p] EXCEPT !.pc = "poll", !.seeder = s])
        \/ /\ machine' \in {machine, started}
           /\ IF market = "spot" THEN Turns(p, [script[p] EXCEPT !.pc = "ondemand"])
                                 ELSE Exits(p, "error")

Poll(p) ==
  /\ script[p].pc = "poll" /\ UNCHANGED <<bucket, machine>>
  /\ \/ Hit /\ Exits(p, "zero")
     \/ Turns(p, [script[p] EXCEPT !.pc = "state"])

NextTurn(p) == script[p].polls + 1
LastPoll(p) == NextTurn(p) = MaxPolls

\* Exit status 1 with the reason of the termination
Verdict(p) == "gone"

\* describe-instances, which may fail, and the end of the turn.  The script does not
\* terminate a seeder it gives up on.
LookAtSeeder(p) ==
  /\ script[p].pc = "state" /\ UNCHANGED <<bucket, machine>>
  /\ \/ machine[script[p].seeder].pc = "terminated" /\ Exits(p, Verdict(p))
     \/ LastPoll(p) /\ Exits(p, "late")
     \/ ~LastPoll(p) /\ Turns(p, [script[p] EXCEPT !.pc = "poll", !.polls = NextTurn(p)])

Crash(p) == script[p].pc # "done" /\ Exits(p, "killed") /\ UNCHANGED <<bucket, machine>>

ScriptStep(p) == Begin(p) \/ (\E k \in Markets : RunInstance(p, k)) \/ Poll(p) \/ LookAtSeeder(p)

Next == \/ \E p \in Scripts : ScriptStep(p) \/ Crash(p)
        \/ \E m \in Machines : MachineStep(m) \/ Interrupt(m)

Spec == Init /\ [][Next]_vars

\* The commands of an instance end.
FairSpec == /\ Spec
            /\ \A s \in Seeders : WF_vars(MachineStep(s))
----------------------------------------------------------------------------
(* Properties *)

\* The marker is visible only when every weight file is, whichever of several
\* uploaders, interrupted anywhere, wrote it (boot.sh:45-47, seed-weights.sh:72-74).
MarkerComplete == Marker \in bucket => Files \subseteq bucket

\* Whoever trusts the marker is right: a GPU instance that goes on to start its
\* container has every weight file, from the cache or from the origin, and a script
\* that reports success leaves a complete cache (boot.sh:25-47, seed-weights.sh:33,97).
MarkerTrusted ==
  /\ \A b \in Boots : machine[b].pc = "ready" => machine[b].disk = Files
  /\ \A p \in Scripts : script[p].exit = "zero" => {Marker} \cup Files \subseteq bucket

\* Every seeder disappears, also one whose launch was not answered or whose script
\* was killed (the trap and the shutdown behaviour in seed-weights.sh:51,81).
SeedersGo == \A s \in Seeders : machine[s].pc # "off" ~> machine[s].pc = "terminated"
=============================================================================
