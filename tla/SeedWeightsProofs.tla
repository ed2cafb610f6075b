--------------------------- MODULE SeedWeightsProofs ---------------------------
(***************************************************************************)
(* The marker of the weight cache can be trusted, for every set of files,  *)
(* scripts and instances: it is visible only when every file is.           *)
(***************************************************************************)
EXTENDS SeedWeights, TLAPS

Places == {"off", "copy", "fetch", "upload", "mark", "ready", "failed", "shutdown", "terminated"}
Turn == {"begin", "poll", "state", "done"} \cup Markets
Exit == {"none", "zero", "gone", "late", "error", "killed"}

MachineState == [pc : Places, disk : SUBSET Files, sent : SUBSET Files, tries : Nat]
ScriptState == [pc : Turn, seeder : Seeders \cup {NoSeeder}, polls : Nat, exit : Exit]

CacheTypes ==
  /\ machine \in [Machines -> MachineState]
  /\ script \in [Scripts -> ScriptState]

\* What one instance knows of the cache, when `keys` are visible
Sound(m, keys) ==
  /\ m.sent \subseteq keys
  /\ m.pc \in {"upload", "mark", "ready"} => m.disk = Files
  /\ m.pc = "copy" => Marker \in keys
  /\ m.pc = "mark" => Files \subseteq keys

\* What one invocation of the script knows of it
Honest(s, keys) == s.exit = "zero" => Marker \in keys

Inv ==
  /\ CacheTypes /\ MarkerComplete
  /\ \A m \in Machines : Sound(machine[m], bucket)
  /\ \A p \in Scripts : Honest(script[p], bucket)

LEMMA InitInv == Init => Inv
  BY DEF Init, Inv, CacheTypes, MachineState, ScriptState, Places, Turn, Exit, NoMachine, MarkerComplete, Sound, Honest

\* A step of one instance keeps the invariant when what it becomes is sound, the
\* cache only grows, and a new marker finds all files.
LEMMA MachineKeeps ==
  ASSUME Inv, NEW m \in Machines, NEW r \in MachineState, Becomes(m, r), UNCHANGED script,
         bucket \subseteq bucket', MarkerComplete', Sound(r, bucket')
  PROVE  Inv'
<1>1. machine' \in [Machines -> MachineState] BY DEF Inv, CacheTypes, Becomes
<1>2. ASSUME NEW n \in Machines PROVE Sound(machine'[n], bucket')
  <2>1. CASE n = m
    <3>1. machine'[n] = r BY <2>1 DEF Inv, CacheTypes, Becomes
    <3> QED BY <3>1 DEF Sound
  <2>2. CASE n # m
    <3>1. machine'[n] = machine[n] BY <2>2 DEF Inv, CacheTypes, Becomes
    <3> QED BY <3>1 DEF Inv, Sound
  <2> QED BY <2>1, <2>2
<1> QED BY <1>1, <1>2 DEF Inv, CacheTypes, Honest

\* The end of an instance's work
LEMMA LeftKeeps ==
  ASSUME Inv, NEW m \in Machines, NEW l \in {"shutdown", "failed", "terminated"}, Left(m, l),
         UNCHANGED script, bucket \subseteq bucket', MarkerComplete'
  PROVE  Inv'
<1> DEFINE r == [NoMachine EXCEPT !.pc = l]
<1>1. r \in MachineState /\ r.pc = l /\ r.sent = {} BY DEF MachineState, Places, NoMachine
<1>2. Sound(r, bucket') BY <1>1 DEF Sound
<1> QED BY <1>1, <1>2, MachineKeeps DEF Left

LEMMA FailKeeps ==
  ASSUME Inv, NEW m \in Machines, Fails(m),
         UNCHANGED script, bucket \subseteq bucket', MarkerComplete'
  PROVE  Inv'
  BY LeftKeeps DEF Fails

LEMMA MachineStepKeeps ==
  ASSUME Inv, NEW m \in Machines, MachineStep(m)
  PROVE  Inv'
<1>0. machine[m] \in MachineState /\ Sound(machine[m], bucket) /\ MarkerComplete BY DEF Inv, CacheTypes
<1>1. CASE m \in Boots /\ BootChecks(m)
  <2>1. UNCHANGED <<bucket, script>> BY <1>1 DEF BootChecks
  <2>2. CASE CacheHit /\ Goes(m, "copy")
    <3> DEFINE r == [machine[m] EXCEPT !.pc = "copy"]
    <3>1. r \in MachineState /\ r.pc = "copy" /\ r.sent = machine[m].sent BY <1>0 DEF MachineState, Places
    <3>2. Sound(r, bucket') BY <1>0, <2>1, <2>2, <3>1 DEF Sound, CacheHit
    <3> QED BY <1>0, <2>1, <2>2, <3>1, <3>2, MachineKeeps DEF Goes, MarkerComplete
  <2>3. CASE Goes(m, "fetch")
    <3> DEFINE r == [machine[m] EXCEPT !.pc = "fetch"]
    <3>1. r \in MachineState /\ r.pc = "fetch" /\ r.sent = machine[m].sent BY <1>0 DEF MachineState, Places
    <3>2. Sound(r, bucket') BY <1>0, <2>1, <3>1 DEF Sound
    <3> QED BY <1>0, <2>1, <2>3, <3>1, <3>2, MachineKeeps DEF Goes, MarkerComplete
  <2> QED BY <1>1, <2>2, <2>3 DEF BootChecks
<1>2. CASE m \in Boots /\ BootCopies(m)
  <2>1. UNCHANGED <<bucket, script>> BY <1>2 DEF BootCopies
  <2>2. CASE Becomes(m, [machine[m] EXCEPT !.disk = bucket \cap Files, !.pc = "ready"])
    <3> DEFINE r == [machine[m] EXCEPT !.disk = bucket \cap Files, !.pc = "ready"]
    <3>1. bucket \cap Files = Files BY <1>0, <1>2 DEF BootCopies, Sound, MarkerComplete
    <3>2. r \in MachineState /\ r.pc = "ready" /\ r.sent = machine[m].sent /\ r.disk = bucket \cap Files
      BY <1>0 DEF MachineState, Places
    <3>3. Sound(r, bucket') BY <1>0, <2>1, <3>1, <3>2 DEF Sound
    <3> QED BY <1>0, <2>1, <2>2, <3>2, <3>3, MachineKeeps DEF MarkerComplete
  <2>3. CASE Fails(m) BY <1>0, <2>1, <2>3, FailKeeps DEF MarkerComplete
  <2> QED BY <1>2, <2>2, <2>3 DEF BootCopies
<1>3. CASE Fetch(m)
  <2>1. UNCHANGED <<bucket, script>> BY <1>3 DEF Fetch
  <2> DEFINE n == machine[m].tries + 1
  <2>2. CASE Becomes(m, [machine[m] EXCEPT !.disk = Files, !.tries = n, !.pc = "upload"])
    <3> DEFINE r == [machine[m] EXCEPT !.disk = Files, !.tries = n, !.pc = "upload"]
    <3>0. n \in Nat /\ Files \in SUBSET Files BY <1>0 DEF MachineState
    <3>1. r \in MachineState /\ r.pc = "upload" /\ r.sent = machine[m].sent /\ r.disk = Files
      BY <1>0, <3>0 DEF MachineState, Places
    <3>2. Sound(r, bucket') BY <1>0, <2>1, <3>1 DEF Sound
    <3> QED BY <1>0, <2>1, <2>2, <3>1, <3>2, MachineKeeps DEF MarkerComplete
  <2>3. CASE Becomes(m, [machine[m] EXCEPT !.tries = n])
    <3> DEFINE r == [machine[m] EXCEPT !.tries = n]
    <3>1. r \in MachineState /\ r.pc = "fetch" /\ r.sent = machine[m].sent
      BY <1>0, <1>3 DEF MachineState, Places, Fetch
    <3>2. Sound(r, bucket') BY <1>0, <2>1, <3>1 DEF Sound
    <3> QED BY <1>0, <2>1, <2>3, <3>1, <3>2, MachineKeeps DEF MarkerComplete
  <2>4. CASE Fails(m) BY <1>0, <2>1, <2>4, FailKeeps DEF MarkerComplete
  <2> QED BY <1>3, <2>2, <2>3, <2>4 DEF Fetch
<1>4. CASE Upload(m)
  <2>1. PICK f \in machine[m].disk \ machine[m].sent :
          /\ bucket' = bucket \cup {f}
          /\ Becomes(m, [machine[m] EXCEPT !.sent = @ \cup {f}])
    BY <1>4 DEF Upload
  <2>2. UNCHANGED script /\ machine[m].pc = "upload" BY <1>4 DEF Upload
  <2>3. f \in Files BY <1>0, <2>1 DEF MachineState, Places
  <2> DEFINE r == [machine[m] EXCEPT !.sent = @ \cup {f}]
  <2>4. /\ r \in MachineState /\ r.pc = "upload" /\ r.sent = machine[m].sent \cup {f}
        /\ r.disk = machine[m].disk
    BY <1>0, <2>2, <2>3 DEF MachineState, Places
  <2>5. Sound(r, bucket') BY <1>0, <2>1, <2>2, <2>4 DEF Sound
  <2>6. MarkerComplete' BY <1>0, <2>1, <2>3, FilesAssumption DEF MarkerComplete
  <2> QED BY <2>1, <2>2, <2>4, <2>5, <2>6, MachineKeeps
<1>5. CASE UploadEnds(m)
  <2>1. UNCHANGED <<bucket, script>> BY <1>5 DEF UploadEnds
  <2>2. CASE UploadComplete(m) /\ Goes(m, "mark")
    <3> DEFINE r == [machine[m] EXCEPT !.pc = "mark"]
    <3>1. /\ r \in MachineState /\ r.pc = "mark" /\ r.sent = machine[m].sent
          /\ r.disk = machine[m].disk
      BY <1>0 DEF MachineState, Places
    <3>2. machine[m].sent = Files /\ machine[m].disk = Files
      BY <1>0, <1>5, <2>2 DEF UploadEnds, UploadComplete, Sound
    <3>3. Sound(r, bucket') BY <1>0, <2>1, <3>1, <3>2 DEF Sound
    <3> QED BY <1>0, <2>1, <2>2, <3>1, <3>3, MachineKeeps DEF Goes, MarkerComplete
  <2>3. CASE Fails(m) BY <1>0, <2>1, <2>3, FailKeeps DEF MarkerComplete
  <2> QED BY <1>5, <2>2, <2>3 DEF UploadEnds
<1>6. CASE Mark(m)
  <2>1. /\ UNCHANGED script /\ bucket \subseteq bucket'
        /\ Files \subseteq bucket /\ machine[m].disk = Files
    BY <1>0, <1>6 DEF Mark, Sound
  <2>2. MarkerComplete' BY <2>1 DEF MarkerComplete
  <2>3. CASE Left(m, "shutdown") BY <2>1, <2>2, <2>3, LeftKeeps
  <2>4. CASE Goes(m, "ready")
    <3> DEFINE r == [machine[m] EXCEPT !.pc = "ready"]
    <3>1. /\ r \in MachineState /\ r.pc = "ready" /\ r.sent = machine[m].sent
          /\ r.disk = machine[m].disk
      BY <1>0 DEF MachineState, Places
    <3>2. Sound(r, bucket') BY <1>0, <2>1, <3>1 DEF Sound
    <3> QED BY <2>1, <2>2, <2>4, <3>1, <3>2, MachineKeeps DEF Goes
  <2>5. CASE Fails(m) BY <2>1, <2>2, <2>5, FailKeeps
  <2> QED BY <1>6, <2>3, <2>4, <2>5 DEF Mark
<1>7. CASE Terminate(m) BY <1>0, <1>7, LeftKeeps DEF Terminate, MarkerComplete
<1> QED BY <1>1, <1>2, <1>3, <1>4, <1>5, <1>6, <1>7 DEF MachineStep

----------------------------------------------------------------------------
(* The script *)

\* A turn of a script that leaves the cache and the instances alone
LEMMA ScriptKeeps ==
  ASSUME Inv, NEW p \in Scripts, NEW s \in ScriptState, Turns(p, s),
         UNCHANGED <<bucket, machine>>, Honest(s, bucket)
  PROVE  Inv'
<1>1. script' \in [Scripts -> ScriptState] BY DEF Inv, CacheTypes, Turns
<1>2. ASSUME NEW q \in Scripts PROVE Honest(script'[q], bucket')
  <2>1. script'[q] = IF q = p THEN s ELSE script[q] BY DEF Inv, CacheTypes, Turns
  <2> QED BY <2>1 DEF Inv, Honest
<1> QED BY <1>1, <1>2 DEF Inv, CacheTypes, MarkerComplete, Sound

LEMMA ExitKeeps ==
  ASSUME Inv, NEW p \in Scripts, NEW e \in Exit, Exits(p, e),
         UNCHANGED <<bucket, machine>>, e = "zero" => Hit
  PROVE  Inv'
<1> DEFINE s == [script[p] EXCEPT !.pc = "done", !.exit = e]
<1>1. s \in ScriptState /\ s.exit = e BY DEF Inv, CacheTypes, ScriptState, Turn
<1>2. Honest(s, bucket) BY <1>1 DEF Honest, Hit
<1> QED BY <1>1, <1>2, ScriptKeeps DEF Exits

LEMMA ScriptStepKeeps ==
  ASSUME Inv, NEW p \in Scripts, ScriptStep(p)
  PROVE  Inv'
<1>0. script[p] \in ScriptState /\ Honest(script[p], bucket) BY DEF Inv, CacheTypes
<1>1. CASE Begin(p)
  <2>1. UNCHANGED <<bucket, machine>> BY <1>1 DEF Begin
  <2>2. CASE Turns(p, [script[p] EXCEPT !.pc = "spot"])
    <3> DEFINE s == [script[p] EXCEPT !.pc = "spot"]
    <3>1. s \in ScriptState /\ s.exit = script[p].exit BY <1>0 DEF ScriptState, Turn, Exit, Markets
    <3> QED BY <1>0, <2>1, <2>2, <3>1, ScriptKeeps DEF Honest
  <2> QED BY <1>1, <2>1, <2>2, ExitKeeps DEF Begin, Exit
<1>2. ASSUME NEW k \in Markets, RunInstance(p, k) PROVE Inv'
  <2> DEFINE s == <<p, k>>
             started == [machine EXCEPT ![s].pc = "fetch"]
  <2>1. s \in Machines /\ s \in Seeders BY DEF Machines, Seeders
  <2>2. started = [machine EXCEPT ![s] = [machine[s] EXCEPT !.pc = "fetch"]]
    BY DEF Inv, CacheTypes
  <2>3. [machine[s] EXCEPT !.pc = "fetch"] \in MachineState BY <2>1 DEF Inv, CacheTypes, MachineState, Places
  <2>4. \A m \in Machines : started[m].sent = machine[m].sent
                            /\ started[m] \in {machine[m], [machine[m] EXCEPT !.pc = "fetch"]}
    BY <2>1 DEF Inv, CacheTypes, MachineState, Places
  <2>5. machine' \in {machine, started} /\ UNCHANGED bucket BY <1>2 DEF RunInstance
  <2>6. machine' \in [Machines -> MachineState] BY <2>1, <2>2, <2>3, <2>5 DEF Inv, CacheTypes
  <2>7. \A m \in Machines : Sound(machine'[m], bucket')
    <3> SUFFICES ASSUME NEW m \in Machines PROVE Sound(machine'[m], bucket') OBVIOUS
    <3>1. machine[m] \in MachineState /\ Sound(machine[m], bucket) BY DEF Inv, CacheTypes
    <3>2. machine'[m] = machine[m] \/ machine'[m] = [machine[m] EXCEPT !.pc = "fetch"]
      BY <2>4, <2>5
    <3>3. CASE machine'[m] = machine[m] BY <2>5, <3>1, <3>3 DEF Sound
    <3>4. CASE machine'[m] = [machine[m] EXCEPT !.pc = "fetch"]
      <4>1. machine'[m].pc = "fetch" /\ machine'[m].sent = machine[m].sent
        BY <3>1, <3>4 DEF MachineState, Places
      <4> QED BY <2>5, <3>1, <4>1 DEF Sound
    <3> QED BY <3>2, <3>3, <3>4
  <2>8. PICK t \in ScriptState : Turns(p, t) /\ t.exit \in {script[p].exit, "error"}
    <3> DEFINE polling == [script[p] EXCEPT !.pc = "poll", !.seeder = s]
               again == [script[p] EXCEPT !.pc = "ondemand"]
               ended == [script[p] EXCEPT !.pc = "done", !.exit = "error"]
    <3>1. polling \in ScriptState /\ polling.exit = script[p].exit
      BY <1>0, <2>1 DEF ScriptState, Turn
    <3>2. again \in ScriptState /\ again.exit = script[p].exit
      BY <1>0 DEF ScriptState, Turn, Markets
    <3>3. ended \in ScriptState /\ ended.exit = "error" BY <1>0 DEF ScriptState, Turn, Exit
    <3>4. Turns(p, polling) \/ Turns(p, again) \/ Turns(p, ended) BY <1>2 DEF RunInstance, Exits
    <3> HIDE DEF polling, again, ended
    <3> QED BY <3>1, <3>2, <3>3, <3>4
  <2>9. script' \in [Scripts -> ScriptState] BY <2>8 DEF Inv, CacheTypes, Turns
  <2>10. \A q \in Scripts : Honest(script'[q], bucket')
    <3> SUFFICES ASSUME NEW q \in Scripts PROVE Honest(script'[q], bucket') OBVIOUS
    <3>1. script'[q] = IF q = p THEN t ELSE script[q] BY <2>8 DEF Inv, CacheTypes, Turns
    <3> QED BY <2>5, <2>8, <3>1 DEF Inv, Honest
  <2> QED BY <2>5, <2>6, <2>7, <2>9, <2>10 DEF Inv, CacheTypes, MarkerComplete
<1>3. CASE Poll(p)
  <2>1. UNCHANGED <<bucket, machine>> BY <1>3 DEF Poll
  <2>2. CASE Turns(p, [script[p] EXCEPT !.pc = "state"])
    <3> DEFINE s == [script[p] EXCEPT !.pc = "state"]
    <3>1. s \in ScriptState /\ s.exit = script[p].exit BY <1>0 DEF ScriptState, Turn, Exit, Markets
    <3> QED BY <1>0, <2>1, <2>2, <3>1, ScriptKeeps DEF Honest
  <2> QED BY <1>3, <2>1, <2>2, ExitKeeps DEF Poll, Exit
<1>4. CASE LookAtSeeder(p)
  <2>1. UNCHANGED <<bucket, machine>> BY <1>4 DEF LookAtSeeder
  <2>2. CASE Turns(p, [script[p] EXCEPT !.pc = "poll", !.polls = NextTurn(p)])
    <3> DEFINE s == [script[p] EXCEPT !.pc = "poll", !.polls = NextTurn(p)]
    <3>1. NextTurn(p) \in Nat BY <1>0 DEF NextTurn, ScriptState
    <3>2. s \in ScriptState /\ s.exit = script[p].exit BY <1>0, <3>1 DEF ScriptState, Turn, Exit, Markets
    <3> QED BY <1>0, <2>1, <2>2, <3>2, ScriptKeeps DEF Honest
  <2> QED BY <1>4, <2>1, <2>2, ExitKeeps DEF LookAtSeeder, Verdict, Exit
<1> QED BY <1>1, <1>2, <1>3, <1>4 DEF ScriptStep

LEMMA StepKeeps == Inv /\ [Next]_vars => Inv'
<1> SUFFICES ASSUME Inv, [Next]_vars PROVE Inv' OBVIOUS
<1>1. ASSUME NEW p \in Scripts, ScriptStep(p) PROVE Inv' BY <1>1, ScriptStepKeeps
<1>2. ASSUME NEW p \in Scripts, Crash(p) PROVE Inv' BY <1>2, ExitKeeps DEF Crash, Exit
<1>3. ASSUME NEW m \in Machines, MachineStep(m) PROVE Inv' BY <1>3, MachineStepKeeps
<1>4. ASSUME NEW m \in Machines, Interrupt(m) PROVE Inv'
  BY <1>4, LeftKeeps DEF Interrupt, Inv, MarkerComplete
<1>5. CASE UNCHANGED vars
  BY <1>5 DEF vars, Inv, CacheTypes, MarkerComplete, Sound, Honest
<1> QED BY <1>1, <1>2, <1>3, <1>4, <1>5 DEF Next

----------------------------------------------------------------------------

\* The marker stands for every file, whatever seeders and booting instances fill the
\* cache and wherever they are interrupted (boot.sh:44-47, seed-weights.sh:70-74).
THEOREM MarkerIsComplete == Spec => []MarkerComplete
<1>1. Inv => MarkerComplete BY DEF Inv
<1> QED BY InitInv, StepKeeps, <1>1, PTL DEF Spec

\* Boots that copy the cache have every file, and scripts that report success leave
\* it complete (boot.sh:25-28, seed-weights.sh:33-36,97-100).
THEOREM MarkerIsTrusted == Spec => []MarkerTrusted
<1>1. Inv => MarkerTrusted
  <2>1. \A b \in Boots : b \in Machines BY DEF Machines
  <2> QED BY <2>1 DEF Inv, MarkerTrusted, MarkerComplete, Sound, Honest
<1> QED BY InitInv, StepKeeps, <1>1, PTL DEF Spec
=============================================================================
