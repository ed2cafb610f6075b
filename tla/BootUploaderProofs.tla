--------------------------- MODULE BootUploaderProofs ---------------------------
(***************************************************************************)
(* BootUploader implements BootLog for every number of events: an event    *)
(* that is not in the log stream at the end is answered for by a recorded  *)
(* failure.                                                                *)
(***************************************************************************)
EXTENDS BootUploader, TLAPS

\* What was uploaded or given up so far
CursorCovered == 0..(up.cursor - 1) \subseteq stored \/ "failed" \in notes

\* During an attempt, an event of the batch is stored or still to be sent.
AttemptCovered ==
  up.pc \in {"try", "starting", "create", "put"} =>
    \A e \in Batch : e \in stored \/ \E c \in up.left : e \in c

\* A batch is only taken for uploaded when it is.
OkCovered ==
  /\ up.ok /\ up.pc = "note" => Batch \subseteq stored
  /\ up.pc \in {"chunk", "try", "starting", "create", "put"} => ~up.ok
  /\ up.pc \in {"wait", "note", "check", "done"} => up.left = {}

\* How the two threads meet at the end
EndAgrees ==
  /\ aborted => main \in {"rejoin", "done"}
  /\ up.pc = "done" => Stopped /\ (~Pending \/ aborted)
  /\ main = "done" => up.pc = "done"
  /\ main = "done" /\ aborted => "timeout" \in notes

\* upload_lock keeps the abort and the start of a process apart.
AbortHolds == aborted => up.pc # "starting" /\ process # "running"

Inv == TypeOK /\ CursorCovered /\ AttemptCovered /\ OkCovered /\ EndAgrees /\ AbortHolds

LEMMA InitInv == Init => Inv
<1> SUFFICES ASSUME Init PROVE Inv OBVIOUS
<1>1. up \in Locals BY DEF Init, Locals
<1>2. 0..(up.cursor - 1) = {} /\ UNION up.left = {} BY DEF Init
<1>3. UpOK BY <1>1, <1>2 DEF Init, UpOK
<1>4. RestOK
  <2>1. records \in 0..MaxRecords BY RecordsAssumption DEF Init
  <2>2. process = "none" /\ up.pc = "wait" BY DEF Init
  <2> QED BY <2>1, <2>2 DEF Init, RestOK
<1>5. CursorCovered BY <1>2 DEF CursorCovered
<1> QED BY <1>2, <1>3, <1>4, <1>5
    DEF Init, Inv, TypeOK, AttemptCovered, OkCovered, EndAgrees, AbortHolds, Stopped

----------------------------------------------------------------------------
(* The failed attempt, shared by three actions *)

LEMMA FailureKeeps ==
  ASSUME Inv, AttemptFails, up.pc \in {"try", "starting", "create", "put"},
         process' = "none", UNCHANGED <<records, notes, main, aborted>>,
         stored \subseteq stored', stored' \subseteq 0..(records - 1)
  PROVE  Inv'
<1>1. UpOK /\ RestOK BY DEF Inv, TypeOK
<1>2. up' \in Locals
  <2>1. up.attempt \in 1..2 /\ (Again => up.attempt + 1 \in 1..2)
    BY <1>1 DEF UpOK, Locals, Again
  <2>2. CASE Again BY <1>1, <2>1, <2>2 DEF UpOK, Locals, AttemptFails
  <2>3. CASE ~Again BY <1>1, <2>3 DEF UpOK, Locals, AttemptFails
  <2> QED BY <2>2, <2>3
<1>3. /\ up'.cursor = up.cursor /\ up'.upto = up.upto /\ up'.ok = up.ok
      /\ up'.pc \in {"chunk", "note"} /\ (up'.pc = "note" => up'.left = {})
      /\ up'.left \in {up.left, {}}
  BY <1>1 DEF UpOK, Locals, AttemptFails
<1>4. UNION up'.left \subseteq Batch BY <1>1, <1>3 DEF UpOK
<1>5. UpOK' /\ RestOK' BY <1>1, <1>2, <1>3, <1>4 DEF UpOK, RestOK, Batch
<1>6. CursorCovered' BY <1>3 DEF Inv, CursorCovered
<1>7. AttemptCovered' BY <1>3 DEF AttemptCovered
<1>8. OkCovered' BY <1>3 DEF Inv, OkCovered
<1>9. EndAgrees' BY <1>3 DEF Inv, EndAgrees, Stopped
<1>10. AbortHolds' BY <1>3 DEF AbortHolds
<1> QED BY <1>5, <1>6, <1>7, <1>8, <1>9, <1>10 DEF Inv, TypeOK, UpOK, RestOK

\* The uploader's own steps preserve the invariant.
LEMMA UploaderKeeps ==
  ASSUME Inv, UploaderStep
  PROVE  Inv'
<1> USE DEF Inv
<1>0. UpOK /\ RestOK BY DEF TypeOK
<1>1. CASE Take
  <2>0. records \in Nat /\ up.cursor \in Nat /\ up.upto \in Nat
    BY <1>0, RecordsAssumption DEF UpOK, Locals, RestOK
  <2>1. up' \in Locals
    <3>1. PICK next \in {"chunk", "check"} :
            up' = [up EXCEPT !.upto = records, !.attempt = 1, !.ok = FALSE, !.pc = next]
      BY <1>1 DEF Take
    <3>2. 1 \in 1..2 OBVIOUS
    <3>3. up' = [pc |-> next, cursor |-> up.cursor, upto |-> records, attempt |-> 1,
                 created |-> up.created, ok |-> FALSE, left |-> up.left]
      BY <1>0, <3>1 DEF Locals, UpOK
    <3> QED BY <1>0, <2>0, <3>2, <3>3 DEF Locals, UpOK
  <2>2. /\ up'.cursor = up.cursor /\ up'.upto = records /\ up'.ok = FALSE
        /\ up'.pc = IF records > up.cursor THEN "chunk" ELSE "check"
        /\ up'.left = up.left
    BY <1>0, <1>1 DEF Take, Locals, UpOK
  <2>3. up.left = {} /\ UNION up'.left = {} BY <1>1, <2>2 DEF Take, OkCovered
  <2>4. UpOK' BY <1>0, <1>1, <2>0, <2>1, <2>2, <2>3 DEF Take, UpOK
  <2>5. RestOK' BY <1>0, <1>1, <2>2 DEF Take, RestOK
  <2> QED
    BY <1>1, <2>2, <2>3, <2>4, <2>5
    DEF Take, TypeOK, CursorCovered, AttemptCovered, OkCovered, EndAgrees, AbortHolds, Stopped
<1>2. CASE Chunk
  <2>1. PICK c \in Chunkings(Batch) : up' = [up EXCEPT !.pc = "try", !.left = c]
    BY <1>2 DEF Chunk
  <2>2. Batch \subseteq Nat BY <1>0 DEF Batch, Locals, UpOK
  <2>3. UNION c = Batch /\ c \in SUBSET SUBSET Nat BY <2>1, <2>2, Zenon DEF Chunkings
  <2>4. up' \in Locals BY <1>0, <2>1, <2>3 DEF Locals, UpOK
  <2>5. /\ up'.cursor = up.cursor /\ up'.upto = up.upto /\ up'.ok = up.ok
        /\ up'.pc = "try" /\ up'.left = c
    BY <1>0, <2>1 DEF Locals, UpOK
  <2>6. TypeOK' BY <1>0, <1>2, <2>3, <2>4, <2>5 DEF TypeOK, Chunk, Batch, UpOK, RestOK
  <2>7. AttemptCovered' BY <2>3, <2>5 DEF AttemptCovered, Batch
  <2> QED BY <1>2, <2>5, <2>6, <2>7 DEF Chunk, CursorCovered, OkCovered, EndAgrees, AbortHolds, Stopped
<1>3. CASE Acquire
  <2>1. CASE AttemptFails BY <1>3, <2>1, <1>0, FailureKeeps DEF Acquire, RestOK
  <2>2. CASE ~aborted /\ up' = [up EXCEPT !.pc = "starting"]
    <3>1. up' \in Locals BY <1>0, <2>2 DEF Locals, UpOK
    <3>2. /\ up'.cursor = up.cursor /\ up'.upto = up.upto /\ up'.ok = up.ok
          /\ up'.pc = "starting" /\ up'.left = up.left
      BY <1>0, <2>2 DEF Locals, UpOK
    <3>3. UpOK' BY <1>0, <1>3, <3>1, <3>2 DEF Acquire, Batch, UpOK
    <3>4. RestOK' BY <1>0, <1>3, <3>2 DEF Acquire, RestOK
    <3>5. AttemptCovered' BY <1>3, <3>2 DEF Acquire, AttemptCovered, Batch
    <3> QED BY <1>3, <2>2, <3>2, <3>3, <3>4, <3>5
          DEF Acquire, TypeOK, CursorCovered, OkCovered, EndAgrees, AbortHolds, Stopped
  <2> QED BY <1>3, <2>1, <2>2 DEF Acquire
<1>4. CASE Spawn
  <2>1. CASE UNCHANGED process /\ AttemptFails
    BY <1>4, <2>1, <1>0, FailureKeeps DEF Spawn, RestOK
  <2>2. CASE process' = "running" /\ up' = [up EXCEPT !.pc = IF up.created THEN "put" ELSE "create"]
    <3>1. up' \in Locals BY <1>0, <2>2 DEF Locals, UpOK
    <3>2. /\ up'.cursor = up.cursor /\ up'.upto = up.upto /\ up'.ok = up.ok
          /\ up'.pc \in {"put", "create"} /\ up'.left = up.left
      BY <1>0, <2>2 DEF Locals, UpOK
    <3>3. UpOK' BY <1>0, <1>4, <3>1, <3>2 DEF Spawn, Batch, UpOK
    <3>4. RestOK' BY <1>0, <1>4, <2>2, <3>2 DEF Spawn, RestOK
    <3>5. AttemptCovered' BY <1>4, <3>2 DEF Spawn, AttemptCovered, Batch
    <3>6. ~aborted BY <1>4 DEF Spawn, AbortHolds
    <3> QED BY <1>4, <3>2, <3>3, <3>4, <3>5, <3>6
          DEF Spawn, TypeOK, CursorCovered, OkCovered, EndAgrees, AbortHolds, Stopped
  <2> QED BY <1>4, <2>1, <2>2 DEF Spawn
<1>5. CASE Created
  <2>1. CASE AttemptFails BY <1>5, <2>1, FailureKeeps, <1>0 DEF Created, RestOK
  <2>2. CASE up' = [up EXCEPT !.pc = "try", !.created = TRUE]
    <3>1. up' \in Locals BY <1>0, <2>2 DEF Locals, UpOK
    <3>2. /\ up'.cursor = up.cursor /\ up'.upto = up.upto /\ up'.ok = up.ok
          /\ up'.pc = "try" /\ up'.left = up.left
      BY <1>0, <2>2 DEF Locals, UpOK
    <3>3. TypeOK' BY <1>0, <1>5, <3>1, <3>2 DEF TypeOK, Created, Batch, UpOK, RestOK
    <3>4. AttemptCovered' BY <1>5, <3>2 DEF Created, AttemptCovered, Batch
    <3> QED BY <1>5, <3>2, <3>3, <3>4
          DEF Created, CursorCovered, OkCovered, EndAgrees, AbortHolds, Stopped
  <2> QED BY <1>5, <2>1, <2>2 DEF Created
<1>6. CASE Put
  <2>0. UNION up.left \subseteq 0..(records - 1) BY <1>0 DEF Batch, Locals, UpOK, RestOK
  <2>1. PICK chunk \in up.left :
          \/ /\ stored' = stored \cup chunk
             /\ up' = IF up.left = {chunk} THEN [up EXCEPT !.pc = "note", !.ok = TRUE, !.left = {}]
                                           ELSE [up EXCEPT !.pc = "try", !.left = @ \ {chunk}]
          \/ (\E s \in SUBSET chunk : stored' = stored \cup s) /\ AttemptFails
    BY <1>6 DEF Put
  <2>2. CASE (\E s \in SUBSET chunk : stored' = stored \cup s) /\ AttemptFails
    BY <1>6, <2>0, <2>1, <2>2, FailureKeeps, <1>0 DEF Put, RestOK
  <2>3. CASE stored' = stored \cup chunk /\ ~AttemptFails
    <3>1. /\ stored \subseteq stored' /\ stored' \subseteq 0..(records - 1)
          /\ \A e \in chunk : e \in stored'
      BY <1>0, <2>0, <2>1, <2>3 DEF RestOK
    <3>2. \A e \in Batch : e \in stored \/ \E c \in up.left : e \in c
      BY <1>6 DEF Put, AttemptCovered
    <3>3. CASE up.left = {chunk}
      <4>1. up' = [up EXCEPT !.pc = "note", !.ok = TRUE, !.left = {}] BY <2>1, <2>3, <3>3
      <4>2. up' \in Locals BY <1>0, <4>1 DEF Locals, UpOK
      <4>3. /\ up'.cursor = up.cursor /\ up'.upto = up.upto /\ up'.ok = TRUE
            /\ up'.pc = "note" /\ up'.left = {}
        BY <1>0, <4>1 DEF Locals, UpOK
      <4>4. TypeOK' BY <1>0, <1>6, <3>1, <4>2, <4>3 DEF TypeOK, Put, Batch, UpOK, RestOK
      <4>5. Batch' \subseteq stored' BY <3>1, <3>2, <3>3, <4>3 DEF Batch
      <4> QED BY <1>6, <3>1, <4>3, <4>4, <4>5
            DEF Put, CursorCovered, AttemptCovered, OkCovered, EndAgrees, AbortHolds, Stopped
    <3>4. CASE up.left # {chunk}
      <4>1. up' = [up EXCEPT !.pc = "try", !.left = @ \ {chunk}] BY <2>1, <2>3, <3>4
      <4>2. up' \in Locals BY <1>0, <4>1 DEF Locals, UpOK
      <4>3. /\ up'.cursor = up.cursor /\ up'.upto = up.upto /\ up'.ok = up.ok
            /\ up'.pc = "try" /\ up'.left = up.left \ {chunk}
        BY <1>0, <4>1 DEF Locals, UpOK
      <4>4. TypeOK' BY <1>0, <1>6, <3>1, <4>2, <4>3 DEF TypeOK, Put, Batch, UpOK, RestOK
      <4>5. AttemptCovered' BY <3>1, <3>2, <4>3 DEF AttemptCovered, Batch
      <4> QED BY <1>6, <3>1, <4>3, <4>4, <4>5
            DEF Put, CursorCovered, OkCovered, EndAgrees, AbortHolds, Stopped
    <3> QED BY <3>3, <3>4
  <2> QED BY <2>1, <2>2, <2>3
<1>7. CASE Note
  <2>1. up' \in Locals BY <1>0, <1>7 DEF Note, Locals, UpOK
  <2>2. /\ up'.cursor = up.upto /\ up'.upto = up.upto /\ up'.ok = up.ok
        /\ up'.pc = "check" /\ up'.left = up.left /\ up.left = {}
    BY <1>0, <1>7 DEF Note, Locals, UpOK, OkCovered
  <2>3. UNION up'.left = {} BY <2>2
  <2>4. UpOK' BY <1>0, <1>7, <2>1, <2>2, <2>3 DEF Note, UpOK, Locals
  <2>5. RestOK' BY <1>0, <1>7, <2>2 DEF Note, RestOK
  <2>6. CursorCovered'
    <3>1. CASE up.ok
      <4>1. Batch \subseteq stored BY <1>7, <3>1 DEF Note, OkCovered
      <4>2. 0..(up.upto - 1) = 0..(up.cursor - 1) \cup Batch BY <1>0 DEF Batch, Locals, UpOK
      <4> QED BY <1>7, <2>2, <4>1, <4>2 DEF Note, CursorCovered
    <3>2. CASE ~up.ok BY <1>7, <3>2 DEF Note, CursorCovered
    <3> QED BY <3>1, <3>2
  <2>7. main # "done" BY <1>7 DEF Note, EndAgrees
  <2> QED BY <1>7, <2>2, <2>4, <2>5, <2>6, <2>7
        DEF Note, TypeOK, AttemptCovered, OkCovered, EndAgrees, AbortHolds, Stopped
<1>8. CASE Check
  <2>1. up' \in Locals BY <1>0, <1>8 DEF Check, Locals, UpOK
  <2>2. /\ up'.cursor = up.cursor /\ up'.upto = up.upto /\ up'.ok = up.ok
        /\ up'.pc = (IF Stopped /\ (~Pending \/ aborted) THEN "done" ELSE "wait")
        /\ up'.left = up.left
    BY <1>0, <1>8 DEF Check, Locals, UpOK
  <2>3. TypeOK' BY <1>0, <1>8, <2>1, <2>2 DEF TypeOK, Check, Batch, UpOK, RestOK
  <2>4. EndAgrees' BY <1>8, <2>2 DEF Check, EndAgrees, Stopped, Pending
  <2> QED BY <1>8, <2>2, <2>3, <2>4 DEF Check, CursorCovered, AttemptCovered, OkCovered, AbortHolds
<1> QED BY <1>1, <1>2, <1>3, <1>4, <1>5, <1>6, <1>7, <1>8 DEF UploaderStep

\* So do the main thread's.
LEMMA MainKeeps ==
  ASSUME Inv, Event \/ Stop \/ Ending \/ UNCHANGED vars
  PROVE  Inv'
<1> USE RecordsAssumption
    DEF Inv, TypeOK, UpOK, RestOK, Batch, Stopped, Pending,
        CursorCovered, AttemptCovered, OkCovered, EndAgrees, AbortHolds
<1>1. CASE Event
  <2>1. records \in Nat /\ records' = records + 1 BY <1>1 DEF Event
  <2>2. TypeOK' BY <1>1, <2>1 DEF Event, Locals
  <2> QED BY <1>1, <2>1, <2>2 DEF Event
<1>2. CASE Stop BY <1>2 DEF Stop
<1>3. CASE Join BY <1>3 DEF Join
<1>4. CASE Abort BY <1>4 DEF Abort, LockFree
<1>5. CASE Rejoin BY <1>5 DEF Rejoin
<1>6. CASE UNCHANGED vars BY <1>6 DEF vars
<1> QED BY <1>1, <1>2, <1>3, <1>4, <1>5, <1>6 DEF Ending

LEMMA InvHolds == Spec => []Inv
<1>1. Inv /\ [Next]_vars => Inv' BY UploaderKeeps, MainKeeps DEF Next
<1> QED BY InitInv, <1>1, PTL DEF Spec

\* The type invariant of the run boot_upload, for every number of events
\* (boot.sh:192-246).
THEOREM TypeCorrect == Spec => []TypeOK
BY InvHolds, PTL DEF Inv

----------------------------------------------------------------------------
(* Every step is a step of the abstract log, or a stutter. *)

LEMMA InitMaps == Init => Log!Init
BY DEF Init, Log!Init

LEMMA StepMaps ==
  ASSUME Inv, [Next]_vars
  PROVE  [Log!Next]_(Log!vars)
<1> USE DEF Log!vars, Log!Next, Log!Record, Log!Store, Log!Note, Log!Close, Log!Events
<1>1. CASE Event BY <1>1 DEF Event
<1>2. CASE Put
  <2>1. UNION up.left \subseteq 0..(records - 1) BY DEF Inv, TypeOK, UpOK, RestOK, Locals, Batch
  <2>2. /\ UNCHANGED <<records, notes, main>> /\ main # "done"
        /\ stored \subseteq stored' /\ stored' \subseteq 0..(records - 1)
    BY <1>2, <2>1 DEF Put, Inv, TypeOK, UpOK, RestOK, EndAgrees
  <2> QED BY <2>2
<1>3. CASE Note
  <2>1. main # "done" BY <1>3 DEF Note, Inv, EndAgrees
  <2> QED BY <1>3, <2>1 DEF Note
<1>4. CASE Join
  <2>1. CASE up.pc = "done"
    <3>1. up.cursor = records BY <1>4, <2>1 DEF Join, Inv, TypeOK, UpOK, RestOK, Locals, EndAgrees, Pending
    <3>2. 0..(records - 1) \subseteq stored \/ "failed" \in notes
      BY <3>1 DEF Inv, CursorCovered
    <3>3. stored \subseteq 0..(records - 1) BY DEF Inv, TypeOK, UpOK, RestOK
    <3> QED BY <1>4, <2>1, <3>2, <3>3 DEF Join
  <2>2. CASE up.pc # "done" BY <1>4, <2>2 DEF Join
  <2> QED BY <2>1, <2>2
<1>5. CASE Rejoin
  <2>1. notes' \cap {"failed", "timeout"} # {} BY <1>5 DEF Rejoin
  <2> QED BY <1>5, <2>1 DEF Rejoin
<1>6. CASE Take \/ Chunk \/ Acquire \/ Spawn \/ Created \/ Check \/ Stop \/ Abort \/ UNCHANGED vars
  BY <1>6 DEF Take, Chunk, Acquire, Spawn, Created, Check, Stop, Abort, vars
<1> QED BY <1>1, <1>2, <1>3, <1>4, <1>5, <1>6 DEF Next, UploaderStep, Ending

\* The uploader implements the abstract log for every number of events: nothing is
\* lost without a failure on record (boot.sh:215-246,292-303).
THEOREM ImplementsLog == Spec => LogSpec
<1> USE DEF LogSpec, Log!Spec
<1>1. Inv /\ [Next]_vars => [Log!Next]_(Log!vars) BY StepMaps
<1> QED BY InitMaps, InvHolds, <1>1, PTL DEF Spec

\* Once the upload is aborted no aws process runs that was not told to end, for every
\* number of events (boot.sh:194-200,297-299).
THEOREM NoLateCall == Spec => []NoCallAfterAbort
BY InvHolds, PTL DEF Inv, AbortHolds, NoCallAfterAbort
=============================================================================
