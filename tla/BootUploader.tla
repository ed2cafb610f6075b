----------------------------- MODULE BootUploader -----------------------------
(***************************************************************************)
(* The uploader thread of assets/user-data/boot.sh beside the main thread: *)
(* batches of boot events go to CloudWatch Logs by one aws process at a    *)
(* time, every batch is tried twice, and at the end the main thread waits  *)
(* 18 seconds for the rest before it aborts the upload.                    *)
(***************************************************************************)
EXTENDS Naturals

CONSTANT MaxRecords   \* bound on the core events of one boot

ASSUME RecordsAssumption == MaxRecords \in Nat

VARIABLES records,   \* number of core events so far
          stored,    \* the events in the log stream
          notes,     \* kinds of upload events on the host
          main,      \* the main thread: "work", "join", "abort", "rejoin", "done"
          aborted,   \* upload_abort; stop is set from "join" on
          process,   \* the aws process: "none", "running" or "killed" by the abort
          up         \* local variables of the uploader

vars == <<records, stored, notes, main, aborted, process, up>>

Stopped == main # "work"

Init ==
  /\ records = 0
  /\ stored = {}
  /\ notes = {}
  /\ main = "work"
  /\ aborted = FALSE /\ process = "none"
  /\ up = [pc |-> "wait", cursor |-> 0, upto |-> 0, attempt |-> 1, created |-> FALSE,
            ok |-> FALSE, left |-> {}]

Batch == up.cursor..(up.upto - 1)

\* One batch in time order, or one event at a time if the clock has jumped a day
Chunkings(batch) == {{batch}, {{e} : e \in batch}}

----------------------------------------------------------------------------
(* The uploader.  pc: "wait" at the top of its loop, "chunk" at the start of an
   attempt, "try" before an aws process, "starting" one under upload_lock, "create"
   and "put" during it, "note" and "check" after a batch. *)

\* Five seconds are over, or the event `wake` was set.
Take ==
  /\ up.pc = "wait"
  /\ up' = [up EXCEPT !.upto = records, !.attempt = 1, !.ok = FALSE,
                      !.pc = IF records > up.cursor THEN "chunk" ELSE "check"]
  /\ UNCHANGED <<records, stored, notes, main, aborted, process>>

\* An attempt begins: the stream is created first unless that has succeeded before.
Chunk ==
  /\ up.pc = "chunk"
  /\ \E c \in Chunkings(Batch) : up' = [up EXCEPT !.pc = "try", !.left = c]
  /\ UNCHANGED <<records, stored, notes, main, aborted, process>>

\* Fault: one attempt too many.
ThirdAttempt == up.attempt <= 2

Again == up.attempt < 2

\* Fault: a batch is tried until it succeeds.
TriesForEver == up' = [up EXCEPT !.pc = "chunk"]

\* An attempt has failed: the next one, or the batch is given up.
AttemptFails ==
  up' = IF Again THEN [up EXCEPT !.pc = "chunk", !.attempt = @ + 1]
                 ELSE [up EXCEPT !.pc = "note", !.left = {}]

\* aws_logs takes upload_lock; no process after the abort.  What precedes the call,
\* such as writing the payload, may fail too.
Acquire ==
  /\ up.pc = "try" /\ UNCHANGED <<records, stored, notes, main, aborted, process>>
  /\ \/ ~aborted /\ up' = [up EXCEPT !.pc = "starting"]
     \/ AttemptFails

\* Popen, which may fail, and the release of the lock
Spawn ==
  /\ up.pc = "starting" /\ UNCHANGED <<records, stored, notes, main, aborted>>
  /\ \/ /\ process' = "running"
        /\ up' = [up EXCEPT !.pc = IF up.created THEN "put" ELSE "create"]
     \/ UNCHANGED process /\ AttemptFails

\* create-log-stream ends: a stream that exists already is as good as a new one;
\* any other error, or four seconds without an answer, fails.
Created ==
  /\ up.pc = "create" /\ process' = "none" /\ UNCHANGED <<records, stored, notes, main, aborted>>
  /\ \/ up' = [up EXCEPT !.pc = "try", !.created = TRUE]
     \/ AttemptFails

\* put-log-events ends.  It fails without effect, with part of the chunk rejected,
\* or with the whole chunk stored and the answer lost.
Put ==
  /\ up.pc = "put" /\ process' = "none" /\ UNCHANGED <<records, notes, main, aborted>>
  /\ \E chunk \in up.left :
       \/ /\ stored' = stored \cup chunk
          /\ up' = IF up.left = {chunk} THEN [up EXCEPT !.pc = "note", !.ok = TRUE, !.left = {}]
                                       ELSE [up EXCEPT !.pc = "try", !.left = @ \ {chunk}]
       \/ /\ \E s \in SUBSET chunk : stored' = stored \cup s
          /\ AttemptFails

\* The batch is over either way; its outcome is recorded on the host only.
Note ==
  /\ up.pc = "note"
  /\ up' = [up EXCEPT !.pc = "check", !.cursor = up.upto]
  /\ notes' = notes \cup {IF up.ok THEN "complete" ELSE "failed"}
  /\ UNCHANGED <<records, stored, main, aborted, process>>

\* Fault: what was recorded during the last batch is left behind.
NothingPending == FALSE

Pending == up.cursor < records

\* After a batch: the end once the main thread has stopped and nothing is left,
\* or the upload was aborted; another round otherwise.
Check ==
  /\ up.pc = "check"
  /\ up' = [up EXCEPT !.pc = IF Stopped /\ (~Pending \/ aborted) THEN "done" ELSE "wait"]
  /\ UNCHANGED <<records, stored, notes, main, aborted, process>>

UploaderStep == Take \/ Chunk \/ Acquire \/ Spawn \/ Created \/ Put \/ Note \/ Check
----------------------------------------------------------------------------
(* The main thread *)

\* The supervisor records an event of one of its phases.
Event ==
  /\ main = "work" /\ records < MaxRecords
  /\ records' = records + 1
  /\ UNCHANGED <<stored, notes, main, aborted, process, up>>

Stop == /\ main = "work" /\ main' = "join"
        /\ UNCHANGED <<records, stored, notes, aborted, process, up>>

\* join(18): the thread has ended, or is found alive when the time is up.
Join == /\ main = "join" /\ main' = (IF up.pc = "done" THEN "done" ELSE "abort")
        /\ UNCHANGED <<records, stored, notes, aborted, process, up>>

\* Fault: the abort does not wait for upload_lock.
Unlocked == TRUE

LockFree == up.pc # "starting"

\* Under upload_lock: no new process from here on, and the current one is killed,
\* which Created and Put see as a call that ends.
Abort == /\ main = "abort" /\ LockFree /\ main' = "rejoin" /\ aborted' = TRUE
         /\ process' = (IF process = "running" THEN "killed" ELSE process)
         /\ UNCHANGED <<records, stored, notes, up>>

Rejoin == /\ main = "rejoin" /\ up.pc = "done" /\ main' = "done"
          /\ notes' = notes \cup {"timeout"}
          /\ UNCHANGED <<records, stored, aborted, process, up>>

Ending == Join \/ Abort \/ Rejoin
Next == UploaderStep \/ Event \/ Stop \/ Ending

Spec == Init /\ [][Next]_vars

\* Each call ends within its four seconds; both threads are scheduled.
FairSpec == Spec /\ WF_vars(UploaderStep) /\ WF_vars(Ending)
----------------------------------------------------------------------------
(* Properties *)

Locals ==
  [pc : {"wait", "chunk", "try", "starting", "create", "put", "note", "check", "done"},
   cursor : Nat, upto : Nat, attempt : 1..2, created : BOOLEAN,
   ok : BOOLEAN, left : SUBSET SUBSET Nat]

UpOK ==
  /\ up \in Locals
  /\ up.cursor <= up.upto /\ up.upto <= records /\ UNION up.left \subseteq Batch

RestOK ==
  /\ records \in 0..MaxRecords
  /\ stored \subseteq 0..(records - 1)
  /\ notes \subseteq {"complete", "failed", "timeout"}
  /\ main \in {"work", "join", "abort", "rejoin", "done"}
  /\ aborted \in BOOLEAN
  /\ process \in {"none", "running", "killed"}
  /\ process # "none" <=> up.pc \in {"create", "put"}

\* Every variable holds a value the program can give it.  A batch is tried twice at
\* most, and an aws process is alive exactly while the uploader waits for one.
TypeOK == UpOK /\ RestOK

\* The implementation of BootLog: an event that never reached the stream is
\* answered for by a recorded failure, whatever was recorded during a batch, lost,
\* partially rejected or cut off (boot.sh:215-246,292-303).
Log == INSTANCE BootLog WITH
         noted <- notes \cap {"failed", "timeout"} # {},
         closed <- main = "done"

LogSpec == Log!Spec

\* Once the upload is aborted no aws process runs that was not told to end: one
\* that is being started at that moment is neither missed nor started too late
\* (boot.sh:194-200,297-299).
NoCallAfterAbort == aborted => process # "running"

\* The supervisor ends however the calls go; telemetry never keeps it from
\* reporting its status (boot.sh:292-303).
UploaderEnds == Stopped ~> main = "done"
=============================================================================
