-------------------------------- MODULE BootLog --------------------------------
(***************************************************************************)
(* What the boot telemetry promises: the supervisor may stop only when the *)
(* log stream holds every event of the boot, or the host's own record says *)
(* that an upload failed.                                                  *)
(***************************************************************************)
EXTENDS Naturals

VARIABLES records,   \* number of core events; their sequence numbers are 0..records-1
          stored,    \* sequence numbers present in the log stream
          noted,     \* the host has recorded an upload as failed or timed out
          closed     \* the supervisor has ended

vars == <<records, stored, noted, closed>>

Events == 0..(records - 1)

Init == records = 0 /\ stored = {} /\ noted = FALSE /\ closed = FALSE

Record == ~closed /\ records' = records + 1 /\ UNCHANGED <<stored, noted, closed>>

\* Events may arrive again, in any number and order; nothing leaves the stream.
Store == /\ ~closed
         /\ stored' \in SUBSET Events /\ stored \subseteq stored'
         /\ UNCHANGED <<records, noted, closed>>

Note == ~closed /\ noted' = TRUE /\ UNCHANGED <<records, stored, closed>>

\* The last failure may be noted as the supervisor ends.
Close == /\ ~closed /\ closed' = TRUE
         /\ noted' \in {noted, TRUE}
         /\ stored = Events \/ noted'
         /\ UNCHANGED <<records, stored>>

Next == Record \/ Store \/ Note \/ Close

Spec == Init /\ [][Next]_vars
=============================================================================
