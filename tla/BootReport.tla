----------------------------- MODULE BootReport -----------------------------
(***************************************************************************)
(* The events of one boot and what src/cli/commands/boot-report.ts makes   *)
(* of them.  The events are those of BootSupervisor; an export may lack    *)
(* some, repeat and reorder them, hold a damaged line, and the wall clock  *)
(* may jump once against the monotonic one.                                *)
(***************************************************************************)
EXTENDS BootSupervisor

VARIABLE records      \* the events of the boot, in order of seq

allvars == <<vars, records>>

Event(p, s) == [phase |-> p, status |-> s]

\* event(phase, status[phase]) for each phase of a set, in the order in which one step
\* of the main thread writes several
Events(ps, status) ==
  LET of(p) == IF p \in ps THEN <<Event(p, status[p])>> ELSE <<>>
  IN of("weights") \o of("image") \o of("container") \o of("health") \o of("boot")

CacheEvents == Events(seen' \ seen, [p \in Phases |-> "cache"])
PhaseEvents == Events({p \in Phases : phase'[p] # phase[p]}, phase')

\* What one step writes: observe_cache comes before the event of a phase.
Record == records' = records \o CacheEvents \o PhaseEvents

ReportInit == Init /\ records = <<Event("boot", "start")>>

ReportSpec == /\ ReportInit /\ [][Next /\ Record]_allvars
              /\ WF_allvars(MainStep /\ Record) /\ WF_allvars(Expire /\ Record)

----------------------------------------------------------------------------
(* The exports *)

\* The wall clock jumps by more than two milliseconds before event number `jump`.
Line(i, jump) == [seq |-> i - 1, phase |-> records[i].phase, status |-> records[i].status,
                  skew |-> i > jump]

\* The lines of a file by their numbers, blank ones left out.  number says which event
\* a line holds: lines may be missing, repeated and in any order.
File(number, jump) == [k \in DOMAIN number |-> Line(number[k], jump)]

Intact == Len(records)       \* no jump

----------------------------------------------------------------------------
(* bootReport *)

\* One event per seq, the first of the file
BySeq(input) ==
  {input[k] : k \in {l \in DOMAIN input : \A j \in DOMAIN input : j < l => input[j].seq # input[l].seq}}

Conflict(input) == \E i, j \in DOMAIN input : input[i].seq = input[j].seq /\ input[i] # input[j]

With(events, p, s) == {e \in events : e.phase = p /\ e.status = s}

Milestone(p) == IF p = "health" THEN "ready" ELSE "complete"

\* Fault: a gap in the numbers is not looked for.
NoGap(events) == FALSE

Gap(events) == \E e \in events : \E i \in 0..e.seq : \A f \in events : f.seq # i

Jumped(events) == \E e, f \in events : e.skew # f.skew

Measured == {"weights", "image", "container", "health"}
Once == {<<"boot", "start">>, <<"boot", "ready">>}
        \cup {<<p, "start">> : p \in Measured} \cup {<<p, Milestone(p)>> : p \in Measured}

Unfinished(events) == \E x \in Once : With(events, x[1], x[2]) = {}
Twice(events) == \E x \in Once : \E e, f \in With(events, x[1], x[2]) : e # f

\* Every a event comes before every b event.
Before(as, bs) == \A x \in as, y \in bs : x.seq < y.seq

Disorder(events) ==
  \/ \E e \in With(events, "boot", "start") : e.seq # 0
  \/ ~Before(With(events, "health", "ready"), With(events, "boot", "ready"))
  \/ \E p \in Measured : ~Before(With(events, p, "start"), With(events, p, Milestone(p)))
  \/ \E p \in Prepare : ~Before(With(events, p, "complete"), With(events, "container", "start"))
  \/ ~Before(With(events, "container", "complete"), With(events, "health", "start"))

Bad == {"failed", "cancelled", "timeout"}

Failed(events) == \E e \in events : e.status \in Bad

\* damaged: the file holds a line that is no event.
Verdict(input, damaged) ==
  LET events == BySeq(input) IN
    IF Failed(events) THEN "failed"
    ELSE IF \/ Unfinished(events) \/ damaged \/ Gap(events) \/ Jumped(events)
            \/ Conflict(input) \/ Twice(events) \/ Disorder(events)
         THEN "incomplete" ELSE "ready"

----------------------------------------------------------------------------
(* Properties *)

\* What the report of a file may say: "ready" only of a boot that is READY, and only
\* from all of its events, an undamaged file and a steady clock; of a boot that is over
\* what its exit status says or "incomplete", and the former if nothing is missing.
Truthful(number, jump, damaged) ==
  LET verdict == Verdict(File(number, jump), damaged)
      intact == Range(number) = DOMAIN records /\ jump = Intact /\ ~damaged
      truth == IF code = "zero" THEN "ready" ELSE "failed"
  IN /\ verdict = "ready" => phase["boot"] = "ready" /\ intact
     /\ Over => verdict \in {truth, "incomplete"} /\ (intact => verdict = truth)

\* Two events are lost, or everything from some event on; or at most one is lost and
\* the clock jumps.
Losses == LET n == Len(records)
              few == {{}} \cup {{i} : i \in 1..n}
          IN ({{i, j} : i, j \in 1..n} \cup {i..n : i \in 1..n}) \X {Intact}
             \cup few \X (1..n)

\* What is left stands in the file in reverse order, and then once more.
Remaining(lost) ==
  LET n == Len(records)
      number(k) == IF k <= n THEN n + 1 - k ELSE k - n
  IN [k \in {l \in 1..(2 * n) : number(l) \notin lost} |-> number(k)]

\* A report never says of a boot what its exit status denies, when its events are lost,
\* repeated and reordered as above, the clock jumps, or a line is damaged
\* (boot-report.ts:71-116).
ReportTrue ==
  \A l \in Losses, damaged \in BOOLEAN : Truthful(Remaining(l[1]), l[2], damaged)
=============================================================================
