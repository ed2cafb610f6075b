---------------------------- MODULE StackUpdates ----------------------------
(***************************************************************************)
(* The policy and the settings of one serving stack: what tkf up, run and  *)
(* seed read of it, decide and deploy (ensureStackReady), beside cdk       *)
(* deploys by hand and purges.  Policies are resolved by one function on   *)
(* both sides; security settings survive only because they are recorded in *)
(* an output of the stack and passed again.                                *)
(***************************************************************************)
EXTENDS Integers, Sequences

CONSTANTS Clis,        \* sessions of tkf
          Idles, Mins, \* idle windows and minimum capacities users write
          CidrLists,   \* allow lists users write: sequences of [ip, mask]
          Ips,         \* well-formed addresses
          AzLists, Mails,
          Unset        \* an option, context or output that is not there

Modes == {"interactive", "batch", "online"}
DefaultIdle == 30

Blank == [allowedCidrs |-> <<>>, azs |-> Unset, alertEmail |-> Unset]
Settings == [allowedCidrs : CidrLists, azs : AzLists \cup {Unset}, alertEmail : Mails \cup {Unset}]

ASSUME InputsAssumption ==
  /\ Idles \subseteq Nat /\ Mins \subseteq Nat
  /\ Unset \notin Nat /\ Unset \notin Modes
  /\ Unset \notin AzLists /\ Unset \notin Mails
  /\ \A l \in CidrLists : \A i \in DOMAIN l :
       /\ l[i] = [ip |-> l[i].ip, mask |-> l[i].mask]
       /\ l[i].mask # Unset => l[i].mask \in Nat

VARIABLES stack,   \* NoStack or [recorded, mode, idle, min, settings]
          group,   \* its auto-scaling group: [min, desired]
          me       \* per session: [pc, want, keep, plan, since]

vars == <<stack, group, me>>

\* recorded: "v1" with all outputs, "policy" without readable settings, "none"
\* for a stack older than usage modes
NoStack == [recorded |-> "absent"]
NoGroup == [min |-> 0, desired |-> 0]
Deployed == stack.recorded # "absent"
HasPolicy == stack.recorded \in {"policy", "v1"}

----------------------------------------------------------------------------
(* Policies *)

Rejected == [mode |-> "rejected"]

IdleWindow(n) == n % 5 = 0 /\ n >= 5 /\ n <= 1440

IdleOf(mode, n) == IF n # Unset THEN n ELSE IF mode = "online" THEN 0 ELSE DefaultIdle
MinOf(mode, n) == IF n # Unset THEN n ELSE IF mode = "batch" THEN 0 ELSE 1

\* The idle windows a mode allows.  Fault: a batch may do without its backstop.
IdleAllowedZero(mode, n) == IF mode = "online" THEN n = 0 ELSE n = 0 \/ IdleWindow(n)
IdleAllowed(mode, n) == CASE mode = "online" -> n = 0
                          [] mode = "batch" -> IdleWindow(n)
                          [] OTHER -> n = 0 \/ IdleWindow(n)

MinAllowed(mode, n) == n \in {0, 1} /\ (mode = "batch" => n = 0)

\* resolveUsagePolicy on options or contexts [mode, idle, min]
Resolve(c) ==
  LET mode == IF c.mode = Unset THEN "interactive" ELSE c.mode
      idle == IdleOf(mode, c.idle)
      min == MinOf(mode, c.min)
  IN IF mode \in Modes /\ IdleAllowed(mode, idle) /\ MinAllowed(mode, min)
     THEN [mode |-> mode, idle |-> idle, min |-> min] ELSE Rejected

\* The outputs show the policy p; an older stack shows none.  Fault: the idle
\* window is not compared.
MatchesMode(p) == HasPolicy /\ stack.mode = p.mode
Matches(p) == HasPolicy /\ stack.mode = p.mode /\ stack.idle = p.idle

Default == Resolve([mode |-> Unset, idle |-> Unset, min |-> Unset])
IsDefault(p) == p.mode = "interactive" /\ p.idle = DefaultIdle

----------------------------------------------------------------------------
(* cdk deploy *)

\* A single address is its /32; other forms and ranges are refused.
NormalizeCidr(c) == IF c.mask = Unset THEN [c EXCEPT !.mask = 32] ELSE c
IsCidr(c) == c.ip \in Ips /\ c.mask \in 0..32
Normalized(l) == [i \in DOMAIN l |-> NormalizeCidr(l[i])]

\* Settings as the stack applies and records them
Recorded(s) == [s EXCEPT !.allowedCidrs = Normalized(@)]

\* An output that is not there is none that records settings.
ASSUME OutputAssumption == \A s \in Settings \cup {Blank} : Unset # Recorded(s)

\* What synthesizes: a policy input and settings given as contexts
Accepted(c, s) == /\ Resolve(c) # Rejected
                  /\ \A i \in DOMAIN s.allowedCidrs : IsCidr(NormalizeCidr(s.allowedCidrs[i]))

\* CloudFormation touches the group when it creates it, or when its minimum
\* changes in the template; a raised minimum raises the capacity.
GroupAfter(min) ==
  CASE ~Deployed -> [min |-> min, desired |-> min]
    [] Deployed /\ stack.min = min -> group
    [] OTHER -> [group EXCEPT !.min = min, !.desired = IF @ < min THEN min ELSE @]

\* The stack with its outputs after a deployment of policy p
Applied(p, s) ==
  /\ stack' = [recorded |-> "v1", mode |-> p.mode, idle |-> p.idle, min |-> p.min, settings |-> Recorded(s)]
  /\ group' = GroupAfter(p.min)

----------------------------------------------------------------------------
(* ensureStackReady *)

At(p, place) == me[p].pc = place
Goto(p, place) == me' = [me EXCEPT ![p].pc = place]

Locals == [pc |-> "idle", want |-> Unset, keep |-> Unset, plan |-> "none", since |-> "nothing"]
Fail(p) == me' = [me EXCEPT ![p] = [Locals EXCEPT !.pc = "failed"]]

\* Who has deployed since a session last read the stack: a tkf that knew of all
\* deployments before its own, or anything else
Noticed(q, who) ==
  IF q.pc \in {"look", "deploy", "verify", "ready"} /\ q.since # "outside" THEN [q EXCEPT !.since = who] ELSE q

\* tkf up or run with the options of the user, or tkf seed, which wants no policy
Start(p) ==
  /\ At(p, "idle") /\ UNCHANGED <<stack, group>>
  /\ \/ me' = [me EXCEPT ![p].pc = "read"]
     \/ \E mode \in Modes, n \in Idles \cup {Unset} :
          LET want == Resolve([mode |-> mode, idle |-> n, min |-> 0]) IN
          IF want = Rejected THEN Fail(p)
          ELSE me' = [me EXCEPT ![p].pc = "read", ![p].want = want]

\* Settings to be passed on again.  Fault: they are left out.
KeptBlank == Blank
Kept == stack.settings

\* With the stack as it was read: create it, use it, update it, or refuse to
\* update what has no readable settings.
Plan(want) ==
  CASE ~Deployed -> [pc |-> "deploy", keep |-> Unset]
    [] Deployed /\ (\/ want = Unset
                    \/ ~HasPolicy /\ IsDefault(want)
                    \/ Matches(want)) -> [pc |-> "ready", keep |-> Unset]
    [] OTHER -> IF stack.recorded = "v1" THEN [pc |-> "deploy", keep |-> Kept]
                                         ELSE [pc |-> "failed", keep |-> Unset]

\* A group is looked at first when either side of the change is batch.
NeedsLook(want) == Deployed /\ want # Unset /\ (want.mode = "batch" \/ (HasPolicy /\ stack.mode = "batch"))

Read(p) ==
  /\ At(p, "read") /\ UNCHANGED <<stack, group>>
  /\ \/ LET plan == Plan(me[p].want) IN
        me' = [me EXCEPT ![p].pc = IF NeedsLook(me[p].want) THEN "look" ELSE plan.pc,
                         ![p].keep = plan.keep, ![p].plan = plan.pc]
     \/ Fail(p)

\* The plan goes by what was read before the group was looked at.  A remaining
\* instance refuses like a failed call.
Look(p) ==
  /\ At(p, "look") /\ UNCHANGED <<stack, group>>
  /\ \/ Deployed /\ group.desired = 0 /\ Goto(p, me[p].plan)
     \/ Fail(p)

\* The contexts of a deployment by tkf.  Faults: the minimum is left to its
\* default, or is the one of a stack in use.
CliContextsNoMin(want) == [mode |-> want.mode, idle |-> want.idle, min |-> Unset]
CliContextsPinned(want) == [mode |-> want.mode, idle |-> want.idle, min |-> 1]
CliContexts(want) == [mode |-> want.mode, idle |-> want.idle, min |-> 0]

Contexts(p) == CliContexts(IF me[p].want = Unset THEN Default ELSE me[p].want)
Passed(p) == IF me[p].keep = Unset THEN Blank ELSE me[p].keep

\* cdk deploy, which may fail before or after it has changed the stack
Deploys(p) ==
  /\ At(p, "deploy") /\ Accepted(Contexts(p), Passed(p)) /\ Applied(Resolve(Contexts(p)), Passed(p))
  /\ \E m \in {[me[p] EXCEPT !.pc = "verify"], [Locals EXCEPT !.pc = "failed"]} :
       me' = [q \in Clis |-> IF q = p THEN m
                          ELSE Noticed(me[q], IF me[p].since = "outside" THEN "outside" ELSE "tkf")]

DeployFails(p) == At(p, "deploy") /\ Fail(p) /\ UNCHANGED <<stack, group>>

\* After an update the recorded settings are those passed on; after any
\* deployment the outputs show the wanted policy.
AsWanted(m) ==
  /\ m.keep # Unset => stack.recorded = "v1" /\ stack.settings = m.keep
  /\ m.want # Unset => Matches(m.want) \/ (~HasPolicy /\ IsDefault(m.want))

Verify(p) ==
  /\ At(p, "verify") /\ UNCHANGED <<stack, group>>
  /\ \/ Deployed /\ AsWanted(me[p]) /\ me' = [me EXCEPT ![p].pc = "ready", ![p].since = "nothing"]
     \/ Fail(p)

----------------------------------------------------------------------------
(* The others *)

Outside == [q \in Clis |-> Noticed(me[q], "outside")]

\* What deploys by hand: policies and settings from any contexts that synthesize
ByHand == {x \in ([mode : Modes \cup {Unset}, idle : Idles \cup {Unset}, min : Mins \cup {Unset}] \X Settings) :
             Accepted(x[1], x[2])}
Deployable == {<<Resolve(x[1]), Recorded(x[2])>> : x \in ByHand}

HandDeploy == (\E d \in Deployable : Applied(d[1], d[2])) /\ me' = Outside

\* tkf down --purge
Purge == Deployed /\ stack' = NoStack /\ group' = NoGroup /\ me' = Outside

\* Sessions that raise, pin or lower the capacity
Capacity ==
  /\ Deployed /\ UNCHANGED <<stack, me>>
  /\ \E desired \in {0, 1} : \E min \in 0..desired : group' = [min |-> min, desired |-> desired]

Step(p) == Start(p) \/ Read(p) \/ Look(p) \/ Deploys(p) \/ DeployFails(p) \/ Verify(p)

Next == (\E p \in Clis : Step(p)) \/ HandDeploy \/ Purge \/ Capacity

Init ==
  /\ stack = NoStack \/ \E r \in {"none", "policy"}, s \in Settings :
       stack = [recorded |-> r, mode |-> "interactive", idle |-> DefaultIdle, min |-> 0,
                settings |-> [s EXCEPT !.allowedCidrs = <<>>]]
  /\ group = NoGroup
  /\ me = [p \in Clis |-> Locals]

Spec == Init /\ [][Next]_vars

----------------------------------------------------------------------------
(* Properties *)

IsPolicy(p) == p.mode \in Modes /\ p.idle \in Nat /\ p.min \in {0, 1}

\* Every variable holds a value the program can give it; whatever deployed the
\* stack, a batch stack has a backstop and no minimum, and an online stack has no
\* idle stop (usage-mode.ts:58-63).
TypeOK ==
  /\ Deployed => /\ stack.recorded \in {"none", "policy", "v1"} /\ IsPolicy(stack)
                 /\ stack.mode = "batch" => stack.idle > 0 /\ stack.min = 0
                 /\ stack.mode = "online" => stack.idle = 0
                 /\ \A i \in DOMAIN stack.settings.allowedCidrs : IsCidr(stack.settings.allowedCidrs[i])
  /\ group \in [min : {0, 1}, desired : {0, 1}] /\ group.min <= group.desired
  /\ \A p \in Clis : me[p].want # Unset => IsPolicy(me[p].want)

\* No number of sessions changes the security settings of a stack among
\* themselves: it takes a deployment by hand or a purge that a session, or one
\* that deployed before it, has not seen (up.ts:70-84, deployment-settings.ts:1-3).
SettingsKept ==
  [][\A p \in Clis : Deploys(p) /\ Deployed /\ me[p].since # "outside"
       => stack'.settings = stack.settings]_vars

\* A session that goes on has the policy it asked for in force, until somebody
\* else deploys; only a stack without a record is used as it is, for the default
\* policy (up.ts:65-90).
PolicyInForce ==
  \A p \in Clis : At(p, "ready") /\ me[p].want # Unset /\ me[p].since = "nothing" =>
    Deployed /\ IF HasPolicy THEN stack.mode = me[p].want.mode /\ stack.idle = me[p].want.idle
                ELSE IsDefault(me[p].want)

\* An update by tkf never starts a GPU nor pins one (up.ts:34).
NoGpuByDeploy ==
  [][\A p \in Clis : Deploys(p) => group'.desired <= group.desired /\ group'.min <= group.min]_vars

\* What tkf has resolved and what a stack has recorded, cdk accepts: the two
\* sides never disagree in the middle of an update (usage-mode.ts:1-3, 98-101).
SynthAccepts == \A p \in Clis : At(p, "deploy") => Accepted(Contexts(p), Passed(p))
=============================================================================
