-------------------------- MODULE StackUpdatesProofs --------------------------
(***************************************************************************)
(* Theorems about StackUpdates, for every set of sessions, policies and    *)
(* settings.                                                               *)
(***************************************************************************)
EXTENDS StackUpdates, TLAPS

----------------------------------------------------------------------------
(* Policies.  What resolves is a policy, and resolves again to itself.         *)

Resolved == {p \in [mode : Modes, idle : Nat, min : {0, 1}] :
               IdleAllowed(p.mode, p.idle) /\ MinAllowed(p.mode, p.min)}

Wants == {w \in Resolved : w.min = 0}

(* Options of the user, or contexts.                                           *)
Inputs == [mode : Modes \cup {Unset}, idle : Nat \cup {Unset}, min : Nat \cup {Unset}]

LEMMA ResolvesToPolicy ==
  ASSUME NEW c \in Inputs, Resolve(c) # Rejected
  PROVE  Resolve(c) \in Resolved
<1> DEFINE mode == IF c.mode = Unset THEN "interactive" ELSE c.mode
           idle == IdleOf(mode, c.idle)
           min == MinOf(mode, c.min)
<1>1. mode \in Modes BY DEF Inputs, Modes
<1>2. idle \in Nat BY InputsAssumption DEF Inputs, IdleOf, DefaultIdle
<1>3. /\ IdleAllowed(mode, idle) /\ MinAllowed(mode, min)
      /\ Resolve(c) = [mode |-> mode, idle |-> idle, min |-> min]
  BY DEF Resolve
<1>4. min \in {0, 1} BY <1>3 DEF MinAllowed
<1> QED BY <1>1, <1>2, <1>3, <1>4 DEF Resolved

LEMMA ContextsResolve ==
  ASSUME NEW w \in Resolved
  PROVE  /\ CliContexts(w) \in Inputs
         /\ Resolve(CliContexts(w)) = [mode |-> w.mode, idle |-> w.idle, min |-> 0]
         /\ Resolve(CliContexts(w)) # Rejected
<1>1. w.mode \in Modes /\ w.idle \in Nat /\ IdleAllowed(w.mode, w.idle) BY DEF Resolved
<1>2. w.mode # Unset /\ w.idle # Unset /\ Unset # 0 BY <1>1, InputsAssumption
<1>3. IdleOf(w.mode, w.idle) = w.idle /\ MinOf(w.mode, 0) = 0 /\ MinAllowed(w.mode, 0)
  BY <1>2 DEF IdleOf, MinOf, MinAllowed
<1>4. Resolve(CliContexts(w)) = [mode |-> w.mode, idle |-> w.idle, min |-> 0]
  BY <1>1, <1>2, <1>3 DEF Resolve, CliContexts
<1>5. w.mode # "rejected" BY <1>1 DEF Modes
<1> QED BY <1>1, <1>4, <1>5 DEF CliContexts, Inputs, Rejected

LEMMA DefaultResolves == Default \in Resolved
<1>1. 30 % 5 = 0 OBVIOUS
<1>2. Default = [mode |-> "interactive", idle |-> 30, min |-> 1]
  BY <1>1 DEF Default, Resolve, IdleOf, MinOf, DefaultIdle, IdleAllowed, IdleWindow, MinAllowed, Modes
<1> QED BY <1>1, <1>2 DEF Resolved, IdleAllowed, IdleWindow, MinAllowed, Modes

----------------------------------------------------------------------------
(* Settings.  What a stack records is recorded again as it is.                 *)

Valid(s) == \A i \in DOMAIN s.allowedCidrs : IsCidr(NormalizeCidr(s.allowedCidrs[i]))

Records == {Recorded(s) : s \in {t \in Settings \cup {Blank} : Valid(t)}}

LEMMA NormalizeIdempotent ==
  ASSUME NEW ip, NEW mask
  PROVE  LET c == [ip |-> ip, mask |-> mask] IN NormalizeCidr(NormalizeCidr(c)) = NormalizeCidr(c)
BY DEF NormalizeCidr

LEMMA RecordsAreFixed ==
  ASSUME NEW k \in Records
  PROVE  /\ Recorded(k) = k
         /\ Valid(k)
         /\ \A i \in DOMAIN k.allowedCidrs : IsCidr(k.allowedCidrs[i])
         /\ k # Unset
<1>1. PICK s \in Settings \cup {Blank} : Valid(s) /\ k = Recorded(s) BY DEF Records
<1>2. \A i \in DOMAIN s.allowedCidrs :
        NormalizeCidr(NormalizeCidr(s.allowedCidrs[i])) = NormalizeCidr(s.allowedCidrs[i])
  <2>1. CASE s = Blank BY <2>1 DEF Blank
  <2>2. CASE s \in Settings
    <3> SUFFICES ASSUME NEW i \in DOMAIN s.allowedCidrs
                 PROVE  NormalizeCidr(NormalizeCidr(s.allowedCidrs[i])) = NormalizeCidr(s.allowedCidrs[i])
      OBVIOUS
    <3>1. s.allowedCidrs \in CidrLists BY <2>2 DEF Settings
    <3>2. s.allowedCidrs[i] = [ip |-> s.allowedCidrs[i].ip, mask |-> s.allowedCidrs[i].mask]
      BY <3>1, InputsAssumption
    <3> QED BY <3>2, NormalizeIdempotent
  <2> QED BY <1>1, <2>1, <2>2
<1>3. /\ k.allowedCidrs = Normalized(s.allowedCidrs)
      /\ k = [allowedCidrs |-> Normalized(s.allowedCidrs), azs |-> s.azs, alertEmail |-> s.alertEmail]
  BY <1>1 DEF Recorded, Settings, Blank
<1>4. Normalized(k.allowedCidrs) = k.allowedCidrs
  BY <1>2, <1>3 DEF Normalized
<1>5. Recorded(k) = k BY <1>3, <1>4 DEF Recorded
<1>6. \A i \in DOMAIN k.allowedCidrs : IsCidr(k.allowedCidrs[i]) /\ IsCidr(NormalizeCidr(k.allowedCidrs[i]))
  BY <1>1, <1>2, <1>3 DEF Normalized, Valid
<1> QED BY <1>1, <1>5, <1>6, OutputAssumption DEF Valid

LEMMA BlankIsRecord == Recorded(Blank) \in Records
BY DEF Records, Valid, Blank

----------------------------------------------------------------------------
(* Types.                                                                      *)

Places == {"idle", "read", "look", "deploy", "verify", "ready", "failed"}

Session ==
  {m \in [pc : Places, want : Wants \cup {Unset}, keep : Records \cup {Unset},
          plan : {"none", "deploy", "ready", "failed"}, since : {"nothing", "tkf", "outside"}] :
     m.pc = "look" => m.plan # "none"}

(* Settings of a stack that does not record them                               *)
OldSettings == {[s EXCEPT !.allowedCidrs = <<>>] : s \in Settings}

StackTyped ==
  Deployed => /\ stack \in [recorded : {"none", "policy", "v1"}, mode : Modes, idle : Nat, min : {0, 1},
                            settings : Records \cup OldSettings]
              /\ IdleAllowed(stack.mode, stack.idle) /\ MinAllowed(stack.mode, stack.min)
              /\ stack.recorded = "v1" => stack.settings \in Records

GroupTyped == group \in [min : {0, 1}, desired : {0, 1}] /\ group.min <= group.desired

Typed == StackTyped /\ GroupTyped /\ me \in [Clis -> Session]

LEMMA TypedIsTypeOK == Typed => TypeOK
<1> SUFFICES ASSUME Typed PROVE TypeOK OBVIOUS
<1>1. Deployed => /\ stack.recorded \in {"none", "policy", "v1"} /\ IsPolicy(stack)
                  /\ stack.mode = "batch" => stack.idle > 0 /\ stack.min = 0
                  /\ stack.mode = "online" => stack.idle = 0
  BY DEF Typed, StackTyped, IsPolicy, IdleAllowed, IdleWindow, MinAllowed
<1>2. Deployed => \A i \in DOMAIN stack.settings.allowedCidrs : IsCidr(stack.settings.allowedCidrs[i])
  <2> SUFFICES ASSUME Deployed, NEW i \in DOMAIN stack.settings.allowedCidrs
               PROVE  IsCidr(stack.settings.allowedCidrs[i])
    OBVIOUS
  <2>1. CASE stack.settings \in Records BY <2>1, RecordsAreFixed
  <2>2. CASE stack.settings \in OldSettings
    <3>1. stack.settings.allowedCidrs = <<>> BY <2>2 DEF OldSettings, Settings
    <3> QED BY <3>1
  <2> QED BY <2>1, <2>2 DEF Typed, StackTyped
<1>3. \A p \in Clis : me[p].want # Unset => IsPolicy(me[p].want)
  BY DEF Typed, Session, Wants, Resolved, IsPolicy
<1> QED BY <1>1, <1>2, <1>3 DEF Typed, GroupTyped, TypeOK

(* A deployment of a policy with settings that can be recorded                 *)
LEMMA AppliedTyped ==
  ASSUME Typed, NEW p \in Resolved, NEW s, Recorded(s) \in Records, Applied(p, s)
  PROVE  /\ StackTyped' /\ GroupTyped' /\ Deployed' /\ HasPolicy'
         /\ stack'.recorded = "v1" /\ stack'.mode = p.mode /\ stack'.idle = p.idle
         /\ stack'.settings = Recorded(s)
<1>1. stack' = [recorded |-> "v1", mode |-> p.mode, idle |-> p.idle, min |-> p.min, settings |-> Recorded(s)]
  BY DEF Applied
<1>2. p.mode \in Modes /\ p.idle \in Nat /\ p.min \in {0, 1} /\ IdleAllowed(p.mode, p.idle)
      /\ MinAllowed(p.mode, p.min)
  BY DEF Resolved
<1>3. StackTyped' /\ Deployed' /\ HasPolicy' BY <1>1, <1>2 DEF StackTyped, Deployed, HasPolicy
<1>4. GroupTyped'
  <2>1. group' = GroupAfter(p.min) BY DEF Applied
  <2>2. group = [min |-> group.min, desired |-> group.desired] BY DEF Typed, GroupTyped
  <2>3. GroupAfter(p.min) \in {[min |-> p.min, desired |-> p.min], group,
                               [min |-> p.min, desired |-> IF group.desired < p.min THEN p.min ELSE group.desired]}
    BY <2>2 DEF GroupAfter
  <2> QED BY <1>2, <2>1, <2>3 DEF Typed, GroupTyped
<1> QED BY <1>1, <1>3, <1>4

(* What a session deploys, which cdk accepts                                   *)
LEMMA SessionsDeploy ==
  ASSUME Typed, NEW p \in Clis
  PROVE  /\ Resolve(Contexts(p)) \in Resolved /\ Resolve(Contexts(p)).min = 0
         /\ me[p].want # Unset => /\ Resolve(Contexts(p)).mode = me[p].want.mode
                                  /\ Resolve(Contexts(p)).idle = me[p].want.idle
         /\ Recorded(Passed(p)) \in Records
         /\ Accepted(Contexts(p), Passed(p))
<1> DEFINE w == IF me[p].want = Unset THEN Default ELSE me[p].want
<1>0. me[p] \in Session BY DEF Typed
<1>1. w \in Resolved BY <1>0, DefaultResolves DEF Session, Wants
<1>2. Contexts(p) = CliContexts(w) BY DEF Contexts
<1>3. /\ Contexts(p) \in Inputs /\ Resolve(Contexts(p)) # Rejected
      /\ Resolve(Contexts(p)) = [mode |-> w.mode, idle |-> w.idle, min |-> 0]
  BY <1>1, <1>2, ContextsResolve
<1>4. Resolve(Contexts(p)) \in Resolved BY <1>3, ResolvesToPolicy
<1>5. Recorded(Passed(p)) \in Records /\ Valid(Passed(p))
  <2>1. CASE me[p].keep = Unset
    BY <2>1, BlankIsRecord DEF Passed, Valid, Blank
  <2>2. CASE me[p].keep # Unset
    BY <1>0, <2>2, RecordsAreFixed DEF Passed, Session
  <2> QED BY <2>1, <2>2
<1> QED BY <1>3, <1>4, <1>5 DEF Accepted, Valid

(* A deployment by hand                                                        *)
LEMMA HandsDeploy ==
  ASSUME NEW d \in Deployable
  PROVE  d[1] \in Resolved /\ \E s \in Settings : d[2] = Recorded(s) /\ Recorded(s) \in Records
<1>1. PICK x \in ByHand : d = <<Resolve(x[1]), Recorded(x[2])>> BY DEF Deployable
<1>2. x[1] \in Inputs /\ x[2] \in Settings /\ Accepted(x[1], x[2])
  BY <1>1, InputsAssumption DEF ByHand, Inputs
<1>3. Resolve(x[1]) \in Resolved BY <1>2, ResolvesToPolicy DEF Accepted
<1>4. Recorded(x[2]) \in Records BY <1>2 DEF Records, Accepted, Valid
<1> QED BY <1>1, <1>2, <1>3, <1>4

----------------------------------------------------------------------------
(* What a session knows of the stack that it read.  It goes by it until it has *)
(* deployed or been refused, and notices no other deployment on the way.       *)

InForce(w) == Deployed /\ (Matches(w) \/ (~HasPolicy /\ IsDefault(w)))

Planned(m, place) == m.pc = place \/ (m.pc = "look" /\ m.plan = place)

(* The settings m would pass on are those of the stack.                        *)
Knows(m) == IF m.keep = Unset THEN ~Deployed \/ stack.settings = Recorded(Blank)
                              ELSE Deployed /\ stack.settings = m.keep

UsesWhatItWanted(m) == Planned(m, "ready") /\ m.want # Unset /\ m.since = "nothing" => InForce(m.want)
PassesOnWhatIs(m) == Planned(m, "deploy") /\ m.since # "outside" => Knows(m)

Inv == Typed /\ \A p \in Clis : UsesWhatItWanted(me[p]) /\ PassesOnWhatIs(me[p])

(* A step of a session that leaves the stack alone                             *)
Quiet(p) == Start(p) \/ Read(p) \/ Look(p) \/ DeployFails(p) \/ Verify(p)

LEMMA FailedSession ==
  LET m == [Locals EXCEPT !.pc = "failed"]
  IN  m \in Session /\ UsesWhatItWanted(m) /\ PassesOnWhatIs(m)
<1>1. [Locals EXCEPT !.pc = "failed"] =
        [pc |-> "failed", want |-> Unset, keep |-> Unset, plan |-> "none", since |-> "nothing"]
  BY DEF Locals
<1> QED BY <1>1 DEF Session, Places, UsesWhatItWanted, PassesOnWhatIs, Planned

LEMMA QuietSteps ==
  ASSUME Inv, NEW p \in Clis, Quiet(p)
  PROVE  /\ UNCHANGED <<stack, group>>
         /\ \E m \in Session : me' = [me EXCEPT ![p] = m] /\ UsesWhatItWanted(m) /\ PassesOnWhatIs(m)
<1> DEFINE Goal == \E m \in Session : me' = [me EXCEPT ![p] = m] /\ UsesWhatItWanted(m) /\ PassesOnWhatIs(m)
<1>0. me[p] \in Session /\ me \in [Clis -> Session] /\ UsesWhatItWanted(me[p]) /\ PassesOnWhatIs(me[p])
  BY DEF Inv, Typed
<1>1. UNCHANGED <<stack, group>> BY DEF Quiet, Start, Read, Look, DeployFails, Verify
<1>2. ASSUME Fail(p) PROVE Goal BY <1>2, FailedSession DEF Fail
<1>3. ASSUME Start(p), ~Fail(p) PROVE Goal
  <2>1. me[p].pc = "idle" BY <1>3 DEF Start, At
  <2>2. CASE me' = [me EXCEPT ![p].pc = "read"]
    <3> DEFINE m == [me[p] EXCEPT !.pc = "read"]
    <3>1. m \in Session /\ me' = [me EXCEPT ![p] = m] BY <1>0, <2>2 DEF Session, Places
    <3>2. UsesWhatItWanted(m) /\ PassesOnWhatIs(m)
      BY <1>0 DEF Session, UsesWhatItWanted, PassesOnWhatIs, Planned
    <3> QED BY <3>1, <3>2
  <2>3. ASSUME NEW mode \in Modes, NEW n \in Idles \cup {Unset}, NEW want,
               want = Resolve([mode |-> mode, idle |-> n, min |-> 0]), want # Rejected,
               me' = [me EXCEPT ![p].pc = "read", ![p].want = want]
        PROVE  Goal
    <3> DEFINE m == [me[p] EXCEPT !.pc = "read", !.want = want]
    <3>1. want \in Resolved BY <2>3, InputsAssumption, ResolvesToPolicy DEF Inputs
    <3>2. want.min = 0 BY <2>3, InputsAssumption DEF Resolve, MinOf
    <3>3. m \in Session /\ me' = [me EXCEPT ![p] = m] BY <1>0, <2>3, <3>1, <3>2 DEF Session, Places, Wants
    <3>4. UsesWhatItWanted(m) /\ PassesOnWhatIs(m)
      BY <1>0 DEF Session, UsesWhatItWanted, PassesOnWhatIs, Planned
    <3> QED BY <3>3, <3>4
  <2> HIDE DEF Goal
  <2> QED BY <1>3, <2>2, <2>3 DEF Start
<1>4. ASSUME Read(p), ~Fail(p) PROVE Goal
  <2> DEFINE plan == Plan(me[p].want)
             m == [me[p] EXCEPT !.pc = IF NeedsLook(me[p].want) THEN "look" ELSE plan.pc,
                                !.keep = plan.keep, !.plan = plan.pc]
  <2>1. me' = [me EXCEPT ![p] = m] BY <1>0, <1>4 DEF Read, Session
  <2>2. /\ plan.pc \in {"deploy", "ready", "failed"} /\ plan.keep \in Records \cup {Unset}
        /\ plan.pc = "ready" => Deployed /\ (me[p].want = Unset \/ InForce(me[p].want))
        /\ plan.pc = "deploy" => IF plan.keep = Unset THEN ~Deployed ELSE Deployed /\ plan.keep = stack.settings
    <3>1. CASE ~Deployed BY <3>1 DEF Plan
    <3>2. CASE Deployed /\ (\/ me[p].want = Unset
                            \/ ~HasPolicy /\ IsDefault(me[p].want)
                            \/ Matches(me[p].want))
      <4>1. plan = [pc |-> "ready", keep |-> Unset] BY <3>2 DEF Plan
      <4> QED BY <3>2, <4>1 DEF InForce
    <3>3. CASE Deployed /\ ~(\/ me[p].want = Unset
                             \/ ~HasPolicy /\ IsDefault(me[p].want)
                             \/ Matches(me[p].want))
      <4>1. plan = IF stack.recorded = "v1" THEN [pc |-> "deploy", keep |-> stack.settings]
                                            ELSE [pc |-> "failed", keep |-> Unset]
        BY <3>3 DEF Plan, Kept
      <4>2. stack.recorded = "v1" => stack.settings \in Records BY <3>3 DEF Inv, Typed, StackTyped
      <4> QED BY <3>3, <4>1, <4>2, RecordsAreFixed
    <3> QED BY <3>1, <3>2, <3>3
  <2> HIDE DEF plan
  <2>3. m \in Session BY <1>0, <2>2 DEF Session, Places
  <2>4. /\ m.keep = plan.keep /\ m.want = me[p].want /\ m.pc \in {"look", plan.pc} /\ m.plan = plan.pc
    BY <1>0 DEF Session
  <2>5. UsesWhatItWanted(m) BY <2>2, <2>4 DEF UsesWhatItWanted, Planned
  <2>6. PassesOnWhatIs(m) BY <2>2, <2>4 DEF PassesOnWhatIs, Planned, Knows
  <2> QED BY <2>1, <2>3, <2>5, <2>6
<1>5. ASSUME Look(p), ~Fail(p) PROVE Goal
  <2> DEFINE m == [me[p] EXCEPT !.pc = me[p].plan]
  <2>1. me' = [me EXCEPT ![p] = m] /\ me[p].pc = "look" BY <1>0, <1>5 DEF Look, Goto, At
  <2>2. m \in Session BY <1>0, <2>1 DEF Session, Places
  <2>3. m.pc = me[p].plan /\ m.want = me[p].want /\ m.keep = me[p].keep /\ m.plan = me[p].plan
        /\ m.since = me[p].since
    BY <1>0 DEF Session
  <2>4. UsesWhatItWanted(m) /\ PassesOnWhatIs(m)
    BY <1>0, <2>1, <2>3 DEF UsesWhatItWanted, PassesOnWhatIs, Planned, Knows
  <2> QED BY <2>1, <2>2, <2>4
<1>6. ASSUME Verify(p), ~Fail(p) PROVE Goal
  <2> DEFINE m == [me[p] EXCEPT !.pc = "ready", !.since = "nothing"]
  <2>1. me' = [me EXCEPT ![p] = m] /\ Deployed /\ AsWanted(me[p]) BY <1>0, <1>6 DEF Verify, Session
  <2>2. m \in Session BY <1>0 DEF Session, Places
  <2>3. m.pc = "ready" /\ m.want = me[p].want BY <1>0 DEF Session
  <2>4. UsesWhatItWanted(m) /\ PassesOnWhatIs(m)
    BY <2>1, <2>3 DEF UsesWhatItWanted, PassesOnWhatIs, Planned, AsWanted, InForce
  <2> QED BY <2>1, <2>2, <2>4
<1> QED BY <1>1, <1>2, <1>3, <1>4, <1>5, <1>6 DEF Quiet, DeployFails

(* A deployment noticed by session q                                           *)
LEMMA NoticedSession ==
  ASSUME NEW q \in Session, NEW who \in {"tkf", "outside"}
  PROVE  /\ Noticed(q, who) \in Session
         /\ ~(Planned(Noticed(q, who), "ready") /\ Noticed(q, who).since = "nothing")
         /\ Planned(Noticed(q, who), "deploy") /\ Noticed(q, who).since # "outside" =>
              who = "tkf" /\ q.since # "outside" /\ Planned(q, "deploy") /\ Noticed(q, who).keep = q.keep
<1>1. CASE q.pc \in {"look", "deploy", "verify", "ready"} /\ q.since # "outside"
  <2>1. Noticed(q, who) = [q EXCEPT !.since = who] BY <1>1 DEF Noticed
  <2> QED BY <1>1, <2>1 DEF Session, Planned
<1>2. CASE ~(q.pc \in {"look", "deploy", "verify", "ready"} /\ q.since # "outside")
  <2>1. Noticed(q, who) = q BY <1>2 DEF Noticed
  <2> QED BY <1>2, <2>1 DEF Planned
<1> QED BY <1>1, <1>2

(* A deployment by session p: those who notice it go on to know the stack,     *)
(* because p has passed on the settings that they know.                        *)
LEMMA DeploysPreserves ==
  ASSUME Inv, NEW p \in Clis, Deploys(p)
  PROVE  /\ Inv'
         /\ Deployed /\ me[p].since # "outside" => stack'.settings = stack.settings
         /\ group'.desired <= group.desired /\ group'.min <= group.min
<1> DEFINE policy == Resolve(Contexts(p))
           who == IF me[p].since = "outside" THEN "outside" ELSE "tkf"
<1>0. me \in [Clis -> Session] /\ Typed /\ me[p].pc = "deploy" BY DEF Inv, Typed, Deploys, At
<1>1. /\ policy \in Resolved /\ policy.min = 0 /\ Recorded(Passed(p)) \in Records
      /\ Applied(policy, Passed(p))
  BY <1>0, SessionsDeploy DEF Deploys
<1>2. /\ StackTyped' /\ GroupTyped' /\ Deployed' /\ stack'.settings = Recorded(Passed(p))
  BY <1>0, <1>1, AppliedTyped
<1>3. group'.desired <= group.desired /\ group'.min <= group.min
  <2>1. group' = GroupAfter(0) BY <1>1 DEF Applied
  <2>2. group = [min |-> group.min, desired |-> group.desired] /\ group.min \in {0, 1} /\ group.desired \in {0, 1}
    BY <1>0 DEF Typed, GroupTyped
  <2>3. GroupAfter(0) \in {[min |-> 0, desired |-> 0], group, [min |-> 0, desired |-> group.desired]}
    BY <2>2 DEF GroupAfter
  <2> QED BY <2>1, <2>2, <2>3
<1>4. me[p].since # "outside" =>
        IF me[p].keep = Unset THEN ~Deployed \/ stack.settings = Recorded(Blank)
                              ELSE Deployed /\ stack.settings = me[p].keep
  BY <1>0 DEF Inv, PassesOnWhatIs, Planned, Knows
<1>5. stack'.settings = IF me[p].keep = Unset THEN Recorded(Blank) ELSE me[p].keep
  BY <1>0, <1>2, RecordsAreFixed DEF Passed, Session
<1>6. Deployed /\ me[p].since # "outside" => stack'.settings = stack.settings BY <1>4, <1>5
<1>7. PICK m \in {[me[p] EXCEPT !.pc = "verify"], [Locals EXCEPT !.pc = "failed"]} :
        me' = [q \in Clis |-> IF q = p THEN m ELSE Noticed(me[q], who)]
  BY DEF Deploys
<1>8. m \in Session /\ ~Planned(m, "ready") /\ ~Planned(m, "deploy")
  <2>1. CASE m = [me[p] EXCEPT !.pc = "verify"] BY <1>0, <2>1 DEF Session, Places, Planned
  <2>2. CASE m = [Locals EXCEPT !.pc = "failed"] BY <2>2, FailedSession DEF Locals, Planned
  <2> QED BY <2>1, <2>2
<1>9. ASSUME NEW q \in Clis
      PROVE  me'[q] \in Session /\ UsesWhatItWanted(me[q])' /\ PassesOnWhatIs(me[q])'
  <2>1. CASE q = p BY <1>7, <1>8, <2>1 DEF UsesWhatItWanted, PassesOnWhatIs, Planned
  <2>2. CASE q # p
    <3>1. me'[q] = Noticed(me[q], who) /\ me[q] \in Session BY <1>0, <1>7, <2>2
    <3>2. /\ me'[q] \in Session /\ ~(Planned(me'[q], "ready") /\ me'[q].since = "nothing")
          /\ Planned(me'[q], "deploy") /\ me'[q].since # "outside" =>
               me[p].since # "outside" /\ me[q].since # "outside" /\ Planned(me[q], "deploy")
               /\ me'[q].keep = me[q].keep
      BY <3>1, NoticedSession
    <3>3. UsesWhatItWanted(me[q])' BY <3>2 DEF UsesWhatItWanted, Planned
    <3>4. ASSUME Planned(me'[q], "deploy"), me'[q].since # "outside"
          PROVE  IF me'[q].keep = Unset THEN stack'.settings = Recorded(Blank)
                                        ELSE stack'.settings = me'[q].keep
      <4>1. IF me[q].keep = Unset THEN ~Deployed \/ stack.settings = Recorded(Blank)
                                  ELSE Deployed /\ stack.settings = me[q].keep
        BY <3>2, <3>4 DEF Inv, PassesOnWhatIs, Knows
      <4> QED BY <1>4, <1>5, <3>2, <3>4, <4>1
    <3>5. PassesOnWhatIs(me[q])' BY <1>2, <3>4 DEF PassesOnWhatIs, Planned, Knows
    <3> QED BY <3>2, <3>3, <3>5
  <2> QED BY <2>1, <2>2
<1>10. me' \in [Clis -> Session] BY <1>7, <1>9
<1> QED BY <1>2, <1>3, <1>6, <1>9, <1>10 DEF Inv, Typed

LEMMA OutsidePreserves ==
  ASSUME Inv, StackTyped', GroupTyped', me' = Outside
  PROVE  Inv'
<1>0. me \in [Clis -> Session] BY DEF Inv, Typed
<1>1. ASSUME NEW q \in Clis
      PROVE  me'[q] \in Session /\ UsesWhatItWanted(me[q])' /\ PassesOnWhatIs(me[q])'
  <2>1. me'[q] = Noticed(me[q], "outside") /\ me[q] \in Session BY <1>0 DEF Outside
  <2>2. me'[q] \in Session /\ ~(Planned(me'[q], "ready") /\ me'[q].since = "nothing")
        /\ ~(Planned(me'[q], "deploy") /\ me'[q].since # "outside")
    BY <2>1, NoticedSession
  <2> QED BY <2>2 DEF UsesWhatItWanted, PassesOnWhatIs, Planned
<1>2. me' \in [Clis -> Session] BY <1>1 DEF Outside
<1> QED BY <1>1, <1>2 DEF Inv, Typed

LEMMA InitInv == Init => Inv
<1> SUFFICES ASSUME Init PROVE Inv OBVIOUS
<1>1. 30 % 5 = 0 OBVIOUS
<1>2. StackTyped
  <2>1. CASE stack = NoStack BY <2>1 DEF StackTyped, Deployed, NoStack
  <2>2. ASSUME NEW r \in {"none", "policy"}, NEW s \in Settings,
               stack = [recorded |-> r, mode |-> "interactive", idle |-> DefaultIdle, min |-> 0,
                        settings |-> [s EXCEPT !.allowedCidrs = <<>>]]
        PROVE  StackTyped
    BY <1>1, <2>2 DEF StackTyped, OldSettings, Modes, DefaultIdle, IdleAllowed, IdleWindow, MinAllowed
  <2> QED BY <2>1, <2>2 DEF Init
<1>3. GroupTyped BY DEF Init, NoGroup, GroupTyped
<1>4. \A p \in Clis : me[p] = Locals BY DEF Init
<1>5. Locals \in Session BY DEF Locals, Session, Places
<1>6. \A p \in Clis : UsesWhatItWanted(me[p]) /\ PassesOnWhatIs(me[p])
  <2>1. Locals.pc = "idle" BY DEF Locals
  <2> QED BY <1>4, <2>1 DEF UsesWhatItWanted, PassesOnWhatIs, Planned
<1>7. me \in [Clis -> Session] BY <1>5 DEF Init
<1> QED BY <1>2, <1>3, <1>6, <1>7 DEF Inv, Typed

LEMMA InvPreserved == Inv /\ [Next]_vars => Inv'
<1> SUFFICES ASSUME Inv, [Next]_vars PROVE Inv' OBVIOUS
<1>0. Typed /\ me \in [Clis -> Session] BY DEF Inv, Typed
<1>1. ASSUME NEW p \in Clis, Step(p) PROVE Inv'
  <2>1. CASE Deploys(p) BY <2>1, DeploysPreserves
  <2>2. CASE Quiet(p)
    <3>1. PICK m \in Session : me' = [me EXCEPT ![p] = m] /\ UsesWhatItWanted(m) /\ PassesOnWhatIs(m)
      BY <2>2, QuietSteps
    <3>2. UNCHANGED <<stack, group>> BY <2>2, QuietSteps
    <3>3. \A q \in Clis : UsesWhatItWanted(me'[q]) /\ PassesOnWhatIs(me'[q])
      BY <1>0, <3>1 DEF Inv
    <3>4. \A q \in Clis : UsesWhatItWanted(me[q])' /\ PassesOnWhatIs(me[q])'
      BY <3>2, <3>3 DEF UsesWhatItWanted, PassesOnWhatIs, Planned, InForce, Matches, HasPolicy, Deployed, Knows
    <3>5. me' \in [Clis -> Session] BY <1>0, <3>1
    <3>6. StackTyped' /\ GroupTyped'
      BY <1>0, <3>2 DEF Typed, StackTyped, GroupTyped, Deployed
    <3> QED BY <3>4, <3>5, <3>6 DEF Inv, Typed
  <2> QED BY <1>1, <2>1, <2>2 DEF Step, Quiet
<1>2. CASE HandDeploy
  <2>1. PICK d \in Deployable : Applied(d[1], d[2]) BY <1>2 DEF HandDeploy
  <2>2. PICK s \in Settings : d[2] = Recorded(s) /\ Recorded(s) \in Records BY <2>1, HandsDeploy
  <2>3. d[1] \in Resolved /\ Recorded(d[2]) \in Records BY <2>1, <2>2, HandsDeploy, RecordsAreFixed
  <2>4. StackTyped' /\ GroupTyped' BY <1>0, <2>1, <2>3, AppliedTyped
  <2> QED BY <1>2, <2>4, OutsidePreserves DEF HandDeploy
<1>3. CASE Purge
  <2>1. StackTyped' /\ GroupTyped' BY <1>3 DEF Purge, NoStack, NoGroup, StackTyped, GroupTyped, Deployed
  <2> QED BY <1>3, <2>1, OutsidePreserves DEF Purge
<1>4. CASE Capacity
  <2>1. GroupTyped' BY <1>4 DEF Capacity, GroupTyped
  <2>2. StackTyped' BY <1>0, <1>4 DEF Capacity, Typed, StackTyped, Deployed
  <2>3. \A q \in Clis : UsesWhatItWanted(me[q])' /\ PassesOnWhatIs(me[q])'
    BY <1>4 DEF Capacity, Inv, UsesWhatItWanted, PassesOnWhatIs, Planned, InForce, Matches, HasPolicy, Deployed,
       Knows
  <2> QED BY <1>0, <1>4, <2>1, <2>2, <2>3 DEF Capacity, Inv, Typed
<1>5. CASE UNCHANGED vars
  BY <1>5 DEF vars, Inv, Typed, StackTyped, GroupTyped, UsesWhatItWanted, PassesOnWhatIs, Planned, InForce,
     Matches, HasPolicy, Deployed, Knows
<1> QED BY <1>1, <1>2, <1>3, <1>4, <1>5 DEF Next

LEMMA Invariant == Spec => []Inv
BY InitInv, InvPreserved, PTL DEF Spec

----------------------------------------------------------------------------

(* Whatever deploys the stack, a batch stack has a backstop and no minimum, an *)
(* online stack has no idle stop, and its allow list is well formed.           *)
THEOREM TypeCorrect == Spec => []TypeOK
<1>1. Inv => TypeOK BY TypedIsTypeOK DEF Inv
<1> QED BY <1>1, Invariant, PTL

(* A session that goes on has the policy that it asked for in force, as long   *)
(* as nobody else deploys.                                                     *)
THEOREM PolicyIsInForce == Spec => []PolicyInForce
<1>1. Inv => PolicyInForce
  BY DEF Inv, UsesWhatItWanted, Planned, InForce, PolicyInForce, At, Matches
<1> QED BY <1>1, Invariant, PTL

(* What tkf has resolved and what a stack has recorded, cdk accepts.           *)
THEOREM SynthAlwaysAccepts == Spec => []SynthAccepts
<1>1. Inv => SynthAccepts BY SessionsDeploy DEF Inv, SynthAccepts
<1> QED BY <1>1, Invariant, PTL

(* No number of sessions changes the security settings of a stack among        *)
(* themselves, in any interleaving of their reads and their deployments.       *)
THEOREM SettingsAreKept == Spec => SettingsKept
<1>1. Inv /\ [Next]_vars => [\A p \in Clis : Deploys(p) /\ Deployed /\ me[p].since # "outside"
                               => stack'.settings = stack.settings]_vars
  BY DeploysPreserves
<1> QED BY <1>1, Invariant, PTL DEF Spec, SettingsKept

(* An update by tkf never starts a GPU nor pins one.                           *)
THEOREM DeploysStartNoGpu == Spec => NoGpuByDeploy
<1>1. Inv /\ [Next]_vars => [\A p \in Clis : Deploys(p) =>
                               group'.desired <= group.desired /\ group'.min <= group.min]_vars
  BY DeploysPreserves
<1> QED BY <1>1, Invariant, PTL DEF Spec, NoGpuByDeploy
=============================================================================
