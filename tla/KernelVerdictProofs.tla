------------------------- MODULE KernelVerdictProofs -------------------------
(***************************************************************************)
(* Proofs about KernelVerdict, for every set of states, horizon, bundle,   *)
(* claim and choice of observations: the enumeration is the set of runs,   *)
(* what was said holds, and the exact verdict is the meaning.              *)
(***************************************************************************)
EXTENDS KernelVerdict, TLAPS

CompiledBundle ==
  {b \in [space : SUBSET State, initial : SUBSET State,
          rules : SUBSET TransitionRule] : Compiles(b)}

(***************************************************************************)
(* Prefixes and runs.                                                      *)
(***************************************************************************)
LEMMA CutOfCut ==
  ASSUME NEW t, NEW m \in Nat, NEW k \in Nat, k <= m
  PROVE  Cut(Cut(t, m), k) = Cut(t, k)
BY DEF Cut

LEMMA RunsAtZero ==
  ASSUME NEW b \in CompiledBundle
  PROVE  Runs(b, 0) = InitialPrefixes(b)
<1>1. 0..(0 - 1) = {} /\ 0..0 = {0}
  OBVIOUS
<1>2. b.initial \subseteq State
  BY DEF CompiledBundle
<1>3. ASSUME NEW t \in Runs(b, 0)
      PROVE  t \in InitialPrefixes(b)
  <2>1. t \in [0..0 -> State] /\ t[0] \in b.initial
    BY <1>3 DEF Runs
  <2>2. t = [i \in 0..0 |-> t[0]]
    BY <2>1, <1>1
  <2> QED BY <2>1, <2>2 DEF InitialPrefixes
<1>4. ASSUME NEW s \in b.initial
      PROVE  [i \in 0..0 |-> s] \in Runs(b, 0)
  BY <1>1, <1>2 DEF Runs
<1> QED BY <1>3, <1>4 DEF InitialPrefixes

LEMMA RunsCut ==
  ASSUME NEW b \in CompiledBundle, NEW n \in Nat, NEW k \in Nat, k <= n,
         NEW t \in Runs(b, n)
  PROVE  Cut(t, k) \in Runs(b, k)
<1>1. t \in [0..n -> State] /\ t[0] \in b.initial
  BY DEF Runs
<1>2. Cut(t, k) \in [0..k -> State] /\ Cut(t, k)[0] = t[0]
  BY <1>1 DEF Cut
<1>3. ASSUME NEW i \in 0..(k - 1)
      PROVE  \E rule \in b.rules : /\ rule.source = Cut(t, k)[i]
                                   /\ rule.target = Cut(t, k)[i + 1]
                                   /\ i \in rule.steps
  <2>1. i \in 0..(n - 1) /\ i \in 0..k /\ i + 1 \in 0..k
    OBVIOUS
  <2>2. Cut(t, k)[i] = t[i] /\ Cut(t, k)[i + 1] = t[i + 1]
    BY <2>1 DEF Cut
  <2> QED BY <2>1, <2>2 DEF Runs
<1> QED BY <1>1, <1>2, <1>3 DEF Runs

LEMMA RunsStayInSpace ==
  ASSUME NEW b \in CompiledBundle, NEW k \in Nat, NEW t \in Runs(b, k)
  PROVE  t \in [0..k -> b.space]
<1>1. t \in [0..k -> State] /\ t[0] \in b.space
  BY DEF Runs, CompiledBundle, Compiles
<1>2. ASSUME NEW i \in 0..k
      PROVE  t[i] \in b.space
  <2>1. CASE i = 0
    BY <1>1, <2>1
  <2>2. CASE i # 0
    <3>1. i - 1 \in 0..(k - 1) /\ (i - 1) + 1 = i
      BY <2>2
    <3>2. PICK rule \in b.rules : rule.target = t[(i - 1) + 1]
      BY <3>1 DEF Runs
    <3> QED BY <3>1, <3>2 DEF CompiledBundle, Compiles
  <2> QED BY <2>1, <2>2
<1> QED BY <1>1, <1>2

(***************************************************************************)
(* One turn of enumerate_trajectories takes the runs up to a step to the   *)
(* runs up to the next.                                                    *)
(***************************************************************************)
LEMMA RunsGrow ==
  ASSUME NEW b \in CompiledBundle, NEW k \in Nat
  PROVE  UNION {{Extended(t, k + 1, s) : s \in successors(b, t[k], k)} : t \in Runs(b, k)}
           = Runs(b, k + 1)
<1>1. ASSUME NEW t \in Runs(b, k), NEW s \in successors(b, t[k], k)
      PROVE  Extended(t, k + 1, s) \in Runs(b, k + 1)
  <2> DEFINE u == Extended(t, k + 1, s)
  <2>1. PICK rule \in b.rules : rule.source = t[k] /\ k \in rule.steps /\ rule.target = s
    BY DEF successors
  <2>2. s \in State
    BY <2>1 DEF CompiledBundle, TransitionRule
  <2>3. t \in [0..k -> State] /\ t[0] \in b.initial
    BY DEF Runs
  <2>4. u \in [0..(k + 1) -> State] /\ u[k + 1] = s /\ \A i \in 0..k : u[i] = t[i]
    BY <2>2, <2>3 DEF Extended
  <2>5. ASSUME NEW i \in 0..((k + 1) - 1)
        PROVE  \E r \in b.rules : r.source = u[i] /\ r.target = u[i + 1] /\ i \in r.steps
    <3>1. CASE i = k
      BY <2>1, <2>4, <3>1
    <3>2. CASE i # k
      <4>1. i \in 0..(k - 1) /\ i \in 0..k /\ i + 1 \in 0..k
        BY <3>2
      <4>2. u[i] = t[i] /\ u[i + 1] = t[i + 1]
        BY <4>1, <2>4
      <4>3. PICK r \in b.rules : r.source = t[i] /\ r.target = t[i + 1] /\ i \in r.steps
        BY <4>1 DEF Runs
      <4> QED BY <4>2, <4>3
    <3> QED BY <3>1, <3>2
  <2>6. u[0] \in b.initial
    BY <2>3, <2>4
  <2> HIDE DEF u
  <2>7. u \in Runs(b, k + 1)
    BY <2>4, <2>5, <2>6 DEF Runs
  <2> QED BY <2>7 DEF u
<1>2. ASSUME NEW u \in Runs(b, k + 1)
      PROVE  \E t \in Runs(b, k) : \E s \in successors(b, t[k], k) : u = Extended(t, k + 1, s)
  <2> DEFINE t == Cut(u, k)
  <2>1. u \in [0..(k + 1) -> State]
    BY DEF Runs
  <2>2. t \in Runs(b, k)
    BY RunsCut
  <2>3. t[k] = u[k] /\ \A i \in 0..k : t[i] = u[i]
    BY DEF Cut
  <2>4. PICK rule \in b.rules : /\ rule.source = u[k] /\ rule.target = u[k + 1]
                                /\ k \in rule.steps
    BY DEF Runs
  <2>5. u[k + 1] \in successors(b, t[k], k)
    BY <2>3, <2>4 DEF successors
  <2>6. u = Extended(t, k + 1, u[k + 1])
    BY <2>1, <2>3 DEF Extended
  <2> QED BY <2>2, <2>5, <2>6
<1> QED BY <1>1, <1>2

(***************************************************************************)
(* What an observed prefix set leaves possible.                            *)
(***************************************************************************)
Possible(P, r) == {t \in Runs(bundle, Horizon) : Cut(t, r) \in P}

(***************************************************************************)
(* When the loop ends, early or not, it has all runs.                      *)
(***************************************************************************)
LEMMA EnumerationComplete ==
  ASSUME bundle \in CompiledBundle, Horizon \in Nat,
         step \in 0..Horizon, trajectories = Runs(bundle, step),
         step = Horizon \/ trajectories = {}
  PROVE  trajectories = Runs(bundle, Horizon)
<1>1. CASE step = Horizon
  BY <1>1
<1>2. CASE trajectories = {}
  <2>1. ASSUME NEW t \in Runs(bundle, Horizon)
        PROVE  FALSE
    <3>1. Cut(t, step) \in Runs(bundle, step)
      BY RunsCut
    <3> QED BY <3>1, <1>2
  <2> QED BY <2>1, <1>2
<1> QED BY <1>1, <1>2

(***************************************************************************)
(* Every backend answers the truth: its enclosure covers the residual set  *)
(* and a feasibility it is sure of is right.                               *)
(***************************************************************************)
Answers(residual) == {Enumerated(residual, claim)} \cup Reported(residual)

Truthful(a, residual) ==
  /\ a.feasibility \in {"feasible", "infeasible", "unknown"}
  /\ a.exact \in BOOLEAN
  /\ residual \subseteq a.enclosure
  /\ a.feasibility = "feasible" => residual # {}
  /\ a.feasibility = "infeasible" => residual = {}

LEMMA AnswersAreTruthful ==
  ASSUME NEW residual, NEW a \in Answers(residual)
  PROVE  Truthful(a, residual)
<1>1. CASE a = Enumerated(residual, claim)
  BY <1>1 DEF Enumerated, Truthful
<1>2. CASE a \in Reported(residual)
  <2>1. /\ a.exact = FALSE
        /\ a.feasibility \in {"unknown", IF residual = {} THEN "infeasible" ELSE "feasible"}
        /\ a.enclosure \in {residual \cup extra : extra \in Widenings}
    BY <1>2 DEF Reported
  <2> QED BY <2>1 DEF Truthful
<1> QED BY <1>1, <1>2 DEF Answers

(***************************************************************************)
(* A verdict that decides says something true of the residual set.         *)
(***************************************************************************)
LEMMA VerdictIsSound ==
  ASSUME NEW residual, NEW sat, NEW a, Truthful(a, residual)
  PROVE  LET v == kernel_verdict(a, residual, sat).verdict
         IN /\ v = "assert" => residual \subseteq sat
            /\ v = "deny" => residual \cap sat = {}
            /\ v = "infeasible" => residual = {}
BY DEF kernel_verdict, View, inclusion, disjointness, Truthful

LEMMA VerdictHasType ==
  ASSUME NEW residual, NEW sat, NEW a, Truthful(a, residual)
  PROVE  LET k == kernel_verdict(a, residual, sat)
         IN /\ k.verdict \in VerdictCode \ {"none"}
            /\ k.feasibility \in {"feasible", "infeasible", "unknown"}
            /\ {k.inclusion, k.disjointness} \subseteq
                 {"yes", "no", "unknown", "not_applicable"}
BY DEF kernel_verdict, View, inclusion, disjointness, Truthful, VerdictCode

(***************************************************************************)
(* The view of an exact answer is a function of the residual set.          *)
(***************************************************************************)
ExactFields(k, residual, sat) ==
  /\ k.verdict = (IF residual = {} THEN "infeasible"
                  ELSE IF residual \subseteq sat THEN "assert"
                  ELSE IF residual \cap sat = {} THEN "deny"
                  ELSE "abstain")
  /\ k.feasibility = (IF residual = {} THEN "infeasible" ELSE "feasible")
  /\ residual # {} =>
       /\ k.inclusion = inclusion(residual, sat)
       /\ k.disjointness = disjointness(residual, sat)

LEMMA ExactAnswer ==
  ASSUME NEW residual, NEW sat
  PROVE  ExactFields(kernel_verdict(Enumerated(residual, sat), residual, sat),
                     residual, sat)
<1> DEFINE a == Enumerated(residual, sat)
<1>1. Some(residual \cap sat) \subseteq residual /\ Some(residual \ sat) \subseteq residual
  BY DEF Some
<1>2. a.enclosure = residual /\ a.witnesses \subseteq residual
  BY <1>1 DEF Enumerated
<1>3. a.sound = TRUE /\ a.accepted = TRUE /\ a.bound = TRUE
  BY DEF Enumerated
<1>4. a.feasibility = IF residual = {} THEN "infeasible" ELSE "feasible"
  BY DEF Enumerated
<1>5. WitnessOk(a, residual)
  BY <1>2, <1>3 DEF WitnessOk
<1> HIDE DEF a
<1> DEFINE k == kernel_verdict(a, residual, sat)
<1>6. CASE residual = {}
  <2>1. k = View("infeasible", a.feasibility, "not_applicable", "not_applicable")
    BY <1>3, <1>4, <1>5, <1>6 DEF kernel_verdict
  <2> QED BY <2>1, <1>4, <1>6 DEF View, ExactFields, a
<1>7. CASE residual # {}
  <2>1. a.feasibility = "feasible"
    BY <1>4, <1>7
  <2>2. CASE residual \subseteq sat
    <3>1. inclusion(a.enclosure, sat) = "yes" /\ disjointness(a.enclosure, sat) = "no"
      BY <1>2, <1>7, <2>2 DEF inclusion, disjointness
    <3>2. k = View("assert", "feasible", "yes", "no")
      BY <1>3, <1>5, <2>1, <3>1 DEF kernel_verdict
    <3> QED BY <3>1, <3>2, <1>2, <1>7, <2>2 DEF View, ExactFields, a
  <2>3. CASE ~ (residual \subseteq sat) /\ residual \cap sat = {}
    <3>1. inclusion(a.enclosure, sat) = "no" /\ disjointness(a.enclosure, sat) = "yes"
      BY <1>2, <1>7, <2>3 DEF inclusion, disjointness
    <3>2. k = View("deny", "feasible", "no", "yes")
      BY <1>3, <1>5, <2>1, <3>1 DEF kernel_verdict
    <3> QED BY <3>1, <3>2, <1>2, <1>7, <2>3 DEF View, ExactFields, a
  <2>4. CASE ~ (residual \subseteq sat) /\ residual \cap sat # {}
    <3>1. inclusion(a.enclosure, sat) = "no" /\ disjointness(a.enclosure, sat) = "no"
      BY <1>2, <1>7, <2>4 DEF inclusion, disjointness
    <3>2. k = View("abstain", "feasible", "no", "no")
      BY <1>3, <1>5, <2>1, <3>1 DEF kernel_verdict
    <3> QED BY <3>1, <3>2, <1>2, <1>7, <2>4 DEF View, ExactFields, a
  <2> QED BY <2>2, <2>3, <2>4
<1> QED BY <1>6, <1>7 DEF a

(***************************************************************************)
(* The inductive invariant.  What the loop has built is the set of runs;   *)
(* what is observed in a call does not rule out the world, as long as the  *)
(* world keeps to the bundle; views of the enumerating backend are what    *)
(* their residual set determines.                                          *)
(***************************************************************************)
Enumerating ==
  IF pc = "expand" THEN trajectories = Runs(bundle, step) ELSE p_out = {}

Observed ==
  pc = "expand" =>
    \A t \in Runs(bundle, Horizon) : Cut(t, now) = world => world \in p_out

IsExact(v) == v.exact => ExactFields(v, Possible(v.prefix, v.r), claim)

KernelInv ==
  /\ TypeOK
  /\ bundle \in CompiledBundle
  /\ Enumerating
  /\ Observed
  /\ SaidHolds
  /\ IsExact(view)
  /\ IsExact(artifact)
  /\ artifact.verdict # "none" => artifact.exact

LEMMA NoViewIsView ==
  ASSUME now \in Nat
  PROVE  IsView(NoView) /\ ~ NoView.exact /\ NoView.verdict = "none"
BY DEF IsView, NoView, VerdictCode

LEMMA InvariantAtFirst ==
  ASSUME Init PROVE KernelInv
<1>1. bundle \in CompiledBundle
  BY KernelAssumption DEF Init, CompiledBundle
<1>2. TypeOK
  BY <1>1, NoViewIsView, KernelAssumption DEF Init, TypeOK, CompiledBundle
<1> QED BY <1>1, <1>2, NoViewIsView
        DEF Init, KernelInv, Enumerating, Observed, SaidHolds, IsExact

LEMMA HappenKeeps ==
  ASSUME KernelInv, Happen PROVE KernelInv'
<1> USE KernelAssumption
<1>1. PICK s \in State : world' = Extended(world, now + 1, s)
  BY DEF Happen
<1>2. /\ now \in 0..Horizon /\ now < Horizon /\ now' = now + 1
      /\ world \in [0..now -> State]
  BY DEF KernelInv, TypeOK, Happen
<1>3. now' \in 0..Horizon /\ world' \in [0..now' -> State]
  BY <1>1, <1>2 DEF Extended
<1>4. TypeOK'
  <2>1. IsView(artifact)'
    BY <1>2 DEF KernelInv, TypeOK, IsView, Happen
  <2>2. IsView(view)'
    BY <1>2, NoViewIsView DEF IsView, NoView, Happen, VerdictCode
  <2>3. (p_out \subseteq [0..now -> State])' /\ (trajectories \subseteq [0..step -> bundle.space])'
    BY DEF KernelInv, TypeOK, Enumerating, Happen, certificate
  <2> QED BY <1>3, <2>1, <2>2, <2>3 DEF KernelInv, TypeOK, Happen, certificate
<1>5. SaidHolds'
  <2>1. SUFFICES ASSUME NEW t \in Runs(bundle, Horizon), Cut(t, now + 1) = world'
                 PROVE  Cut(t, now) = world
    BY <1>2, <2>1 DEF SaidHolds, KernelInv, Happen, certificate
  <2>2. \A i \in 0..now : t[i] = world[i]
    <3>1. TAKE i \in 0..now
    <3>2. i \in 0..(now + 1) /\ i # now + 1
      BY <1>2
    <3>3. Cut(t, now + 1)[i] = t[i] /\ Extended(world, now + 1, s)[i] = world[i]
      BY <3>2 DEF Cut, Extended
    <3> QED BY <1>1, <2>1, <3>3
  <2>3. world = [i \in 0..now |-> world[i]]
    BY <1>2
  <2> QED BY <2>2, <2>3 DEF Cut
<1>6. IsExact(view)' /\ IsExact(artifact)' /\ (artifact.verdict # "none" => artifact.exact)'
  BY NoViewIsView DEF KernelInv, IsExact, Possible, Happen, certificate, NoView
<1> QED BY <1>4, <1>5, <1>6
        DEF KernelInv, Enumerating, Observed, Happen, certificate

LEMMA RecordKeeps ==
  ASSUME KernelInv, Record PROVE KernelInv'
<1>1. UNCHANGED <<bundle, claim, now, world, pc, step, trajectories, p_out, view, said>>
      /\ artifact' = view /\ view.exact
  BY DEF Record, certificate, reality
<1>2. TypeOK'
  BY <1>1 DEF KernelInv, TypeOK, IsView
<1>3. SaidHolds' /\ Enumerating' /\ Observed'
  BY <1>1 DEF KernelInv, SaidHolds, Enumerating, Observed
<1>4. IsExact(view)' /\ IsExact(artifact)'
  BY <1>1 DEF KernelInv, IsExact, Possible
<1> QED BY <1>1, <1>2, <1>3, <1>4 DEF KernelInv

LEMMA CallKeeps ==
  ASSUME KernelInv, Call PROVE KernelInv'
<1> USE KernelAssumption
<1>1. UNCHANGED <<bundle, claim, now, world, artifact, said>>
      /\ pc' = "expand" /\ step' = 0 /\ view' = NoView
      /\ trajectories' = InitialPrefixes(bundle)
  BY DEF Call, certificate, reality
<1>2. bundle \in CompiledBundle /\ now \in 0..Horizon /\ world \in [0..now -> State]
  BY DEF KernelInv, TypeOK
<1>3. trajectories' = Runs(bundle, 0)
  BY <1>1, <1>2, RunsAtZero
<1>4. p_out' \subseteq [0..now -> State]
  <2>1. CASE now = 0 /\ p_out' = InitialPrefixes(bundle)
    <3>1. bundle.initial \subseteq State
      BY <1>2 DEF CompiledBundle
    <3> QED BY <2>1, <3>1 DEF InitialPrefixes
  <2> QED BY <2>1 DEF Call
<1>5. ASSUME NEW t \in Runs(bundle, Horizon), Cut(t, now) = world
      PROVE  world \in p_out'
  <2>1. CASE now = 0 /\ p_out' = InitialPrefixes(bundle)
    <3>1. t[0] \in bundle.initial
      BY DEF Runs
    <3>2. Cut(t, 0) = [i \in 0..0 |-> t[0]]
      BY DEF Cut
    <3> QED BY <1>5, <2>1, <3>1, <3>2 DEF InitialPrefixes
  <2> QED BY <2>1 DEF Call
<1>6. TypeOK'
  <2>1. IsView(view)' /\ IsView(artifact)'
    BY <1>1, <1>2, NoViewIsView DEF KernelInv, TypeOK, IsView
  <2>2. trajectories' \subseteq [0..0 -> bundle.space]
    BY <1>2, <1>3, RunsStayInSpace
  <2> QED BY <1>1, <1>4, <2>1, <2>2 DEF KernelInv, TypeOK
<1>7. Enumerating' /\ Observed' /\ SaidHolds'
  BY <1>1, <1>3, <1>5 DEF KernelInv, Enumerating, Observed, SaidHolds
<1>8. IsExact(view)' /\ IsExact(artifact)' /\ (artifact.verdict # "none" => artifact.exact)'
  BY <1>1, <1>2, NoViewIsView DEF KernelInv, IsExact, Possible
<1> QED BY <1>1, <1>2, <1>6, <1>7, <1>8 DEF KernelInv

LEMMA ExpandKeeps ==
  ASSUME KernelInv, Expand PROVE KernelInv'
<1> USE KernelAssumption
<1>1. UNCHANGED <<bundle, claim, now, world, pc, p_out, view, artifact, said>>
      /\ pc = "expand" /\ step' = step + 1 /\ step < Horizon
  BY DEF Expand, certificate, reality
<1>2. bundle \in CompiledBundle /\ step \in 0..Horizon /\ step + 1 \in 0..Horizon
  BY <1>1 DEF KernelInv, TypeOK
<1>3. trajectories' = Runs(bundle, step + 1)
  <2>1. trajectories = Runs(bundle, step)
    BY <1>1 DEF KernelInv, Enumerating
  <2> QED BY <1>2, <2>1, RunsGrow DEF Expand
<1>4. trajectories' \subseteq [0..(step + 1) -> bundle.space]
  BY <1>2, <1>3, RunsStayInSpace
<1>5. TypeOK'
  BY <1>1, <1>2, <1>4 DEF KernelInv, TypeOK, IsView
<1>6. Enumerating' /\ Observed' /\ SaidHolds'
  BY <1>1, <1>3 DEF KernelInv, Enumerating, Observed, SaidHolds
<1>7. IsExact(view)' /\ IsExact(artifact)'
  BY <1>1 DEF KernelInv, IsExact, Possible
<1> QED BY <1>1, <1>2, <1>5, <1>6, <1>7 DEF KernelInv

(***************************************************************************)
(* The end of a call.  The residual set is what the observation leaves     *)
(* possible, so what the verdict says of it holds of every run that        *)
(* continues the world.                                                    *)
(***************************************************************************)
LEMMA DecideKeeps ==
  ASSUME KernelInv, Decide PROVE KernelInv'
<1> USE KernelAssumption
<1> DEFINE residual == residual_trajectories(trajectories, p_out, now)
<1>1. UNCHANGED <<bundle, claim, now, world, artifact>>
      /\ pc = "expand" /\ pc' = "idle" /\ step' = 0
      /\ trajectories' = {} /\ p_out' = {}
  BY DEF Decide, certificate, reality
<1>2. bundle \in CompiledBundle /\ now \in 0..Horizon /\ step \in 0..Horizon
      /\ p_out \subseteq [0..now -> State]
  BY DEF KernelInv, TypeOK
<1>3. residual = Possible(p_out, now)
  <2>1. trajectories = Runs(bundle, step) /\ (step = Horizon \/ trajectories = {})
    BY <1>1 DEF KernelInv, Enumerating, Decide
  <2>2. trajectories = Runs(bundle, Horizon)
    BY <1>2, <2>1, EnumerationComplete
  <2> QED BY <2>2 DEF residual_trajectories, Possible
<1> HIDE DEF residual
<1>4. PICK a \in Answers(residual) :
        view' = [verdict |-> kernel_verdict(a, residual, claim).verdict,
                 feasibility |-> kernel_verdict(a, residual, claim).feasibility,
                 inclusion |-> kernel_verdict(a, residual, claim).inclusion,
                 disjointness |-> kernel_verdict(a, residual, claim).disjointness,
                 exact |-> a.exact, r |-> now, prefix |-> p_out]
  BY DEF Decide, Answers, residual
<1> DEFINE k == kernel_verdict(a, residual, claim)
<1>5. Truthful(a, residual)
  BY AnswersAreTruthful
<1>6. /\ k.verdict = "assert" => residual \subseteq claim
      /\ k.verdict = "deny" => residual \cap claim = {}
      /\ k.verdict = "infeasible" => residual = {}
  BY <1>5, VerdictIsSound
<1>7. /\ k.verdict \in VerdictCode
      /\ k.feasibility \in {"feasible", "infeasible", "unknown"}
      /\ {k.inclusion, k.disjointness} \subseteq {"yes", "no", "unknown", "not_applicable"}
  BY <1>5, VerdictHasType
<1>8. a.exact => ExactFields(k, residual, claim)
  <2>1. CASE a = Enumerated(residual, claim)
    BY <2>1, ExactAnswer
  <2>2. CASE a \in Reported(residual)
    BY <2>2 DEF Reported
  <2> QED BY <2>1, <2>2 DEF Answers
<1> HIDE DEF k
<1>9. view' = [verdict |-> k.verdict, feasibility |-> k.feasibility,
               inclusion |-> k.inclusion, disjointness |-> k.disjointness,
               exact |-> a.exact, r |-> now, prefix |-> p_out]
  BY <1>4 DEF k
<1>10. IsView(view')
  BY <1>2, <1>5, <1>7, <1>9 DEF IsView, Truthful
<1>11. said' \subseteq said \cup ({k.verdict} \cap Deciding)
  BY <1>9 DEF Decide
<1>12. TypeOK'
  <2>1. IsView(view)' /\ IsView(artifact)'
    BY <1>1, <1>10 DEF KernelInv, TypeOK, IsView
  <2>2. said' \subseteq Deciding
    BY <1>11 DEF KernelInv, TypeOK
  <2> QED BY <1>1, <2>1, <2>2 DEF KernelInv, TypeOK
<1>13. SaidHolds'
  <2> SUFFICES ASSUME NEW t \in Runs(bundle, Horizon), Cut(t, now) = world
               PROVE  /\ "assert" \in said' => t \in claim
                      /\ "deny" \in said' => t \notin claim
                      /\ "infeasible" \notin said'
    BY <1>1 DEF SaidHolds
  <2>1. t \in residual
    BY <1>1, <1>3 DEF KernelInv, Observed, Possible
  <2>2. /\ "assert" \in said => t \in claim
        /\ "deny" \in said => t \notin claim
        /\ "infeasible" \notin said
    BY DEF KernelInv, SaidHolds
  <2> QED BY <1>6, <1>11, <2>1, <2>2
<1>14. IsExact(view)'
  <2>1. view'.exact => ExactFields(view', residual, claim)
    BY <1>8, <1>9 DEF ExactFields
  <2>2. view'.prefix = p_out /\ view'.r = now
    BY <1>9
  <2> QED BY <1>1, <1>3, <2>1, <2>2 DEF IsExact, Possible
<1>15. IsExact(artifact)' /\ (artifact.verdict # "none" => artifact.exact)'
  BY <1>1 DEF KernelInv, IsExact, Possible
<1> QED BY <1>1, <1>2, <1>12, <1>13, <1>14, <1>15
        DEF KernelInv, Enumerating, Observed

(***************************************************************************)
(* The invariant holds throughout every sequence of calls.                 *)
(***************************************************************************)
THEOREM KernelInvariant == Spec => []KernelInv
<1>1. Init => KernelInv
  BY InvariantAtFirst
<1>2. KernelInv /\ [Next]_vars => KernelInv'
  <2> SUFFICES ASSUME KernelInv, [Next]_vars PROVE KernelInv'
    OBVIOUS
  <2>1. CASE Happen
    BY <2>1, HappenKeeps
  <2>2. CASE Record
    BY <2>2, RecordKeeps
  <2>3. CASE Call
    BY <2>3, CallKeeps
  <2>4. CASE Expand
    BY <2>4, ExpandKeeps
  <2>5. CASE Decide
    BY <2>5, DecideKeeps
  <2>6. CASE UNCHANGED vars
    BY <2>6 DEF KernelInv, TypeOK, IsView, Enumerating, Observed, SaidHolds, IsExact,
                Possible, vars
  <2> QED BY <2>1, <2>2, <2>3, <2>4, <2>5, <2>6 DEF Next
<1> QED BY <1>1, <1>2, PTL DEF Spec

(***************************************************************************)
(* Every value has its type, whatever the constants (KernelVerdict's       *)
(* type invariant).                                                        *)
(***************************************************************************)
THEOREM KernelTypeCorrect == Spec => []TypeOK
<1>1. KernelInv => TypeOK
  BY DEF KernelInv
<1> QED BY <1>1, KernelInvariant, PTL

(***************************************************************************)
(* What kernel_verdict said in any call is true of every way in which the  *)
(* world can go on within the bundle, for every backend that tells the     *)
(* truth.                                                                  *)
(***************************************************************************)
THEOREM VerdictsHold == Spec => []SaidHolds
<1>1. KernelInv => SaidHolds
  BY DEF KernelInv
<1> QED BY <1>1, KernelInvariant, PTL

(***************************************************************************)
(* The verdict of the enumerating backend is the meaning of the bundle,    *)
(* the claim and the observed prefixes.                                    *)
(***************************************************************************)
THEOREM EnumerationIsExact == Spec => []ExactVerdict
<1>1. KernelInv => ExactVerdict
  BY DEF KernelInv, IsExact, ExactFields, Possible, ExactVerdict, Meaning
<1> QED BY <1>1, KernelInvariant, PTL

(***************************************************************************)
(* A recorded assert or deny is answered again, and its proof artifact     *)
(* accepted, while observations narrow and something is left possible.     *)
(***************************************************************************)
THEOREM RecordedProofsHold == Spec => []DecidedProofHolds
<1>1. KernelInv => DecidedProofHolds
  <2> SUFFICES ASSUME KernelInv, view.exact, artifact.verdict \in {"assert", "deny"},
                      Narrows(view, artifact), view.feasibility = "feasible"
               PROVE  view.verdict = artifact.verdict /\ ~ Conflicts(artifact, view)
    BY DEF DecidedProofHolds
  <2> DEFINE R == Possible(view.prefix, view.r)
             A == Possible(artifact.prefix, artifact.r)
  <2>1. view.r \in Nat /\ artifact.r \in Nat /\ artifact.r <= view.r
    BY DEF KernelInv, TypeOK, IsView, Narrows
  <2>2. R \subseteq A
    <3> SUFFICES ASSUME NEW t \in R PROVE t \in A
      OBVIOUS
    <3>1. Cut(Cut(t, view.r), artifact.r) \in artifact.prefix
      BY DEF Narrows, Possible
    <3>2. Cut(Cut(t, view.r), artifact.r) = Cut(t, artifact.r)
      BY <2>1, CutOfCut
    <3> QED BY <3>1, <3>2 DEF Possible
  <2>3. ExactFields(view, R, claim) /\ ExactFields(artifact, A, claim)
    BY DEF KernelInv, IsExact
  <2> HIDE DEF R, A
  <2>4. R # {} /\ A # {}
    BY <2>2, <2>3 DEF ExactFields
  <2>5. CASE artifact.verdict = "assert"
    <3>1. A \subseteq claim /\ R \subseteq claim
      BY <2>2, <2>3, <2>4, <2>5 DEF ExactFields
    <3>2. /\ inclusion(R, claim) = "yes" /\ disjointness(R, claim) = "no"
          /\ inclusion(A, claim) = "yes" /\ disjointness(A, claim) = "no"
      BY <2>4, <3>1 DEF inclusion, disjointness
    <3> QED BY <2>3, <2>4, <2>5, <3>1, <3>2 DEF ExactFields, Conflicts
  <2>6. CASE artifact.verdict = "deny"
    <3>1. ~ (A \subseteq claim) /\ A \cap claim = {} /\ R \cap claim = {}
          /\ ~ (R \subseteq claim)
      BY <2>2, <2>3, <2>4, <2>6 DEF ExactFields
    <3>2. /\ inclusion(R, claim) = "no" /\ disjointness(R, claim) = "yes"
          /\ inclusion(A, claim) = "no" /\ disjointness(A, claim) = "yes"
      BY <2>4, <3>1 DEF inclusion, disjointness
    <3> QED BY <2>3, <2>4, <2>6, <3>1, <3>2 DEF ExactFields, Conflicts
  <2> QED BY <2>5, <2>6
<1> QED BY <1>1, KernelInvariant, PTL
=============================================================================
