---------------------------- MODULE KernelVerdict ----------------------------
(***************************************************************************)
(* dfcc.kernel.kernel_verdict over the trajectories of dfcc.bundle: one    *)
(* certificate, asked again as the world it speaks of unfolds.  A call     *)
(* enumerates the bundle step by step, keeps the trajectories that fit the *)
(* observed prefixes and compares them with the claim.  A trajectory is a  *)
(* function on the steps 0..Horizon, a claim the set of trajectories that  *)
(* satisfy its formula.                                                    *)
(***************************************************************************)
EXTENDS Integers

CONSTANTS
  State,      \* represented states
  Horizon,    \* ClaimRecord.horizon, the horizon the bundle is compiled for
  Bundles,    \* assumption bundles, those that do not compile included
  Claims,     \* the satisfaction sets of the claims
  Prefixes,   \* what can be observed: sets of prefixes of one length
  RecordBound,  \* bound: proof artifacts record views up to this index
  Widenings   \* what a backend other than the enumerating one adds to its
              \* enclosure

Step == 0..(Horizon - 1)

\* A rule without a step counts in every step: steps is range(horizon).
TransitionRule == [source : State, target : State, steps : SUBSET Int]

ASSUME KernelAssumption ==
  /\ Horizon \in Nat /\ RecordBound \in Nat
  /\ Bundles \subseteq [space : SUBSET State, initial : SUBSET State,
                        rules : SUBSET TransitionRule]
  /\ Claims \subseteq SUBSET [0..Horizon -> State]
  /\ Widenings \subseteq SUBSET [0..Horizon -> State]

VARIABLES
  bundle, claim,  \* of the certificate
  now, world,     \* what has happened, up to the clock's index
  pc,             \* "idle" between calls, "expand" in the enumeration
  step, trajectories,  \* locals of enumerate_trajectories
  p_out,          \* the outer prefix set of the call
  view,           \* the KernelView returned last, with the prefixes it was
                  \* made for
  artifact,       \* the view that the kernel proof artifact records
  said            \* the verdicts of all calls that decide, as the authority
                  \* check takes them

certificate == <<bundle, claim>>
reality == <<now, world>>
vars == <<bundle, claim, now, world, pc, step, trajectories, p_out, view,
          artifact, said>>

-----------------------------------------------------------------------------
(* The bundle *)

\* A variant: only the source of a rule is looked up.
Compiles_sources(b) ==
  /\ b.initial \subseteq b.space
  /\ \A rule \in b.rules : /\ rule.source \in b.space
                           /\ rule.steps \subseteq Step

\* compile_bundle raises unless all of these hold.
Compiles(b) ==
  /\ b.initial \subseteq b.space
  /\ \A rule \in b.rules : /\ rule.source \in b.space
                           /\ rule.target \in b.space
                           /\ rule.steps \subseteq Step

\* A variant: a rule with a step is used in every step.
successors_any_step(b, s, k) == {rule.target : rule \in {x \in b.rules : x.source = s}}

successors(b, s, k) ==
  {rule.target : rule \in {x \in b.rules : x.source = s /\ k \in x.steps}}

\* (*trajectory, successor)
Extended(t, k, s) == [i \in 0..k |-> IF i = k THEN s ELSE t[i]]

\* trajectory[: r + 1]
Cut(t, r) == [i \in 0..r |-> t[i]]

InitialPrefixes(b) == {[i \in 0..0 |-> s] : s \in b.initial}

residual_trajectories(T, P, r) == {t \in T : Cut(t, r) \in P}

-----------------------------------------------------------------------------
(* Backend and checker *)

Some(S) == IF S = {} THEN {} ELSE {CHOOSE t \in S : TRUE}

\* EnumeratingBackend: exact, with at most one witness on each side.
Enumerated(residual, sat) ==
  [exact |-> TRUE,
   feasibility |-> IF residual = {} THEN "infeasible" ELSE "feasible",
   enclosure |-> residual,
   sound |-> TRUE,
   witnesses |-> Some(residual \cap sat) \cup Some(residual \ sat),
   bound |-> TRUE,
   accepted |-> TRUE]

\* Any other DFCCBackend that tells the truth: it may not know whether the
\* residual set is empty, its enclosure may be too wide or not be certified,
\* and its witnesses and proofs may be bad.
Reported(residual) ==
  [exact : {FALSE},
   feasibility : {"unknown", IF residual = {} THEN "infeasible" ELSE "feasible"},
   enclosure : {residual \cup extra : extra \in Widenings},
   sound : BOOLEAN,
   witnesses : {residual \cup w : w \in Widenings},
   bound : BOOLEAN,
   accepted : BOOLEAN]

\* ReferenceChecker.witness, inclusion and disjointness.
WitnessOk(a, residual) ==
  a.witnesses \subseteq residual /\ (a.witnesses = {} \/ a.bound)

inclusion(enclosure, sat) == IF enclosure \subseteq sat THEN "yes" ELSE "no"

disjointness(enclosure, sat) == IF enclosure \cap sat = {} THEN "yes" ELSE "no"

View(v, f, inc, dis) ==
  [verdict |-> v, feasibility |-> f, inclusion |-> inc, disjointness |-> dis]

\* A variant: one trajectory of the enclosure that violates the claim is
\* enough to deny.
kernel_verdict_hasty(a, residual, sat) ==
  LET inc == inclusion(a.enclosure, sat)
  IN View(IF a.feasibility = "infeasible" THEN "infeasible"
          ELSE IF inc = "yes" THEN "assert" ELSE "deny",
          a.feasibility, inc, disjointness(a.enclosure, sat))

kernel_verdict(a, residual, sat) ==
  LET inc == inclusion(a.enclosure, sat)
      dis == disjointness(a.enclosure, sat)
  IN IF ~ a.sound
       THEN View("abstain", a.feasibility, "unknown", "unknown")
     ELSE IF ~ WitnessOk(a, residual)
       THEN View("unknown", a.feasibility, "unknown", "unknown")
     ELSE IF a.feasibility = "infeasible"
       THEN IF a.accepted
              THEN View("infeasible", a.feasibility, "not_applicable",
                        "not_applicable")
              ELSE View("unknown", a.feasibility, "unknown", "unknown")
     ELSE IF a.enclosure # {} /\ inc = "yes" /\ dis = "yes"
       THEN View("conflict", a.feasibility, inc, dis)
     ELSE IF a.feasibility = "feasible" /\ inc = "yes"
       THEN View("assert", a.feasibility, inc, dis)
     ELSE IF a.feasibility = "feasible" /\ dis = "yes"
       THEN View("deny", a.feasibility, inc, dis)
     ELSE View("abstain", a.feasibility, inc, dis)

\* A variant: a proof is good for the prefixes it was made for only.
Conflicts_prefix(made, v) ==
  made.verdict # "none" /\ made # v

\* _strict_kernel_proof_consistency_blocks: the recorded view against the
\* computed one.
Conflicts(made, v) ==
  /\ made.verdict # "none"
  /\ \E field \in {"verdict", "feasibility", "inclusion", "disjointness"} :
       made[field] # v[field]

-----------------------------------------------------------------------------
Deciding == {"assert", "deny", "infeasible"}

NoView == [verdict |-> "none", feasibility |-> "unknown",
           inclusion |-> "unknown", disjointness |-> "unknown",
           exact |-> FALSE, r |-> 0, prefix |-> {}]

Init ==
  /\ bundle \in {b \in Bundles : Compiles(b)}
  /\ claim \in Claims
  /\ now = 0
  /\ world \in [0..0 -> State]
  /\ pc = "idle"
  /\ step = 0
  /\ trajectories = {}
  /\ p_out = {}
  /\ view = NoView
  /\ artifact = NoView
  /\ said = {}

\* The environment: the next anchor is reached, in some state, whether the
\* bundle allows it or not.
Happen ==
  /\ pc = "idle"
  /\ now < Horizon
  /\ now' = now + 1
  /\ \E s \in State : world' = Extended(world, now + 1, s)
  /\ view' = NoView
  /\ UNCHANGED <<certificate, pc, step, trajectories, p_out, artifact, said>>

\* The environment: a view of the enumerating backend is recorded in a
\* proof artifact.
Record ==
  /\ pc = "idle"
  /\ view.exact
  /\ now <= RecordBound
  /\ artifact.verdict = "none"
  /\ artifact' = view
  /\ UNCHANGED <<certificate, reality, pc, step, trajectories, p_out, view,
                 said>>

\* A call starts: the prefixes are an observation that does not rule out
\* what happened or, at the first anchor, the bundle's own initial states.
Call ==
  /\ pc = "idle"
  /\ \/ \E P \in Prefixes : /\ P \subseteq [0..now -> State]
                           /\ world \in P
                           /\ p_out' = P
     \/ now = 0 /\ p_out' = InitialPrefixes(bundle)
  /\ pc' = "expand"
  /\ step' = 0
  /\ trajectories' = InitialPrefixes(bundle)
  /\ view' = NoView
  /\ UNCHANGED <<certificate, reality, artifact, said>>

\* A turn of the loop of enumerate_trajectories.
Expand ==
  /\ pc = "expand"
  /\ step < Horizon
  /\ trajectories # {}
  /\ step' = step + 1
  /\ trajectories' =
       UNION {{Extended(t, step + 1, s) : s \in successors(bundle, t[step], step)} :
                t \in trajectories}
  /\ UNCHANGED <<certificate, reality, pc, p_out, view, artifact, said>>

\* The end of the loop, the residual set, the backend, the checker and the
\* verdict; then the comparison with the recorded proof.
Decide ==
  /\ pc = "expand"
  /\ step = Horizon \/ trajectories = {}
  /\ LET residual == residual_trajectories(trajectories, p_out, now)
     IN \E a \in {Enumerated(residual, claim)} \cup Reported(residual) :
          LET k == kernel_verdict(a, residual, claim)
          IN view' = [verdict |-> k.verdict, feasibility |-> k.feasibility,
                      inclusion |-> k.inclusion, disjointness |-> k.disjointness,
                      exact |-> a.exact, r |-> now, prefix |-> p_out]
  /\ said' = IF Conflicts(artifact, view') THEN said
             ELSE said \cup ({view'.verdict} \cap Deciding)
  /\ pc' = "idle"
  /\ step' = 0
  /\ trajectories' = {}
  /\ p_out' = {}
  /\ UNCHANGED <<certificate, reality, artifact>>

Next == Happen \/ Record \/ Call \/ Expand \/ Decide

Spec == Init /\ [][Next]_vars

-----------------------------------------------------------------------------
(* Reference: what the bundle and the verdict mean, without a loop *)

\* The trajectories up to step k that the rules allow.
Runs(b, k) ==
  {t \in [0..k -> State] :
     /\ t[0] \in b.initial
     /\ \A i \in 0..(k - 1) :
          \E rule \in b.rules : /\ rule.source = t[i]
                                /\ rule.target = t[i + 1]
                                /\ i \in rule.steps}

Meaning(b, sat, P, r) ==
  LET possible == {t \in Runs(b, Horizon) : Cut(t, r) \in P}
  IN IF possible = {} THEN "infeasible"
     ELSE IF possible \subseteq sat THEN "assert"
     ELSE IF possible \cap sat = {} THEN "deny"
     ELSE "abstain"

\* The prefixes of v all continue prefixes of w.
Narrows(v, w) ==
  v.r >= w.r /\ \A p \in v.prefix : Cut(p, w.r) \in w.prefix

-----------------------------------------------------------------------------
VerdictCode ==
  {"assert", "deny", "abstain", "infeasible", "unknown", "conflict", "none"}

IsView(v) ==
  /\ v = [verdict |-> v.verdict, feasibility |-> v.feasibility,
          inclusion |-> v.inclusion, disjointness |-> v.disjointness,
          exact |-> v.exact, r |-> v.r, prefix |-> v.prefix]
  /\ v.verdict \in VerdictCode
  /\ v.feasibility \in {"feasible", "infeasible", "unknown"}
  /\ {v.inclusion, v.disjointness} \subseteq {"yes", "no", "unknown", "not_applicable"}
  /\ v.exact \in BOOLEAN
  /\ v.r \in Nat /\ v.r <= now
  /\ v.prefix \subseteq [0..v.r -> State]

\* Every value has its type, and the enumeration stays within the state
\* space of the bundle.
TypeOK ==
  /\ bundle \in Bundles
  /\ claim \in Claims
  /\ now \in 0..Horizon
  /\ world \in [0..now -> State]
  /\ pc \in {"idle", "expand"}
  /\ step \in 0..Horizon
  /\ trajectories \subseteq [0..step -> bundle.space]
  /\ p_out \subseteq [0..now -> State]
  /\ IsView(view)
  /\ IsView(artifact)
  /\ said \subseteq Deciding

\* Whatever was said in any call is true of every way in which what has
\* happened so far can still unfold within the bundle (kernel.py:546-553):
\* after "assert" all of them satisfy the claim, after "deny" none does, and
\* after "infeasible" there is none.  So at the horizon a world that kept to
\* the bundle proves every assert and deny right, and two calls contradict
\* each other only when the world has left the bundle.
SaidHolds ==
  \A t \in Runs(bundle, Horizon) :
    Cut(t, now) = world => /\ "assert" \in said => t \in claim
                           /\ "deny" \in said => t \notin claim
                           /\ "infeasible" \notin said

\* With the enumerating backend the verdict is exactly what the trajectories
\* of the bundle that fit the observed prefixes say: the stepwise
\* enumeration, with its early break, the filter by prefix, and the cascade
\* of kernel_verdict lose and invent nothing (bundle.py:57-75).
ExactVerdict ==
  view.exact => view.verdict = Meaning(bundle, claim, view.prefix, view.r)

\* Replay against a recorded assert or deny: as long as the observations
\* only narrow, the enumerating backend answers the same again, and the
\* strict comparison with the proof artifact does not block it, unless
\* nothing is left of the residual set (authority.py:682-706).
DecidedProofHolds ==
  (/\ pc = "idle" /\ view.exact
   /\ artifact.verdict \in {"assert", "deny"}
   /\ Narrows(view, artifact)
   /\ view.feasibility = "feasible")
  => view.verdict = artifact.verdict /\ ~ Conflicts(artifact, view)
=============================================================================
