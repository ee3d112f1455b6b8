# TLA+ for the Future Claim Certifier

This directory holds TLA+ modules for the replay engine in `src/src/dfcc`, the
TLC configurations that check them on small instances, and proofs checked by
TLAPS. Paths below are relative to `src/src/dfcc` unless they start with
`docs/` or `README.md`, which are those of the repository.

The program is a library of functions. It has no threads, keeps nothing on
disk between calls and retries nothing. What is hard in it is elsewhere: calls
follow one another while the world they read moves (status time goes on,
contracts lapse, the lifecycle log grows, is delivered out of order, twice or
with gaps), a call is a long chain of checks each of which can fail, checks and
uses of the same thing are far apart, and the answer must be conservative: a
fault anywhere must never come out as authority.

Contents: 1 inventory, 2 modules, 3 runs and bounds, 4 fairness, 5 proofs,
6 where code and documents differ, 7 observations, 8 what is not modelled,
9 plan.

## 1. Inventory

### Components

| component | source | state it works on | operations | properties that make it correct |
|---|---|---|---|---|
| Lifecycle fold | `lifecycle.py` | locals of the loop: seen ids, hashes and clocks, statuses, coordinates, blocks | `fold_status` | the result depends on the delivered events and not on their order; no status event is lost; "active" exactly without blocks; more of the log never weakens a decided status |
| Status clock | `time.py` | none | `status_clock`, anchors | an active index is certain; status time moves one way |
| Status-time authority | `authority.py`, `guards.py`, `policy.py`, `profiles.py` | guard records and views that grow through one call | `check_authority` and its stages, `gate_decision` | a decisive outcome has every guard behind it; every view is well formed; authority is not regained |
| Protocol types | `types.py`, `models.py`, `records.py`, `runtime.py` | none | constructors, `validate_authority_outcome` | outcome table: layer, code, direction, blocks and reasons fit together |
| Checked kernel | `kernel.py` | none | `build_residual_context`, `kernel_verdict` | assert and deny mean what they say of every residual trajectory; a verdict persists while prefixes narrow |
| Claims and bundle | `claims.py`, `bundle.py`, `sets.py` | none | compile, enumerate, evaluate | trajectories and bounded temporal formulas have their usual meaning |
| Backend and checker | `backend.py` | none | enumeration; about forty checks of evidence | no check passes without accepted, bound evidence |
| Certificate | `certificate.py` | certificate; one lifecycle event | `certify_claim`, issue from a bundle, `update_certificate` | the decision of an update agrees with the fold of the log; what is certified was licensed |
| Validation pipeline | `validation.py`, `schema.py` | the stage results so far | `validate_artifact_bundle`, `validate_pipeline` | the first failure blocks every later stage; a report passes only with a judgement behind it |
| Bundle replay | `replay.py` | the status context and certificate as built so far | `replay_authority_from_bundle` and its gates | the core is reached only with every reference, clause, admission and proof in order, and judges what they prove |
| Artifacts and ledger | `artifacts.py` | bundle, references, manifest; the search's path | references, digests, manifest and its dependencies, ledger | what is resolved is what was committed; no cycle that is not admitted; the search ends |
| Evidence admission | `admission.py` | evidence, contracts, clauses, trust assumptions | `admit_evidence_set`, scopes, obligations | nothing without a licence has an effect; issuing and replaying agree |
| Frame and observation | `frame.py` | frame, cut, fibers | `admit_prefix`, fibers, completion, adjudication, adequacy | the directions agree before an operational decision |
| API, CLI, conformance | `api.py`, `cli.py`, `conformance.py` | none | entry points, golden cases | they hand on what the components answer |
| Canonical JSON | `canonical.py`, `jsonpointer.py`, `serialization.py` | none | canonical bytes, digests, pointers | equal content, equal digest |

### How they interact

Everything is a call that returns. `validate_pipeline` runs six stages on a
bundle (ten without full replay; the digest stage is where references and the
manifest are checked) and then calls `replay_authority_from_bundle`. The replay
builds the reference ledger, checks the bundle's lifecycle proofs, relations,
operational proofs, clauses, contracts, trust assumptions and kernel proofs,
writes into the status context what some of them say, makes the certificate's
semantics out of accepted clauses or artifacts, and calls
`_check_authority_core`. The core folds the whole lifecycle log, reads the
status clock, admits a prefix, asks the kernel (which asks the backend and the
checker) and the policy gate, builds one outcome and puts the view through its
schema. `certify_claim_from_artifact_bundle` issues a certificate from a bundle
through gates of its own, and `update_certificate` decides one lifecycle event
at a time. State is shared only through the records passed along; a caller
keeps the certificate, the bundle and the log, and calls again later.

### Hard behaviour

- Order, loss and repetition of lifecycle events, in a fold that is sensitive
  to order by nature; updates that see one event of the log each.
- Several calls over time: later status time, longer log, lapsed contracts,
  evidence checked again, artifacts replaced after they were digested.
- Two code paths for one thing: issuing and replaying a bundle; the decision of
  an update and the fold of the log; the guard record and the outcome.
- Chains of ten stages, seventeen gates and lists of checks, where the first
  failure must win and later steps read what earlier ones wrote.
- Boundaries: ends of the horizon, uncertainty, empty prefixes, nested
  intervals, cycles of dependencies.

`PROJECT.json` lists these as hazards, each at its line with the property that
covers it, or a note saying why none does.

## 2. Modules

| module | models | role |
|---|---|---|
| `LifecycleRules` | the checks and effects of one turn of `fold_status` | operators |
| `LifecycleMeaning` | what a log means, without a loop | operators |
| `LifecycleLedger` | events reach a ledger in no order, the ledger is concluded | abstract specification, over `LifecycleMeaning` |
| `LifecycleFold` | `fold_status` turn by turn, over a log being delivered | state machine, implements `LifecycleLedger` |
| `UpdateCertificate` | `update_certificate` on one event after another, next to the status of the whole log | state machine over `LifecycleRules` and `LifecycleMeaning` |
| `StatusClock` | `status_clock` and horizon anchors | operators, and a certificate asked at later and later times |
| `AuthorityOutcome` | outcome builders, `validate_authority_outcome`, gate, schema conditionals | operators |
| `CertificateStanding` | a certificate lapses once, and is asked about | abstract specification |
| `AuthorityCheck` | `_check_authority_core`, one action per stage | state machine over `StatusClock` and `AuthorityOutcome`, implements `CertificateStanding` |
| `KernelVerdict` | `compile_bundle`, enumeration of trajectories, backend, checker, `kernel_verdict` | state machine, and the meaning of a verdict by quantification |
| `ClaimEvaluation` | `validate_formula`, `evaluate_formula`, `ClaimRecord.satisfies` | tables over the nodes of a formula, and a claim evaluated as its trajectory grows |
| `ReplayGate` | `replay_authority_from_bundle` gate by gate, with its checks as ordered lists | actions, used by `ValidationPipeline` |
| `ValidationPipeline` | `validate_artifact_bundle`, `validate_pipeline`, the trace and the report | state machine over `ReplayGate` |
| `BundleManifest` | entries, references, manifest, the digest stage and the dependency search | state machine |
| `EvidenceAdmission` | admission at a status time, issuing from a bundle and replaying it later | state machine |
| `MC…` | events, bundles, formulas and so on | instances for TLC |
| `…Proofs` | | theorems and proofs |

### LifecycleFold

`acc` holds the locals of `fold_status`: `seen_ids`, `seen_hashes`,
`seen_clocks`, `statuses`, `coordinates`, `blocks`, `accepted_seen` (lists are
sets: nothing reads their order). `Start` is lines 440-450, `Return` lines
695-713, and a turn of the loop takes the next event of the sorted log
(`IsNext`) down one of the branches `Skip`, `Exclude`, `Reject`,
`OtherPolicyVersion`, `Note`, `Disagree`, `SetStatus`, which are the exits of
the loop body in the order of its tests (`Branch`). A digest is a token and an
event's commitment the tuple of the fields it hashes. `Deliver` is the
environment: any event of `Events`, any number of times, between calls. Nothing
of a call survives but its `result`.

`LifecycleMeaning` says the same without a loop, order of delivery or
accumulator: the ledger is a bag of events; a ledger with a defect (an id used
twice, a parent that no earlier event provides, a broken commitment, an
unexplained disagreement, a missing accepted event) means "conflict", any other
the strongest status its events set. `LifecycleLedger` is the machine of that
meaning: events are received, and the ledger is concluded. `ImplementsMeaning`
is the refinement: `ledger` is the log without its order, `verdict` the last
result. It is proved, so `Meaning` may stand for a fold elsewhere.

### UpdateCertificate

`Update` is a call of `update_certificate` for an event that then reaches the
log, `Malformed` a call for something that is no event. A request is the event
with the evidence that came for each field the event or the policy makes claims
about; a piece of evidence is what `_accepted_status` looks at (its status,
purpose, reference, binding, and the event and the field value its payload
names). The one-event fold, the coherence of the event with the policy's lists
and digests, and what is unproved give the blocks, and `decide` the decision.
The log holds the events as they arrived: the signature result `Update` fills in
stays in the call (`certificate.py:1381`).

`WholeStatus` is what an authority check folds out of the whole log, taken as
the log's meaning. Its order is not the update's: `authority.py:1250` takes the
policy version from the effective policy and, of the rest of an event order, a
confluence proof only. Nothing ties either to the update policy, so the
properties are stated for every member of the constant `Authorities`, a proof
and a policy version each, and say what becomes of an event that was admitted
under another version than the fold's: it is "unknown" there, whatever the
update decided.

### StatusClock

Instants are integers, an interval is the status time plus and minus the
uncertainty, `completed` is the loop over the anchors. The state machine asks
again at later times. `index` is -1 where the code has `None`.

### AuthorityCheck

One action per stage of `_check_authority_core`, in its order: `InvalidCertificate`,
`SyntheticTrust`, `ProposedUse`, `Fold`, `Clock`, the prefix by one of
`ObservedPrefix`, `SuppliedPrefix`, `DefaultPrefix`, `Validity`, `Sets`,
`Kernel` (or the exception `UnsoundPrefix`), `Gate`, and `Represented` or
`Operational`, which build, check and emit the outcome. A stage that finds a
fault returns a view at once. What a caller supplies in a call is chosen by the
stage that reads it. `Mark` and `Call` are the environment: a status event of
the certificate reaches the log; a call is made at the same or a later status
time, and the history variable `withdrawn` remembers whether an earlier view
said expired, revoked or superseded. An outcome keeps its layer, code,
direction, gate and the set of failure codes of its blocks; what a block says is
left out.

The fold is used by its properties rather than run again: `Fold` answers any
status that `ActiveIffUnblocked` and `NothingLost`, both proved, allow. The
kernel is any answer `kernel_verdict` can give, with one fact kept: a residual
set is empty when no prefix is admitted or the prefix has another length than
the clock's index. Kernel proof comparison, set checks and operational objects
answer anything. A certificate is one that was issued, so the horizon of its
anchors is the horizon of its claim (`certificate.py:268`).

`CertificateStanding` is a call seen from outside: a question and an answer.
The certificate has standing while its log has no status event of it and its
clock is not past the last anchor (`Standing`). Decided may be answered only
with standing, withdrawn only without; an answer may be withheld. The refinement
`ImplementsStanding` maps every stage of a call to the wait for the answer
(`Told`), and is proved. It is no liveness property: a call need not end.
`NotRegained`, over the history variable, says the same of a sequence of views;
it follows from the refinement and is proved and not run.

### KernelVerdict

A trajectory is a function on the steps `0..Horizon`, a claim the set of
trajectories that satisfy its formula, a rule carries the set of steps at which
it counts. `Call` starts a call at the clock's index `now` with the outer
prefixes `p_out`; `Expand` is one turn of the loop of `enumerate_trajectories`;
`Decide` is its end, early or not, the residual filter, the backend's answer,
the checker and the cascade of `kernel_verdict`. `p_star` and `p_in` do not
enter the verdict; their enclosure is checked in `AuthorityCheck`.

The environment is the world: `Happen` lets the next anchor be reached in any
state, allowed by the bundle or not, and an observation is any prefix set that
does not rule out what happened. Two kinds of backend answer: `Enumerated`, the
`EnumeratingBackend`, and `Reported`, any other `DFCCBackend` that tells the
truth: it may be unsure of feasibility, its enclosure too wide or not certified,
its witnesses or proofs bad. A backend that lies is not modelled: the reference
checker takes the `sound` flag of an enclosure as it is given. `Record` puts a
view into a kernel proof artifact, and `Conflicts` is the strict comparison
with a later view; what it blocks does not count as said.

`Runs` and `Meaning` are the reference: trajectories the rules allow, and the
verdict by quantifying over those that fit the prefixes.

### ClaimEvaluation

A formula is the sequence of its nodes, children before parents and the root
last, and what the code computes by recursion over the tree is a table over the
nodes: `Valid` (whether each compiles), `Answers` (what each answers at each
index). `validate_node` and `evaluate_node` are one call of the recursive
functions, given what the calls for the children return. There are three
answers, an exception being the third, and the loops keep Python's order: the
first child that decides ends `all` and `any` (`FirstOther`). The reference
`Holds` is the usual meaning, by quantifying over the interval, on words that go
on beyond the trajectory; `Reach` adds up nested intervals. Sources that no
sequence of nodes gives, such as a child that is no object, are cut off at a
node with an operator that is none. A predicate is a set of states; one that
raises on bad arguments is left out.

### ReplayGate and ValidationPipeline

`ReplayGate` has one action for each gate of `replay_authority_from_bundle`, in
its order: `BuildLedger`, `ReadContext`, `CheckLifecycle`, `TakeConfluence`,
`CheckRelations`, `EnrichRelations`, `EnrichCompletions`, `CheckProofs`,
`EnrichProofs`, `CheckClauseSchema`, `CheckContracts`, `CheckClauses`,
`CheckTrust`, `CheckKernelProofs`, `MakeCertificate`, `ReadUse`, `Judge`. Half of
them check, half of them write into `ctx` (the status context, with the place
each part comes from), and `Gate` is the common shape: fail and stop, or go on
with a context. Gates wrapped in `Strictly` check in a strict replay only.
A replay also ends in `Raised`, an exception that nothing between the gate and
the pipeline catches. `Judge` is `_check_authority_core`: any view, one of the two
failures `validate_pipeline` makes of a record on the way, or the exception of
`kernel.py:393`. A bundle's records are taken to parse.

A long check of an artifact is a list (`LedgerChecks`, `ClauseChecks`, …): the
checks in the order of the code, each with its stage label and the codes it can
give. An artifact is the set of its flaws, and `FirstFailure` is the first check
of the list that has one. Where a gate does something other than going down a
list (confluence proofs, relations, completions, the values of operational
proofs, the certificate), it is written out.

`ValidationPipeline` runs the stages before the replay (`Preflight`: a stage
passes or reports one of its faults under the label the code gives it, with
every stage behind that *label* blocked), hands over to the replay
(`BeginReplay`; without full replay only if the three inputs are there), and
turns its trace into stage results and a report (`EndReplay`, or `Raise` for an
exception). `Validate` and `ValidateSingle` are calls, from the environment.

### BundleManifest

An artifact is its content and a digest is what it is a digest of, so that a
digest is equal exactly when the content is. `Replace`, `Sign` and `Seal` are
what can be done to a bundle: replace an artifact, refresh its entry, write the
manifest's records and digest anew. The check is the schema stage, as far as a
null artifact goes (`CheckSchemas`: no schema takes one, but a role without a
schema is passed over), and the digest stage: `CheckEntries`
(`validate_artifact_ref`, which compares no digest with a null), `CheckOrder`, the search one step at a time (`Skip`,
`Enter`, `Refuse`, `Leave` of `visit()`: the recursion is the stack, each loop
over dependencies what is left of it), `CheckManifest`. A manifest lists ids, or
reference records of its own. `sealed` is a history variable: what the entries
said when the manifest got its digest.

### EvidenceAdmission

A contract's terms are its clause, validity interval, expiry rule, the expiry of
the obligation it rests on, and the base bundles it is meant for. `Issue` is
`certify_claim_from_artifact_bundle` followed by `certify_claim`, `Replay` the
gates of a strict replay that concern the semantics; each goes down its own list
of gates (`IssueGates`, `ReplayGates`) and the first that fails is the answer;
where the code raises, the gate has a name of its own or says so.
Three clocks meet: obligation scopes are read at the bundle's reference
context, contracts at the time of the call, the records of a direct clause at no
time when issuing and at the status time when replaying.

The two also do not see the same artifacts. Issuing takes what has a role
(`_first_role_mapping`), replaying also what has a semantic role or a type
(`_entry_matches`). An artifact under another role is in the bundle's set
`typed`, and `Seen` says which reader sees it: a contract or its evidence, a
direct clause, a trust assumption, or a second claim or base bundle that comes
before the one with the role and is then what a replay without certificate
takes. Contracts and evidence that cannot be read raise when issuing and are
passed over when replaying. A semantics is the set of clauses it was built of, or
a base bundle. Between calls, evidence is checked again, the reference context
gets a new stamp, time goes on, the certificate is put into the bundle.

`ReplayedAsIssued` therefore has two halves. Without typed artifacts the replay
judges the issued semantics, and refuses only for faults that issuing does not
look for. With them it judges all that was issued, and what it judges besides is
there by its type alone (`ByType`): issuing on trust and replaying on a clause that
only its type names is such a case.

## 3. Runs

| run | shows | bounds; distinct states |
|---|---|---|
| `lifecycle` | `ActiveIffUnblocked`, `NothingLost`, `Ratchet` and the refinement `ImplementsMeaning`: the fold is conservative and does not depend on the order of delivery | logs of up to 3 out of 17 events with 4 ids and 2 clocks, 7 event orders; 744,222 |
| `clock` | `IndexNotInDoubt`, `OneWay` | up to 4 anchors over 5 instants with gaps of 1, 1, 2, 1; uncertainty 0, 1, 2; every status time around them; 1,260 |
| `authority` | `DecisiveIsEarned`, `NeverRefused`, `ViewsConform`, `GuardPassTells` and the refinement `ImplementsStanding` | up to 2 anchors, so that an index can be 0 or 1; uncertainty 1 and status times that make the clock not effective, active at each index, in doubt and expired; one represented prefix, present or absent in each set; 50,624 |
| `kernel` | `SaidHolds`, `ExactVerdict`, `DecidedProofHolds`: verdicts are true of every completion and stay so | two states, two steps; six bundles that compile (free, monotone, stepwise, stuck late, stuck at once from one state, empty) and three that do not; every world; at each step seen or not; proof artifacts record views of the first anchor (`RecordBound`); 97,782 |
| `claims` | `AnswerIsFinal`, `WithinHorizonEvaluates` | horizon two, two states, formulas of temporal depth two with every interval, conjunctions in both orders, and nine that do not compile; every trajectory, and every continuation as far as the formula looks; 33,560 |
| `claims_raise` | violates `CompiledClaimsEvaluate` | the same |
| `update` | `WithdrawalStands`, `MaintainedLog`, `MaintainedIsProved`, `NoSilentSkip`, `MaintainedIsNeutral`: what updates decide one by one is what the fold of the log says | logs of up to 2 events (`MaxLog`) out of requests of three kinds: plain events, events that only fit a longer log, events that make claims, each with good evidence and with each kind of bad evidence in each field; seven update policies, one with an empty list of accepted ids; three authorities: with and without a confluence proof, under two policy versions; 27,860 |
| `pipeline` | `OpensForTheSound`, `JudgedIsProved`, `FailureBlocksTheRest`, `PassMeansJudged`, and the liveness `Answered` | bundles that differ from a good one in up to two of some hundred things the gates look at; each fault of the earlier stages alone, and pairs across stages whose labels differ; three blocks of three layers; strict and lenient, full and not; 710,654 |
| `relation_unchecked` | violates `RelationTakenIsChecked` | the same |
| `manifest` | `EachOnce`, `PassIsAcyclic`, `RefusedIsACycle`, `PassIsAsSealed` | three artifacts; chains, diamonds and loops of one, two and three, reached by one way or two; lists with and without the root, with ids and with records; three orders, one with a repetition; with and without an admission; two artifacts, one of them without a schema, edited among two contents and null where they depend on nothing (`MCNext`); 2,088,288 |
| `manifest_stale` | violates `StaleIsRefused` | one artifact edited, every one with a schema |
| `admission` | `ReplayedAsIssued`, `JudgedWasLicensed` | three contracts (one expires, one begins later and needs a status time, one is for the second base bundle), a direct clause, a trust assumption; one flaw, one refused or unreadable contract, or one typed artifact with or without a fault of its own; three status times; 1,624,865 |

Every passing run but `claims` also checks the type invariant of its module.

### Why the bounds are enough

A branch of the fold looks at the event in hand, at one parent, one rival at the
same clock or one hash of an earlier event, and at the proof: three places of
the log hold an event, what it depends on, and one that comes between or is
repeated. The events and orders of `MCLifecycleFold` are chosen so that every
test of the loop passes for one log and fails for another, and every action of
the state machine is taken. An update looks at one event; two in the log are
enough for the second to disagree with, or rest on, the first, and the kinds of
evidence are one deviation from good each, since each is tested apart.

The clock looks at two points and at neighbouring anchors; gaps of one and two
against uncertainties of up to two give intervals inside a step, over one anchor
and over several. In the authority check each stage reads what earlier stages
left in a few variables; the objects of `MCAuthorityCheck` are those that differ
from one of the two agreements in at most one place and in the fiber
association, the one field the code looks at again after the agreements have
failed; more faults at once only add blocks of the kinds already there.

Two steps are enough for the kernel run to have a first, a middle and a last
index, a rule that counts in one step only, and an enumeration that ends early.
In the claims run two nested intervals within a horizon of two look up to four
steps ahead, and the left side of an until has zero, one or two steps to hold on.

The interesting faults of the pipeline are pairs: an earlier gate hides or
changes what a later one sees. From each list of checks the run takes the last
check, and the second together with the last, so that a failing list and the
order within one are both met. In the manifest run three artifacts give a cycle
that contains the root, one that does not, one reached twice, and an admission
that covers part of one. Edits are made where
`b` and `c` depend on nothing, since no comparison of an artifact with its
digest looks at dependencies. In the admission run each clock falls before, into
and after an interval, and each kind of artifact is once under its role and
once under its type.

What the runs of the fold, the updates, the clock, the authority check, the
kernel, the claims, the pipeline, the manifest and the admission check is also
proved without bounds, liveness aside; there the runs show above all that the
properties are not empty, as each is violated by a mutation of the model that a
slip in the code would be.

Deadlock is checked in every run but those of the clock, where there is no
later status time than the last, of the claims, where a refused claim and a full
trajectory are the end, and of the updates, where a full log is.

The pipeline runs start from `MCInit`, which lets only the good bundle have
faults of the earlier stages: whether a bundle that fails there is sound for the
replay is never asked.

## 4. Fairness

`ValidationPipeline` assumes `WF_vars(Running)`: a call that has begun runs on.
`Running` is the program's own steps (a stage, a gate, the report) and not the
calls. The code is a single thread that waits for nothing; the steps of a call
are its statements, and nothing but a crash of the interpreter stops it between
two of them. `Answered` then says that each call reaches a report or an
exception: the failure of a gate, the trace with one stage result, the blocked
stages and the clauses that do not compile all end it. The calls themselves
have no fairness: nobody need call again.

No other module states fairness. Their loops are over finite data; that the
dependency search ends is a safety property (`EachOnce` with the lengths of the
lists), and the certificate's holder need not ask.

## 5. Proofs

Every theorem is about the specification of its module, for every value of the
constants that satisfies the module's named assumptions. They state that the
constants have the shapes the code gives them, and that "nothing" (`None`) is
not one of the values.

**`LifecycleFoldProofs`** (`EventsAssumption`, `OrdersAssumption`,
`MaxLogAssumption`): `TypeCorrect`, `ActiveExactlyWhenUnblocked` and
`NoEventLost`, that is `TypeOK`, `ActiveIffUnblocked` and `NothingLost`. None
of the three is inductive: they speak of the result, which is computed from the
accumulator at the end. The inductive invariant (`FoldInvariant`) says of the
accumulator at every turn what the result must satisfy at the end: statuses and
blocks are in step (only "active" exactly when there is no block), and for every
place of the log already handled that holds a relevant status event, some status
in the accumulator is at least as strong as the event's floor. A turn adds to
both sets and removes from neither, which is the content of `Bookkeeping`,
`Blocking` and `Applying`, one for each kind of effect; `TurnOfLoop` puts them
together, one case per branch. `ReturnOfLoop` carries the invariant over to the
result by `DominantIsStrongest`: the dominant status is a maximum of the
priorities. A delivery after a return leaves the claim about the log vacuous
until the next return, which is what `Current` expresses.

`MoreLogIsStronger` (`Ratchet`) and `ImplementsTheMeaning`
(`ImplementsMeaning`), which also need `NoneAssumption`, rest on a second
invariant, `MeaningInvariant`. While every
event handled so far was sound, the locals of the loop are a function of the
*set* of those events (`Described`), as `seen_clocks` holds for each clock the
latest of its status events; from the first unsound one on, "conflict" is among
the statuses, and stays (`Judged`). Sound is said of an event with the events
that sort before it, and those are the handled ones when its turn comes
(`NextPreceding`), since places of a log are strictly ordered (`PlaceOrder`).
`TurnOfMeaning` is one turn, a case per branch; its heart is `SameRival`: the
loop compares with the status it remembers for the clock, the meaning with the
latest rival, and they are the same. At the return, `ReturnOfMeaning` compares
with the ledger, which has a defect exactly if some event is unsound or an accepted id
is missing (`UnsoundIsDefective`, `SoundIsNotDefective`); the ledger speaks of
events rather than places, which is the same when no id is used twice
(`DistinctIs`, `EarlierIs`), and otherwise both say "conflict". A delivery is a
`Receive`, by the cardinality of the places of each event; a return is a
`Conclude`; every other step stutters. For `Ratchet` the invariant also says
where a verdict short of "conflict" came from: the events of a first part of the
log (`Earned`), and a set with more events has a stronger meaning
(`StrongerOfMore`) unless it is in conflict, which is stronger than the rest.

**`UpdateCertificateProofs`** (`RequestsAssumption`, `MaxLogAssumption`):
`TypeCorrect`, `WithdrawalsStand` (`WithdrawalStands`), `MaintainedAreProved`
(`MaintainedIsProved`), `SkipIsNotSilent` (`NoSilentSkip`), `MaintainedLogs`
(`MaintainedLog`) and `MaintainedAreNeutral` (`MaintainedIsNeutral`). `TurnOfOne`
says how one turn from the empty locals can end, `OneEvent` what the dominant
status then tells of the event, and `Deciding` what the decision tells of the
event and its evidence. An event behind a withdrawal is an effective status
event, which the meaning of any log that holds it is at least as strong as
(`MeaningHolds`), whatever the authority's order; a maintained event sets no status, and adds
nothing to the statuses of a log but "unknown" where it belongs to another policy
version than the authority's (`NeutralAdds`). `MaintainedLog` is not inductive; that no event of a
maintained log sets a status (`MaintainedInvariant`) is.
The lemmas about the tables and `dominant_status` are those of
`LifecycleFoldProofs` again, whose variables this module does not have.

**`KernelVerdictProofs`** (`KernelAssumption`): `KernelTypeCorrect`,
`VerdictsHold` (`SaidHolds`), `EnumerationIsExact` (`ExactVerdict`) and
`RecordedProofsHold` (`DecidedProofHolds`). `SaidHolds` speaks of the runs of
the bundle, the code of what its loop has collected. `KernelInvariant` joins the
two: during the loop the trajectories are exactly the runs up to the step
(`RunsAtZero`, `RunsGrow`), so at its end all runs, or none if it broke off
(`EnumerationComplete`, by `RunsCut`); what is observed does not rule out a world
that keeps to the bundle; and a view of the enumerating backend is a function of
the residual set (`ExactAnswer`). `VerdictIsSound` is the kernel rule itself:
what it says of an enclosure holds of the residual set inside it. As the world
goes on fewer runs continue it, so what was true stays true; for recorded proofs
narrower prefixes also leave fewer runs (`CutOfCut`).

**`AuthorityCheckProofs`** (`ClockAssumption`) begins with the clock, which
`AuthorityCheck` extends, and with `ClockSpec`, which asks for nothing but the
clock: `ClockTypeCorrect` (`ClockTypeOK`), `NoDoubt` (`IndexNotInDoubt`) and
`OnlyForward` (`OneWay`).
The anchors are a function on `0..Horizon` (`HorizonIs`) and increase
(`Increasing`); the loop's `completed` exists (`CompletedExists`), an anchor is
completed exactly when it is not after the instant (`CompletedIs`), and completion
grows with the instant (`CompletedMonotone`). An active clock has the same
`completed` at both ends of its interval, so at every instant between. What this
says of `status_clock` is then used for the calls.

Of the calls it proves `AuthorityTypeCorrect`,
`DecisionsAreEarned` (`DecisiveIsEarned`), `OutcomesAreValid` (`NeverRefused`),
`ViewsAreWellFormed` (`ViewsConform`), `GuardPassIsTheDecision`
(`GuardPassTells`), `AuthorityIsNotRegained` (`NotRegained`) and the refinement
`StandingIsImplemented` (`ImplementsStanding`). The invariant
has three parts beside the types: `StageInvariant`, what a call has established
when it reaches a stage (the guards recorded so far have passed, no status event
is in the log, the clock is active for this status time, the prefix is not one
that is empty where something was observed, assert and deny come with something
residual, an unproved kernel answer is "unknown");
`ResultInvariant`, the properties themselves of the last result; and
`HistoryInvariant`, without which `NotRegained` is not inductive: a certificate
once called withdrawn has a status event in its log or a clock past its last
anchor, and both stay. What an outcome builder returns is stated once
(`StatusOutcomeIs`, `GateIs`, `RepresentedIs`, `OperationalIs`), and each action
has a lemma. The fold enters by the two facts `LifecycleFoldProofs` proves of
it. The refinement needs no more than this invariant: `Mark` and `Call` are the
steps of the abstract caller (an expired clock stays expired, `ExpiredStays`),
a stage that goes on is a stutter, and one that ends the call answers. Before
the clock is read no guard record could carry a decision (`EarlyStages`); after
it the certificate has standing for the rest of the call (`LateStages`).

**`ClaimEvaluationProofs`** (`ClaimAssumption`): `AnswersAreFinal`
(`AnswerIsFinal`), `NoRaiseWithinHorizon` (`WithinHorizonEvaluates`),
`AnswerIsCurrent`, the inductive invariant, and `SatisfactionSet`, which puts
`compile_claim` and `satisfies` together without the state machine. Nothing
bounds the depth of a formula, the horizon, the registry or the states. The
tables are recursive functions, so the first thing to prove is that they exist:
for a step that looks at earlier places only (`Causal`), a table is a fixed
point, and there is one (`TableExists`), as there is one for every shorter
prefix. A step of the model is causal because children come before parents
(`ValidateNode`, `EvaluateNode`, `HoldNode`, `ReachNode`; then `ValidIs`,
`AnswersIs`, `MeaningIs`, `ReachesIs`). What the loops find is said without them
(`FirstOtherIs`, `AlongIs`, `AcrossIs`, `UntilIs`): the settled answer, or an
answer that some turn gave. Then one node, by cases on its operator: if the
children's answers agree with their meanings wherever they are not exceptions, so
do its own (`NodeAgrees`), and if the children answer as far as they can see, so
does it (`NodeSees`). For a source, take the first valid node that is wrong: its
children are valid and come before it (`SourceAnswers`). A node that does not
compile needs no meaning; a compiled source has none of them below its root.

`HasLeast`, that a nonempty set of naturals has a least element, is how this
module, `AuthorityCheckProofs` and `ValidationPipelineProofs` do induction, from
the library's theorem on well-founded relations. The library's induction theorems
take an operator as parameter, which the installed provers cannot instantiate, so
a property of all numbers is proved by looking at the least one that lacks it.

**`ValidationPipelineProofs`** (the shapes of bundles, faults and answers):
`PipelineTypeCorrect`, `GatesOpenForTheSound` (`OpensForTheSound`),
`OnlyProvedIsJudged` (`JudgedIsProved`), `FirstFailureBlocks`
(`FailureBlocksTheRest`), `ReportTellsTheView` (`PassMeansJudged`). The context
that reaches a gate is a function of the bundle and of strictness (`Built`), though half of
the gates write into it; the gates behind the present one (`Rank`, `Behind`) have
found what they look for (`Opens`), which with what stops a gate gives both
directions of `OpensForTheSound`, a property of the step that ends a replay: it is
taken at the judgement exactly for a sound bundle; the report has passes up to some stage and none
from there on (`BlockedFrom`). `CallsAreBounded` is the safe half of `Answered`:
the steps a call may still take (`StepsLeft`) are at most 29 when it begins, each
step takes at least one of them, and no other call comes between.

**`BundleManifestProofs`** (`BundleAssumption`, `NoneIsNoValue`):
`ManifestTypeCorrect`, `EntersOnce` (`EachOnce`), `RefusesCycles`
(`RefusedIsACycle`), `PassesAcyclic` (`PassIsAcyclic`), `PassesAsSealed`
(`PassIsAsSealed`). The invariant of the search: the path and the loops still to
do have one length, each artifact on the path is a dependency of the one before,
and every dependency a loop has gone over (`Taken`) has been left for good, is on
the path next, or belongs to an admitted cycle. A cycle behind the root would
have an artifact left before its successor. `PassIsAsSealed` goes another way:
behind the schema stage only artifacts without a schema are null, behind the
entries every other one is as its entry says, and the digest covers the entries.

**`EvidenceAdmissionProofs`** (`MaxTimeIsATime`, `BundlesAreBundles` and that
the "none" values are none): `AdmissionTypeCorrect`, `NothingUnlicensed`
(`JudgedWasLicensed`), `ReplayAgrees` (`ReplayedAsIssued`). The certificate
remembers the situation and time of its issuing; `AdmissionInvariant` says that
it is what issuing then and there makes, and that the last replay says what the
bundle, as it is, says. The two properties are then about functions of a bundle, a
situation and a time (`SituationDecides`): what they accept is licensed
(`AcceptedAreLicensed`), what issuing accepts a replay accepts too and the rest is
there by its type (`SeenByBoth`), and where issuing passes and nothing is typed,
replaying finds only faults that issuing does not look for (`SameFault`).

Only model-checked:

- `Answered` (a call that has begun gives an answer): liveness under fairness is
  out of the prover's reach. `CallsAreBounded` proves that a call cannot go on for
  ever; that its next step can be taken is what only the run shows.

## 6. Where code and documents differ

Three runs end in a violation.

- `CompiledClaimsEvaluate` (`claims.py:139`): each interval is bounded by the
  horizon but not the sum of nested ones. F[1,1] F[0,2] p compiles for a
  horizon of two, and its evaluation looks at a fourth state of three: an
  `IndexError`. `claims.py:3` says the compiler produces satisfaction sets over
  finite trajectories.
- `RelationTakenIsChecked` (`replay.py:840`): the check of relation artifacts
  (`replay.py:1330`) looks at entries with a relation's role or type, the gate
  that uses them follows the record's references by id, whatever the role.
  `docs/protocol-mapping.md:841-845` asks that what constructs a prefix or a
  fiber be accepted and proved.
- `StaleIsRefused` (`validation.py:562-568`, `artifacts.py:490`): a manifest may
  carry reference records of its own, and its digest is then of those. Nothing
  compares them with the references of the entries, so an artifact replaced
  later, its entry refreshed, passes under the old digest. `README.md:139-140`
  and `docs/protocol-mapping.md:26-27` say a stale digest is a mismatch.
  `PassIsAsSealed` is what does hold: manifests that list ids.

Four more were reproduced by calling the code and are not among the runs:

- `lifecycle.py:655`: the fold remembers only the last event that set a status
  at a clock. Take a revoke *a*, an expire *b* and an expire *d* at one clock,
  and a confluence proof that covers *a* and *b*: *b* replaces *a* without
  conflict, *d* agrees with *b*, and the log ends revoked. Without *b* the same
  proof leaves a conflict. `docs/architecture.md:86` and
  `docs/protocol-mapping.md:704-706` ask for a proof that identifies the events.
- `time.py:143`: with an uncertainty of one second, a status time half a second
  before the first anchor or after the last is active. `README.md:176` and
  `docs/protocol-mapping.md:253` call a status time outside the window expired.
- `authority.py:497` and `authority.py:557`: a supplied prefix view with
  `p_star` and `p_out` both empty is admitted; so is one of another index, where
  the observation policy's index overrides the clock's. Nothing is residual then,
  and the answer is the decisive `infeasible` with the gate open and no block.
  `docs/architecture.md:80` says missing information is not coerced into
  authority, `docs/protocol-mapping.md:644` names `exact_prefix_empty`.
- `kernel.py:393`: a supplied prefix view whose `p_star` is not within `p_out`,
  or whose `p_in` is not within `p_star`, raises a `ValueError` that nothing
  catches. `docs/architecture.md:18` promises a typed outcome. In
  `AuthorityCheck` this is the action that ends a call with an exception.

## 7. Observations

What modelling showed of the code that no document rules out, or that a reader
of both should know:

Times and licences

- Nothing ties `reference_context.status_time` to the status time of the status
  context: with an old stamp an expired obligation stays in scope
  (`docs/protocol-mapping.md:342` makes the stamp the time of evaluation).
- A direct clause whose record has an expiry can never be issued, since issuing
  reads it at no time; replaying reads it at the status time and may accept it.
  A direct clause's reason records are checked when replaying only.
- A direct accepted clause is not asked for its evidence's checker status nor
  for a contract's validity (`docs/protocol-mapping.md:40`, `:296-298`).
- Clause ids are `accepted:<target>`: contracts with one target share one.
- When one of two contracts has lapsed the judged semantics is smaller; when all
  have, it is the attached certificate's or, without one, the raw base bundle's
  (`README.md:137-138` and `docs/architecture.md:84` speak against raw semantics;
  issuing refuses it).
- A replay without attached certificate certifies the base bundle again, so a
  base that does not compile raises.
- What is under role `other` with the type of a contract, a clause, a claim or a
  base bundle is nothing to issuing and counts when replaying: a certificate
  issued on trust may be replayed on a clause it was not issued on, and a replay
  without attached certificate may certify another claim.

Cycles and manifests

- An admitted cycle is looked up only when its back edge is met, as the path of
  that edge; ids are matched as substrings; and a dependency order makes
  admissions of longer cycles useless, since the order check refuses first.
- An entry whose role has no schema and whose artifact is null keeps its old
  digest and passes a strict check: `artifacts.py:680` compares nothing then.
- Artifacts that the root does not reach are not searched, and a root that is
  not listed skips the search. Artifacts that are not listed are not covered by
  the manifest's digest. The recursion is as deep as the longest chain.

Reports

- A validation without full replay of a bundle with lifecycle events always
  fails, with `checker_unknown` under the label of the guard stage;
  `_unknown` gives that label to faults of every stage.
- A digest fault found with the references is reported under their label, so
  the report has no result for the digest stage. A full replay that fails
  reports one result for it.
- A `SetRef` entry with a schema of its own may raise a `KeyError`.
- After the strict ledger has passed, some branches of the admission and trust
  checks (unresolved required references, obligation scopes) cannot be taken.

Updates

- A policy that lists accepted ids answers `recompute` as soon as the cut holds
  another event, whatever is proved, although `docs/protocol-mapping.md:788-790`
  speaks only of the two having to be coherent.
- An empty list of accepted ids bounds nothing in the fold (`lifecycle.py:441`)
  though the update reads it as a list that leaves the event out
  (`certificate.py:1413`): a revocation is answered `revoked` and not
  `recompute`. `NoSilentSkip` says so; no event is maintained that way.
- An update's policy version defaults to "update" (`certificate.py:1396`), that of
  an authority check to "default" (`authority.py:1256`): a revoke carrying either
  is decided `revoked` by the one and ends as unknown in the other.
- `update_certificate` folds the new event alone. An event with a parent is
  therefore a conflict unless the policy brings a confluence proof for it.

## 8. Not modelled

- JSON Schema, canonical JSON, digests and pointers: pure conversions. A digest
  is a token that is equal when the content is.
- Record classes, profile resolution, the API's entry points, the command line,
  the golden cases: they convert, dispatch or compare.
- The internals of the reference ledger, of the operational objects of
  `frame.py` (fibers, completion, adjudication, adequacy) and of some forty
  evidence checks of `ReferenceChecker`: the models take any answer of theirs, or
  the flaws of an artifact as input. Which artifact has which flaw is not derived
  from its content.
- The certificate's own record and its digests, and the trace's records.
- The order of time strings. Within one logical clock the code compares times as
  strings, the models as numbers.
- A status context without `validity_status` or `adequacy_direction`: the models
  choose the value, as the record does after its defaults are in.

## 9. Plan

In this order:

1. `ReferenceLedger`: which references are required and how they resolve, as the
   ledger check of `ReplayGate`.
2. `OperationalObjects`: from observations to fibers, adjudications and adequacy,
   as the answers `AuthorityCheck` takes.
3. `AuthorityCheck` with its kernel answers from `KernelVerdict`, so that a
   decisive represented outcome is true of the world and not only earned.
4. The decision table of `ReferenceChecker`; transfer and composition in
   `api.py`.
