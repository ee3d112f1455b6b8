--------------------------- MODULE MCLifecycleFold ---------------------------
(***************************************************************************)
(* A small log: four ids, two clocks, and events chosen so that each check *)
(* of the fold rejects some log and passes another.                        *)
(***************************************************************************)
EXTENDS LifecycleFold

CONSTANTS RootDigest, ManifestDigest

MCEventId == 1..4

Base ==
  [id |-> 1, certificate |-> CertificateId, clock |-> 1, time |-> 1,
   kind |-> "issue", ancestry |-> {}, conflictsWith |-> None,
   policyVersion |-> None, sigRequired |-> FALSE, signed |-> TRUE,
   sigResult |-> None, sigProofMatches |-> FALSE, verified |-> "unknown",
   eventHash |-> None, hashes |-> {RootDigest}, previousHash |-> None,
   manifestDigest |-> None]

Ev(id, clock, kind) ==
  [Base EXCEPT !.id = id, !.clock = clock, !.kind = kind]

Issue == Ev(1, 1, "issue")
Chain == Ev(2, 2, "supersede")   \* commits to the issue event

Chained ==
  {Issue,
   [Chain EXCEPT !.ancestry = {1}, !.previousHash = event_commitment(Issue)],
   [Ev(3, 2, "expire") EXCEPT !.ancestry = {2}],
   [Ev(3, 2, "revoke") EXCEPT !.ancestry = {1}],
   [Ev(4, 1, "revoke") EXCEPT !.policyVersion = "v0"],
   [Ev(2, 1, "issue") EXCEPT !.certificate = None]}

SelfHashed ==
  LET e == Ev(4, 2, "expire") IN
  [e EXCEPT !.eventHash = event_commitment(e),
            !.hashes = {RootDigest, event_commitment(e)}]

Signed ==
  {Issue,
   [Ev(2, 1, "revoke") EXCEPT !.sigRequired = TRUE, !.sigResult = "pass",
                              !.sigProofMatches = TRUE],
   [Ev(3, 1, "expire") EXCEPT !.sigRequired = TRUE],
   [Ev(3, 2, "revoke") EXCEPT !.sigRequired = TRUE, !.verified = "pass"],
   [Ev(2, 2, "mark-unknown") EXCEPT !.manifestDigest = ManifestDigest],
   [Ev(4, 1, "issue") EXCEPT !.conflictsWith = 1, !.hashes = {}],
   SelfHashed}

Clashing ==
  {Ev(1, 1, "revoke"),
   Ev(2, 1, "expire"),
   [Ev(3, 1, "expire") EXCEPT !.time = 2],
   [Ev(4, 1, "trigger-block") EXCEPT !.time = 0],
   [Ev(3, 2, "mark-out-of-frame") EXCEPT !.ancestry = {4}]}

MCEvents == Chained \cup Signed \cup Clashing

NoOrder ==
  [accepted |-> {}, proof |-> None, conflictOnDisagreement |-> TRUE,
   logRoot |-> None, traceClass |-> {}, causalCut |-> {},
   policyVersion |-> "v1"]

Proof(ids) ==
  [status |-> "pass", bound |-> TRUE, purpose |-> "confluence", ids |-> ids]

MCOrders ==
  {NoOrder,
   [NoOrder EXCEPT !.proof = Proof({1, 2})],
   [NoOrder EXCEPT !.proof = [Proof(1..4) EXCEPT !.status = "unknown"]],
   [NoOrder EXCEPT !.proof = Proof({1, 2, 4}), !.accepted = {1, 2, 4}],
   [NoOrder EXCEPT !.logRoot = RootDigest, !.accepted = {1, 3}],
   [NoOrder EXCEPT !.traceClass = {"issue", "revoke", "expire"},
                   !.causalCut = {1}],
   [NoOrder EXCEPT !.conflictOnDisagreement = FALSE,
                   !.policyVersion = "v0"]}
=============================================================================
