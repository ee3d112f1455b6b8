------------------------- MODULE MCUpdateCertificate -------------------------
(***************************************************************************)
(* Update requests over three ids and two clocks: plain events, events     *)
(* that only fit a longer log, and events with good, missing, shallow and  *)
(* borrowed evidence.                                                      *)
(***************************************************************************)
EXTENDS UpdateCertificate

CONSTANTS RootDigest, ManifestDigest, BareDigest

MCEventId == 1..3
MCBareDigests == {BareDigest}

Event(id, clock, kind) ==
  [id |-> id, certificate |-> CertificateId, clock |-> clock, time |-> 1,
   kind |-> kind, ancestry |-> {}, conflictsWith |-> None,
   policyVersion |-> None, sigRequired |-> FALSE, signed |-> TRUE,
   sigResult |-> None, sigProofMatches |-> FALSE, verified |-> "unknown",
   eventHash |-> None, hashes |-> {RootDigest}, previousHash |-> None,
   manifestDigest |-> None]

Good ==
  [accepted |-> TRUE, kind |-> "purpose", sameRef |-> TRUE, bound |-> TRUE,
   event |-> "this", value |-> "this"]

Bad ==
  {None,
   [Good EXCEPT !.accepted = FALSE],
   [Good EXCEPT !.bound = FALSE],
   [Good EXCEPT !.kind = "other"],
   [Good EXCEPT !.sameRef = FALSE],
   [Good EXCEPT !.event = "other"],
   [Good EXCEPT !.value = "none"]}

NoEvidence == [f \in Field |-> None]
AllGood == [f \in Field |-> Good]

Request(e) ==
  [event |-> e, evidence |-> NoEvidence, wellFormed |-> TRUE,
   verifierSaid |-> None, dependencyUpdates |-> FALSE,
   frameChanged |-> FALSE, needsPreservation |-> FALSE]

Audit == Event(1, 1, "issue")

Plain ==
  {Request(Audit),
   Request(Event(1, 2, "revoke")),
   Request(Event(2, 1, "expire")),
   Request(Event(2, 2, "mark-unknown")),
   Request(Event(3, 2, "supersede")),
   [Request(Audit) EXCEPT !.wellFormed = FALSE]}

FitALog ==
  {Request([Event(3, 2, "issue") EXCEPT !.ancestry = {1}]),
   Request([Event(3, 2, "revoke") EXCEPT !.ancestry = {2}]),
   Request([Event(2, 2, "issue") EXCEPT !.conflictsWith = 1]),
   Request([Event(2, 1, "revoke") EXCEPT
              !.previousHash = event_commitment(Audit)]),
   Request([Event(3, 1, "issue") EXCEPT !.policyVersion = "v0"]),
   Request([Event(2, 1, "issue") EXCEPT !.policyVersion = "v1"]),
   Request([Event(3, 2, "revoke") EXCEPT !.policyVersion = "v1"]),
   Request([Event(2, 1, "issue") EXCEPT !.certificate = None]),
   Request([Event(3, 1, "expire") EXCEPT !.certificate = None]),
   Request([Event(3, 1, "revoke") EXCEPT !.hashes = {}])}

Digested ==
  Request([Event(2, 1, "issue") EXCEPT
             !.manifestDigest = ManifestDigest,
             !.hashes = {RootDigest, ManifestDigest}])

Signed ==
  [Request([Event(3, 1, "issue") EXCEPT !.sigRequired = TRUE]) EXCEPT
     !.verifierSaid = "pass"]

Changed ==
  [Request(Event(3, 2, "issue")) EXCEPT
     !.dependencyUpdates = TRUE, !.frameChanged = TRUE,
     !.needsPreservation = TRUE]

Claiming ==
  {Digested, Signed, Changed,
   Request([Digested.event EXCEPT !.manifestDigest = BareDigest,
                                  !.hashes = {RootDigest, BareDigest}]),
   Request([Signed.event EXCEPT !.sigResult = "pass",
                                !.sigProofMatches = TRUE]),
   [Signed EXCEPT !.verifierSaid = "fail"],
   [Signed EXCEPT !.event.signed = FALSE]}

Proved(r) == [r EXCEPT !.evidence = AllGood]

\* Everything proved but one field, in each of the bad ways.
Tainted(r, fields) ==
  {[Proved(r) EXCEPT !.evidence[f] = v] : f \in fields, v \in Bad}

MCRequests ==
  Plain \cup FitALog \cup Claiming
    \cup {Proved(r) : r \in Plain \cup FitALog \cup Claiming}
    \cup Tainted(Digested, {"manifest_digest", "event_manifest_digest"})
    \cup Tainted(Signed, {"signature"})
    \cup Tainted(Changed, {"dependency_transfer", "frame_transfer",
                           "proof_preservation"})
    \cup Tainted(Request(Event(2, 1, "issue")),
                 {"accepted_event_ids", "trace_class", "causal_cut",
                  "log_root", "frame_transfer"})

NoPolicy ==
  [accepted |-> None, proof |-> None, conflictOnDisagreement |-> TRUE,
   logRoot |-> None, traceClass |-> None, causalCut |-> None,
   manifestDigest |-> None, requirePolicyVersion |-> FALSE,
   policyVersion |-> "v1"]

Confluence ==
  [status |-> "pass", bound |-> TRUE, purpose |-> "confluence", ids |-> {1, 2, 3}]

MCPolicies ==
  {NoPolicy,
   [NoPolicy EXCEPT !.accepted = {}],
   [NoPolicy EXCEPT !.accepted = {2}, !.causalCut = {}],
   [NoPolicy EXCEPT !.accepted = {1, 2}, !.causalCut = {1}],
   [NoPolicy EXCEPT !.logRoot = RootDigest, !.traceClass = {"issue", "revoke"}],
   [NoPolicy EXCEPT !.manifestDigest = ManifestDigest,
                    !.requirePolicyVersion = TRUE],
   [NoPolicy EXCEPT !.policyVersion = "v0", !.conflictOnDisagreement = FALSE,
                    !.proof = Confluence]}

\* With and without a confluence proof, under two policy versions.
MCAuthorities ==
  {[proof |-> None, policyVersion |-> "v1"],
   [proof |-> Confluence, policyVersion |-> "v1"],
   [proof |-> None, policyVersion |-> "default"]}
=============================================================================
