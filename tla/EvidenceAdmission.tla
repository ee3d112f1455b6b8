------------------------- MODULE EvidenceAdmission -------------------------
(***************************************************************************)
(* dfcc.admission and the issuance from an artifact bundle of              *)
(* dfcc.certificate, with what a strict replay of dfcc.replay makes of the *)
(* same bundle later: which semantic clauses are accepted, at whose time,  *)
(* and on which semantics a claim is certified and judged.                 *)
(*                                                                         *)
(* Three clocks meet here.  The scope of an obligation artifact is read at *)
(* the status time of the bundle's reference context, the validity of a    *)
(* contract at the status time of the call, and the scope that a direct    *)
(* clause records for its obligations at no time when issuing and at the   *)
(* status time when replaying.                                             *)
(*                                                                         *)
(* Issuing takes an artifact for what its role says it is; replaying also  *)
(* for what its semantic role or its type says.  What is not under the     *)
(* role issuing looks for is "typed", and only a replay sees it.           *)
(*                                                                         *)
(* A semantics is the set of the clauses it was built of; a base bundle    *)
(* taken as it is, is the set of its name.  The checks that no clock and   *)
(* no semantics bears on are flaws of the bundle, named for the gate that  *)
(* finds them; the gates "evidence", "terms" and "compile" raise where the *)
(* others return a failure.                                                *)
(***************************************************************************)
EXTENDS Naturals, Sequences

CONSTANTS
  None,
  Unbounded,      \* the expiry of what does not expire
  MaxTime,        \* the last status time
  Contracts,      \* the admission contracts
  Terms,          \* what each says
  Bundles         \* what an artifact bundle may hold

Time == 0..MaxTime

Clause == {Terms[c].clause : c \in Contracts}

\* Each contract has evidence of its own, under an id no other evidence has.
EvidenceStatus == {"accepted", "unchecked", "unreadable", "absent"}

\* A bundle may have a second claim, with its anchor and time basis, and a
\* second base bundle, both typed and before the first.
Base == {"base", "second base"}

Artifact ==
  {<<"clause">>, <<"trust">>, <<"claim">>, <<"base">>}
  \cup ({"contract", "evidence"} \X Contracts)

Flaw == {"manifest", "sources", "roles", "ledger", "schema", "clauses", "trust",
         "claim", "second claim", "base", "second base", "compile", "context",
         "reason records"}

\* "refused" and "unread" are the contracts that admission_contract_result
\* refuses and that from_json cannot read.
Bundle ==
  [held : SUBSET Contracts, refused : SUBSET Contracts, unread : SUBSET Contracts,
   direct : {None} \cup [contract : Contracts,
                         record : {Unbounded} \cup Time,
                         obligation : {Unbounded} \cup Time],
   trust : {None} \cup [obligation : {Unbounded} \cup Time],
   typed : SUBSET Artifact,
   flaws : SUBSET Flaw]

ASSUME MaxTimeIsATime == MaxTime \in Nat
ASSUME BundlesAreBundles == Bundles \subseteq Bundle
ASSUME BaseIsNoClause == Base \cap Clause = {}
ASSUME NoneIsNone == None \notin Time \cup {Unbounded}

VARIABLES
  bundle,         \* what it holds; it does not change
  evidence,       \* the checker status of each contract's evidence
  stamp,          \* reference_context.status_time
  now,
  certificate,    \* None or the certificate issued last: its claim, its semantics
  origin,         \* the situation and the time it was issued in
  attached,       \* whether the bundle has the certificate and its sources
  call            \* the last call and its result

vars == <<bundle, evidence, stamp, now, certificate, origin, attached, call>>

\* what an issuance and a replay of the bundle have to go by
Situation == [evidence |-> evidence, stamp |-> stamp]

-----------------------------------------------------------------------------
(* Scopes and validity.                                                    *)

\* active_scope_status_at: an expiry needs a time to be read at.
InScope(expiry, t) == expiry = Unbounded \/ (t # None /\ t <= expiry)

\* _validity_active: without a time nothing is outside its interval.
ValidityActive(terms, t) ==
  t # None => /\ terms.notBefore <= t
              /\ terms.expiry = Unbounded \/ t <= terms.expiry

\* _first_role_mapping and _all_role_mappings against _entry_matches
Seen(reader, artifact) == reader = "replay" \/ artifact \notin bundle.typed

\* A variant: the interval is not looked at.
Admits_always(reader, s, c, t) ==
  /\ Seen(reader, <<"contract", c>>) /\ Seen(reader, <<"evidence", c>>)
  /\ c \notin bundle.unread /\ s.evidence[c] = "accepted"
  /\ Terms[c].rule = "requires-status-time" => t # None

\* admit_evidence, of a contract and its evidence that the reader sees
Admits(reader, s, c, t) ==
  /\ Seen(reader, <<"contract", c>>) /\ Seen(reader, <<"evidence", c>>)
  /\ c \notin bundle.unread /\ s.evidence[c] = "accepted"
  /\ ValidityActive(Terms[c], t)
  /\ Terms[c].rule = "requires-status-time" => t # None

\* admit_evidence_set
Admitted(reader, s, t) ==
  {Terms[c].clause : c \in {c \in bundle.held : Admits(reader, s, c, t)}}

HasDirect(reader) == bundle.direct # None /\ Seen(reader, <<"clause">>)

HasTrust(reader) == bundle.trust # None /\ Seen(reader, <<"trust">>)

\* A direct clause is that of a contract in the bundle.
Direct(reader) ==
  IF HasDirect(reader) THEN {Terms[bundle.direct.contract].clause} ELSE {}

Accepted(reader, s, t) == Direct(reader) \cup Admitted(reader, s, t)

\* the obligation artifacts that the bundle's artifacts refer to, whatever
\* their roles and types
ObligationExpiries ==
  {Terms[c].obligation : c \in bundle.held}
  \cup (IF bundle.trust = None THEN {} ELSE {bundle.trust.obligation})
  \cup (IF bundle.direct = None THEN {} ELSE {bundle.direct.obligation})

\* _resolve_ledger_ref, strict: every obligation must be in scope, and there
\* must be what a direct clause refers to.
LedgerFails(s) ==
  \/ \E e \in ObligationExpiries : ~ InScope(e, s.stamp)
  \/ bundle.direct # None /\ s.evidence[bundle.direct.contract] = "absent"

\* accepted_clause_obligation_record_result
RecordsFail(reader, t) == HasDirect(reader) /\ ~ InScope(bundle.direct.record, t)

ContractsFail(reader) ==
  \E c \in bundle.held \cap bundle.refused : Seen(reader, <<"contract", c>>)

\* A clause for another bundle; a direct clause has its contract's targets.
TargetsFail(accepted, base) ==
  \E c \in Contracts : Terms[c].clause \in accepted /\ base \notin Terms[c].targets

-----------------------------------------------------------------------------
(* Issuing and replaying: the gates each passes in its order, and the      *)
(* first that fails.                                                       *)

\* certify_claim_from_artifact_bundle, and certify_claim after "licence"
IssueGates == <<"manifest", "sources", "ledger", "schema", "clauses", "evidence",
                "contracts", "terms", "target", "trust", "licence", "claim",
                "compile">>

\* replay_authority_from_bundle: the gates that concern the semantics, and
\* the status context before them.  The others are in ReplayGate.
ReplayGates == <<"ledger", "context", "schema", "contracts", "clauses",
                 "trust", "sources", "claim", "target", "compile">>

Gate == {IssueGates[i] : i \in DOMAIN IssueGates}
        \cup {ReplayGates[i] : i \in DOMAIN ReplayGates}

ASSUME NoneIsNoGate == None \notin Gate

\* what both look for, each in what it sees
Fails(reader, gate, s, t) ==
  \/ gate \in bundle.flaws \cap {"manifest", "sources", "ledger", "context"}
  \/ gate = "ledger" /\ LedgerFails(s)
  \/ gate \in bundle.flaws \cap {"schema", "clauses"} /\ HasDirect(reader)
  \/ gate = "contracts" /\ ContractsFail(reader)
  \/ gate = "trust" /\ "trust" \in bundle.flaws /\ HasTrust(reader)
  \/ gate = "compile" /\ "compile" \in bundle.flaws /\ Accepted(reader, s, t) # {}

\* The claim and the base bundle must be there under their roles.  The records
\* of a direct clause are read at no time, its reason records not at all; what
\* cannot be read raises.
IssueFails(gate, s, t) ==
  \/ Fails("issue", gate, s, t)
  \/ gate = "sources" /\ "roles" \in bundle.flaws
  \/ gate = "clauses" /\ RecordsFail("issue", None)
  \/ /\ gate = "evidence"
     /\ \E c \in Contracts :
          Seen("issue", <<"evidence", c>>) /\ s.evidence[c] = "unreadable"
  \/ /\ gate = "terms"
     /\ \E c \in bundle.held \cap bundle.unread : Seen("issue", <<"contract", c>>)
  \/ gate = "target" /\ TargetsFail(Accepted("issue", s, t), "base")
  \/ gate = "licence" /\ Accepted("issue", s, t) = {} /\ ~ HasTrust("issue")
  \/ gate = "claim" /\ "claim" \in bundle.flaws
  \/ gate = "compile" /\ Accepted("issue", s, t) = {} /\ "base" \in bundle.flaws

\* _first_mapping: what a replay takes without the certificate
ClaimTaken == IF <<"claim">> \in bundle.typed THEN "second claim" ELSE "claim"
BaseTaken == IF <<"base">> \in bundle.typed THEN "second base" ELSE "base"

\* Without the certificate in the bundle a claim is certified again, on a base
\* bundle, whatever is accepted.  What cannot be read is passed over.
ReplayFails(gate, s, t) ==
  \/ Fails("replay", gate, s, t)
  \/ gate = "clauses" /\ RecordsFail("replay", t)
  \/ gate = "clauses" /\ "reason records" \in bundle.flaws /\ HasDirect("replay")
  \/ gate = "claim" /\ ~ attached /\ {ClaimTaken, BaseTaken} \cap bundle.flaws # {}
  \/ gate = "target" /\ TargetsFail(Accepted("replay", s, t),
                                   IF attached THEN "base" ELSE BaseTaken)

\* the first of the gates that fails, or None
First(gates, failing) ==
  LET places == {i \in DOMAIN gates : gates[i] \in failing} IN
  IF places = {} THEN None
  ELSE gates[CHOOSE i \in places : \A j \in places : i <= j]

IssueFailure(s, t) ==
  First(IssueGates, {gate \in Gate : IssueFails(gate, s, t)})

ReplayFailure(s, t) ==
  First(ReplayGates, {gate \in Gate : ReplayFails(gate, s, t)})

\* A variant: what is accepted is added to what there was.
SemanticsOver_added(given, accepted) == given \cup accepted

\* With accepted clauses the semantics is built of them alone, without it is
\* what there was.
SemanticsOver(given, accepted) == IF accepted = {} THEN given ELSE accepted

\* A variant: the contracts are admitted at no time.
IssuedSemantics_timeless(s, t) == SemanticsOver({"base"}, Accepted("issue", s, None))

IssuedSemantics(s, t) == SemanticsOver({"base"}, Accepted("issue", s, t))

\* _certificate_from_bundle
JudgedSemantics(t) ==
  SemanticsOver(IF attached THEN certificate.semantics ELSE {BaseTaken},
                Accepted("replay", Situation, t))

JudgedClaim == IF attached THEN certificate.claim ELSE ClaimTaken

Called(kind, t, failed, claim, semantics) ==
  [kind |-> kind, at |-> t, failed |-> failed,
   claim |-> IF failed = None THEN claim ELSE None,
   semantics |-> IF failed = None THEN semantics ELSE None]

Issue(t) ==
  LET failed == IssueFailure(Situation, t)
      semantics == IssuedSemantics(Situation, t)
  IN
  /\ call' = Called("issue", t, failed, "claim", semantics)
  /\ IF failed = None
     THEN /\ certificate' = [claim |-> "claim", semantics |-> semantics]
          /\ origin' = [situation |-> Situation, at |-> t]
          /\ attached' = FALSE
     ELSE UNCHANGED <<certificate, origin, attached>>
  /\ UNCHANGED <<bundle, evidence, stamp, now>>

Replay(t) ==
  /\ call' = Called("replay", t, ReplayFailure(Situation, t), JudgedClaim,
                    JudgedSemantics(t))
  /\ UNCHANGED <<bundle, evidence, stamp, now, certificate, origin, attached>>

-----------------------------------------------------------------------------
(* What happens to the bundle between the calls.                           *)

NoCall == [kind |-> "none", at |-> None, failed |-> None, claim |-> None,
           semantics |-> None]

\* The certificate and its sources are put into the bundle.
Attach ==
  /\ certificate # None /\ ~ attached
  /\ attached' = TRUE /\ call' = NoCall
  /\ UNCHANGED <<bundle, evidence, stamp, now, certificate, origin>>

\* The evidence of a contract is checked again.
Recheck(c, status) ==
  /\ evidence' = [evidence EXCEPT ![c] = status]
  /\ call' = NoCall
  /\ UNCHANGED <<bundle, stamp, now, certificate, origin, attached>>

\* The bundle's reference context gets the present time.
Restamp ==
  /\ stamp' = now /\ call' = NoCall
  /\ UNCHANGED <<bundle, evidence, now, certificate, origin, attached>>

Tick ==
  /\ now < MaxTime
  /\ now' = now + 1 /\ call' = NoCall
  /\ UNCHANGED <<bundle, evidence, stamp, certificate, origin, attached>>

\* Evidence of contracts that the bundle does not hold is not asked for.
Init ==
  /\ bundle \in Bundles
  /\ evidence \in [Contracts -> EvidenceStatus]
  /\ \A c \in Contracts \ bundle.held : evidence[c] = "absent"
  /\ stamp \in {None, 0}
  /\ now = 0
  /\ certificate = None /\ origin = None /\ attached = FALSE
  /\ call = NoCall

Next ==
  \/ \E t \in {None, now} : Issue(t)
  \/ Replay(now)
  \/ Attach
  \/ \E c \in bundle.held, status \in EvidenceStatus : Recheck(c, status)
  \/ Restamp
  \/ Tick

Spec == Init /\ [][Next]_vars

-----------------------------------------------------------------------------
(* Properties.                                                             *)

\* The state holds what it should; a semantics is a base bundle alone or
\* clauses alone.
Semantics == {{b} : b \in Base} \cup ((SUBSET Clause) \ {{}})

TypeOK ==
  /\ bundle \in Bundles
  /\ evidence \in [Contracts -> EvidenceStatus]
  /\ stamp \in {None} \cup Time /\ now \in Time
  /\ certificate \in {None} \cup [claim : {"claim"}, semantics : Semantics]
  /\ attached \in BOOLEAN /\ (attached => certificate # None)
  /\ call.failed \in {None} \cup Gate
  /\ call.claim \in {None, "claim", "second claim"}
  /\ call.semantics \in {None} \cup Semantics

\* what is in a judgement because a replay goes by type where issuing does not
ByType(x) ==
  \/ x = "second base" /\ ~ attached
  \/ <<"clause">> \in bundle.typed /\ x \in Direct("replay")
  \/ \E c \in bundle.held :
       /\ Terms[c].clause = x
       /\ {<<"contract", c>>, <<"evidence", c>>} \cap bundle.typed # {}

\* Issuing and replaying agree but for what only its type names: a strict
\* replay of the bundle a certificate was issued from, at the status time it
\* was issued for and in the situation it was issued in, with the certificate
\* in the bundle or without, judges all the clauses of the certificate and
\* nothing besides that is not there by its type alone; without such artifacts
\* it judges the certificate's semantics, and refuses only for a fault
\* that issuing does not look for: in the status context, in a reason record,
\* or in a base bundle that accepted clauses replaced
\* (certify_claim_from_artifact_bundle against replay_authority_from_bundle).
ReplayedAsIssued ==
  /\ call.kind = "replay" /\ certificate # None
  /\ origin = [situation |-> Situation, at |-> call.at]
  => IF call.failed = None
     THEN /\ \/ call.claim = certificate.claim
             \/ ~ attached /\ <<"claim">> \in bundle.typed
          /\ certificate.semantics \subseteq call.semantics \cup {"base"}
          /\ \A x \in call.semantics \ certificate.semantics : ByType(x)
          /\ bundle.typed = {} => call.semantics = certificate.semantics
     ELSE \/ bundle.flaws \cap {"context", "reason records"} # {}
          \/ ~ attached /\ "base" \in bundle.flaws
          \/ bundle.typed # {}

\* A clause is licensed to a reader by its contract or as a direct clause, in
\* a situation, at a time.
Licensed(reader, x, s, t) ==
  \/ \E c \in bundle.held :
       /\ Terms[c].clause = x
       /\ Seen(reader, <<"contract", c>>)
       /\ s.evidence[c] = "accepted"
       /\ ValidityActive(Terms[c], t)
       /\ InScope(Terms[c].obligation, s.stamp)
  \/ x \in Direct(reader) /\ InScope(bundle.direct.obligation, s.stamp)

\* No clause outlives its licence except through a certificate, and none
\* comes into a certificate without one under its role; a certificate rests on
\* the base bundle only by trust, and a replay of it never falls back on a base
\* bundle, whatever has expired since (admit_evidence_set,
\* _certificate_from_bundle).
JudgedWasLicensed ==
  /\ certificate # None => \A x \in certificate.semantics :
       \/ x = "base" /\ HasTrust("issue")
       \/ Licensed("issue", x, origin.situation, origin.at)
  /\ call.kind = "replay" /\ call.failed = None => \A x \in call.semantics :
       \/ x \in Base /\ ~ attached
       \/ attached /\ x \in certificate.semantics
       \/ Licensed("replay", x, Situation, call.at)
=============================================================================
