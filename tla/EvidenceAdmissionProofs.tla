---------------------- MODULE EvidenceAdmissionProofs ----------------------
(***************************************************************************)
(* Proofs about EvidenceAdmission, for every set of contracts, their       *)
(* terms, every bundle and every last status time: the semantics are well  *)
(* typed, nothing is certified or judged without a licence, and a replay   *)
(* comes to what was issued.                                               *)
(***************************************************************************)
EXTENDS EvidenceAdmission, TLAPS

(***************************************************************************)
(* The first failing gate.                                                 *)
(***************************************************************************)
LEMMA LeastPlace ==
  ASSUME NEW S, S \subseteq 1..13, S # {}
  PROVE  \E i \in S : \A j \in S : i <= j
<1> DEFINE Low(n) == \A j \in S : n < j
<1>1. PICK k \in S : TRUE
  OBVIOUS
<1>2. SUFFICES ASSUME \A i \in S : \E j \in S : j < i
               PROVE  FALSE
  OBVIOUS
<1>3. \A i \in S : i # 1
  BY <1>2
<1>4. \A i \in S : i # 2
  BY <1>2, <1>3
<1>5. \A i \in S : i # 3
  BY <1>2, <1>3, <1>4
<1>6. \A i \in S : i # 4
  BY <1>2, <1>3, <1>4, <1>5
<1>7. \A i \in S : i # 5
  BY <1>2, <1>3, <1>4, <1>5, <1>6
<1>8. \A i \in S : i # 6
  BY <1>2, <1>3, <1>4, <1>5, <1>6, <1>7
<1>9. \A i \in S : i > 6
  BY <1>3, <1>4, <1>5, <1>6, <1>7, <1>8
<1>10. \A i \in S : i > 8
  BY <1>2, <1>9
<1>11. \A i \in S : i > 10
  BY <1>2, <1>10
<1>12. \A i \in S : i > 12
  BY <1>2, <1>11
<1> QED BY <1>1, <1>2, <1>12

LEMMA FirstIsOne ==
  ASSUME NEW gates, NEW failing, DOMAIN gates \subseteq 1..13
  PROVE  \/ /\ First(gates, failing) = None
            /\ \A i \in DOMAIN gates : gates[i] \notin failing
         \/ \E i \in DOMAIN gates :
              gates[i] \in failing /\ First(gates, failing) = gates[i]
<1> DEFINE places == {i \in DOMAIN gates : gates[i] \in failing}
<1>1. CASE places = {}
  BY <1>1 DEF First
<1>2. CASE places # {}
  <2>1. \E i \in places : \A j \in places : i <= j
    <3>1. places \subseteq 1..13
      OBVIOUS
    <3> QED BY <3>1, <1>2, LeastPlace
  <2>2. PICK i \in places : First(gates, failing) = gates[i]
    BY <2>1, <1>2 DEF First
  <2> QED BY <2>2
<1> QED BY <1>1, <1>2

LEMMA Domains ==
  /\ DOMAIN IssueGates = 1..13 /\ DOMAIN ReplayGates = 1..10
  /\ \A i \in DOMAIN IssueGates : IssueGates[i] \in Gate
  /\ \A i \in DOMAIN ReplayGates : ReplayGates[i] \in Gate
<1>1. DOMAIN IssueGates = 1..13 /\ DOMAIN ReplayGates = 1..10
  BY DEF IssueGates, ReplayGates
<1> QED BY <1>1 DEF Gate

\* An issuance that does not fail has passed every gate.
LEMMA IssuedPassed ==
  ASSUME NEW s, NEW t, IssueFailure(s, t) = None,
         NEW i \in 1..13
  PROVE  ~ IssueFails(IssueGates[i], s, t)
<1> DEFINE failing == {gate \in Gate : IssueFails(gate, s, t)}
<1>1. First(IssueGates, failing) = None
  BY DEF IssueFailure
<1>2. IssueGates[i] \notin failing
  BY <1>1, Domains, FirstIsOne, NoneIsNoGate
<1> QED BY <1>2, Domains

LEMMA ReplayPassed ==
  ASSUME NEW s, NEW t, ReplayFailure(s, t) = None,
         NEW i \in 1..10
  PROVE  ~ ReplayFails(ReplayGates[i], s, t)
<1> DEFINE failing == {gate \in Gate : ReplayFails(gate, s, t)}
<1>1. First(ReplayGates, failing) = None
  BY DEF ReplayFailure
<1>2. ReplayGates[i] \notin failing
  BY <1>1, Domains, FirstIsOne, NoneIsNoGate
<1> QED BY <1>2, Domains

\* A replay that fails has failed at one of its gates.
LEMMA ReplayStopped ==
  ASSUME NEW s, NEW t, ReplayFailure(s, t) # None
  PROVE  \E i \in 1..10 : ReplayFails(ReplayGates[i], s, t)
<1> DEFINE failing == {gate \in Gate : ReplayFails(gate, s, t)}
<1>1. First(ReplayGates, failing) # None
  BY DEF ReplayFailure
<1>2. \E i \in DOMAIN ReplayGates : ReplayGates[i] \in failing
  BY <1>1, Domains, FirstIsOne
<1> QED BY <1>2, Domains

LEMMA FailuresAreGates ==
  ASSUME NEW s, NEW t
  PROVE  /\ IssueFailure(s, t) \in {None} \cup Gate
         /\ ReplayFailure(s, t) \in {None} \cup Gate
BY Domains, FirstIsOne DEF IssueFailure, ReplayFailure

\* The gates that both pass.
LEMMA Places ==
  /\ IssueGates[1] = "manifest" /\ IssueGates[2] = "sources"
  /\ IssueGates[3] = "ledger" /\ IssueGates[4] = "schema"
  /\ IssueGates[5] = "clauses" /\ IssueGates[6] = "evidence"
  /\ IssueGates[7] = "contracts" /\ IssueGates[8] = "terms"
  /\ IssueGates[9] = "target" /\ IssueGates[10] = "trust"
  /\ IssueGates[11] = "licence" /\ IssueGates[12] = "claim"
  /\ IssueGates[13] = "compile"
  /\ ReplayGates[1] = "ledger"
  /\ \A i \in 1..10 : ReplayGates[i] \in
       {"ledger", "context", "schema", "contracts", "clauses", "trust",
        "sources", "claim", "target", "compile"}
BY DEF IssueGates, ReplayGates

-----------------------------------------------------------------------------
(***************************************************************************)
(* What is accepted, and on what it rests.                                 *)
(***************************************************************************)
LEMMA AcceptedAreClauses ==
  ASSUME bundle \in Bundles, NEW reader, NEW s, NEW t
  PROVE  Accepted(reader, s, t) \subseteq Clause
<1>1. bundle.held \subseteq Contracts /\
      (bundle.direct # None => bundle.direct.contract \in Contracts)
  BY BundlesAreBundles DEF Bundle
<1> QED BY <1>1 DEF Accepted, Admitted, Direct, HasDirect, Clause

LEMMA SemanticsTyped ==
  ASSUME bundle \in Bundles, NEW reader, NEW s, NEW t, NEW given \in Semantics
  PROVE  SemanticsOver(given, Accepted(reader, s, t)) \in Semantics
BY AcceptedAreClauses DEF SemanticsOver, Semantics

LEMMA BasesAreSemantics == \A b \in Base : {b} \in Semantics
BY DEF Semantics

\* A replay sees all that issuing sees; without typed artifacts, the same; and
\* what it accepts besides is there by its type.
LEMMA SeenByBoth ==
  ASSUME NEW s, NEW t
  PROVE  /\ Accepted("issue", s, t) \subseteq Accepted("replay", s, t)
         /\ bundle.typed = {} => Accepted("issue", s, t) = Accepted("replay", s, t)
         /\ \A x \in Accepted("replay", s, t) \ Accepted("issue", s, t) : ByType(x)
<1>1. /\ Direct("issue") \subseteq Direct("replay")
      /\ bundle.typed = {} => Direct("issue") = Direct("replay")
  BY DEF Direct, HasDirect, Seen
<1>2. ASSUME NEW c \in bundle.held
      PROVE  /\ Admits("issue", s, c, t) => Admits("replay", s, c, t)
             /\ bundle.typed = {} =>
                  (Admits("replay", s, c, t) => Admits("issue", s, c, t))
  BY DEF Admits, Seen
<1>3. Admitted("issue", s, t) \subseteq Admitted("replay", s, t)
  BY <1>2 DEF Admitted
<1>4. bundle.typed = {} => Admitted("issue", s, t) = Admitted("replay", s, t)
  BY <1>2 DEF Admitted
<1>5. ASSUME NEW x \in Accepted("replay", s, t), x \notin Accepted("issue", s, t)
      PROVE  ByType(x)
  <2>1. CASE x \in Direct("replay")
    BY <1>5, <2>1 DEF ByType, Accepted, Direct, HasDirect, Seen
  <2>2. CASE x \in Admitted("replay", s, t)
    <3>1. PICK c \in bundle.held :
            Admits("replay", s, c, t) /\ x = Terms[c].clause
      BY <2>2 DEF Admitted
    <3>2. ~ Admits("issue", s, c, t)
      BY <1>5, <3>1 DEF Accepted, Admitted
    <3>3. {<<"contract", c>>, <<"evidence", c>>} \cap bundle.typed # {}
      BY <3>1, <3>2 DEF Admits, Seen
    <3> QED BY <3>1, <3>3 DEF ByType
  <2> QED BY <1>5, <2>1, <2>2 DEF Accepted
<1> QED BY <1>1, <1>3, <1>4, <1>5 DEF Accepted

\* What passes the ledger has its obligations in scope, so an accepted clause
\* is licensed.
LEMMA AcceptedAreLicensed ==
  ASSUME bundle \in Bundles, NEW reader, NEW s, NEW t, ~ LedgerFails(s),
         NEW x \in Accepted(reader, s, t)
  PROVE  Licensed(reader, x, s, t)
<1>1. CASE x \in Direct(reader)
  <2>1. bundle.direct # None
    BY <1>1 DEF Direct, HasDirect
  <2>2. bundle.direct.obligation \in ObligationExpiries
    BY <2>1 DEF ObligationExpiries
  <2> QED BY <1>1, <2>2 DEF Licensed, LedgerFails
<1>2. CASE x \in Admitted(reader, s, t)
  <2>1. PICK c \in bundle.held : Admits(reader, s, c, t) /\ x = Terms[c].clause
    BY <1>2 DEF Admitted
  <2>2. Terms[c].obligation \in ObligationExpiries
    BY DEF ObligationExpiries
  <2> QED BY <2>1, <2>2 DEF Licensed, LedgerFails, Admits
<1> QED BY <1>1, <1>2 DEF Accepted

LEMMA LedgerIsGate ==
  ASSUME NEW s, NEW t
  PROVE  /\ IssueFailure(s, t) = None => ~ LedgerFails(s)
         /\ ReplayFailure(s, t) = None => ~ LedgerFails(s)
<1>1. ASSUME IssueFailure(s, t) = None PROVE ~ LedgerFails(s)
  <2>1. ~ IssueFails(IssueGates[3], s, t)
    BY <1>1, IssuedPassed
  <2> QED BY <2>1, Places DEF IssueFails, Fails
<1>2. ASSUME ReplayFailure(s, t) = None PROVE ~ LedgerFails(s)
  <2>1. ~ ReplayFails(ReplayGates[1], s, t)
    BY <1>2, ReplayPassed
  <2> QED BY <2>1, Places DEF ReplayFails, Fails
<1> QED BY <1>1, <1>2

\* What is issued is licensed, or rests on the base bundle by trust.
LEMMA IssuedIsLicensed ==
  ASSUME bundle \in Bundles, NEW s, NEW t, IssueFailure(s, t) = None,
         NEW x \in IssuedSemantics(s, t)
  PROVE  (x = "base" /\ HasTrust("issue")) \/ Licensed("issue", x, s, t)
<1>1. CASE Accepted("issue", s, t) = {}
  <2>1. ~ IssueFails(IssueGates[11], s, t)
    BY IssuedPassed
  <2> QED BY <1>1, <2>1, Places DEF IssueFails, IssuedSemantics, SemanticsOver
<1>2. CASE Accepted("issue", s, t) # {}
  BY <1>2, LedgerIsGate, AcceptedAreLicensed DEF IssuedSemantics, SemanticsOver
<1> QED BY <1>1, <1>2

\* A gate that a replay fails and issuing passes, with nothing else changed
\* and nothing typed.
LEMMA SameFault ==
  ASSUME NEW s, NEW t, IssueFailure(s, t) = None, ReplayFailure(s, t) # None
  PROVE  \/ bundle.flaws \cap {"context", "reason records"} # {}
         \/ ~ attached /\ "base" \in bundle.flaws
         \/ bundle.typed # {}
<1> SUFFICES ASSUME bundle.typed = {}
             PROVE  \/ bundle.flaws \cap {"context", "reason records"} # {}
                    \/ ~ attached /\ "base" \in bundle.flaws
  OBVIOUS
<1>1. PICK i \in 1..10 : ReplayFails(ReplayGates[i], s, t)
  BY ReplayStopped
<1> DEFINE gate == ReplayGates[i]
<1>2. \A j \in 1..13 : ~ IssueFails(IssueGates[j], s, t)
  BY IssuedPassed
<1>3. gate \in {"ledger", "context", "schema", "contracts", "clauses", "trust",
                "sources", "claim", "target", "compile"}
  BY Places
<1>4. gate # "context" => ~ IssueFails(gate, s, t)
  BY <1>2, <1>3, Places
<1>5. ~ IssueFails("claim", s, t)
  BY <1>2, Places
<1>6. /\ Accepted("replay", s, t) = Accepted("issue", s, t)
      /\ HasDirect("replay") <=> HasDirect("issue")
      /\ HasTrust("replay") <=> HasTrust("issue")
      /\ ContractsFail("replay") <=> ContractsFail("issue")
      /\ ClaimTaken = "claim" /\ BaseTaken = "base"
  BY SeenByBoth DEF HasDirect, HasTrust, ContractsFail, Seen, ClaimTaken, BaseTaken
<1>7. Fails("replay", gate, s, t) <=> Fails("issue", gate, s, t)
  BY <1>6 DEF Fails
<1>8. CASE Fails("replay", gate, s, t)
  BY <1>3, <1>4, <1>7, <1>8 DEF IssueFails, Fails
<1>9. CASE gate = "clauses" /\ RecordsFail("replay", t)
  <2>1. RecordsFail("issue", None)
    BY <1>6, <1>9 DEF RecordsFail, InScope
  <2> QED BY <1>4, <1>9, <2>1 DEF IssueFails
<1>10. CASE gate = "clauses" /\ "reason records" \in bundle.flaws
  BY <1>10
<1>11. CASE /\ gate = "claim" /\ ~ attached
            /\ {ClaimTaken, BaseTaken} \cap bundle.flaws # {}
  BY <1>5, <1>6, <1>11 DEF IssueFails
<1>12. CASE /\ gate = "target"
            /\ TargetsFail(Accepted("replay", s, t),
                           IF attached THEN "base" ELSE BaseTaken)
  BY <1>4, <1>6, <1>12 DEF IssueFails
<1> QED BY <1>1, <1>8, <1>9, <1>10, <1>11, <1>12 DEF ReplayFails

-----------------------------------------------------------------------------
(***************************************************************************)
(* The inductive invariant: the certificate is what an issuance in its     *)
(* situation of origin makes, and the last replay says what a replay of    *)
(* the bundle as it is says.                                               *)
(***************************************************************************)
CertificateAsIssued ==
  certificate # None =>
    /\ IssueFailure(origin.situation, origin.at) = None
    /\ certificate.claim = "claim"
    /\ certificate.semantics = IssuedSemantics(origin.situation, origin.at)

CallAsReplayed ==
  call.kind = "replay" =>
    /\ call.failed = ReplayFailure(Situation, call.at)
    /\ call.failed = None =>
         /\ call.claim = JudgedClaim
         /\ call.semantics = JudgedSemantics(call.at)

AdmissionInv == TypeOK /\ CertificateAsIssued /\ CallAsReplayed

\* The bundle is all that the gates and the semantics of a situation read.
LEMMA SituationDecides ==
  ASSUME bundle' = bundle, NEW s, NEW t
  PROVE  /\ IssueFailure(s, t)' = IssueFailure(s, t)
         /\ IssuedSemantics(s, t)' = IssuedSemantics(s, t)
<1>1. Accepted("issue", s, t)' = Accepted("issue", s, t)
  BY DEF Accepted, Admitted, Admits, Direct, HasDirect, Seen
<1>2. LedgerFails(s)' <=> LedgerFails(s)
  BY DEF LedgerFails, ObligationExpiries
<1>3. RecordsFail("issue", None)' <=> RecordsFail("issue", None)
  BY DEF RecordsFail, HasDirect, Seen
<1>4. TargetsFail(Accepted("issue", s, t), "base")' <=>
      TargetsFail(Accepted("issue", s, t), "base")
  BY <1>1 DEF TargetsFail
<1>5. ASSUME NEW gate \in Gate
      PROVE  IssueFails(gate, s, t)' <=> IssueFails(gate, s, t)
  <2>1. Fails("issue", gate, s, t)' <=> Fails("issue", gate, s, t)
    BY <1>1, <1>2 DEF Fails, HasDirect, HasTrust, ContractsFail, Seen
  <2> QED BY <1>1, <1>3, <1>4, <2>1 DEF IssueFails, HasTrust, Seen
<1>6. {gate \in Gate : IssueFails(gate, s, t)}' =
      {gate \in Gate : IssueFails(gate, s, t)}
  BY <1>5
<1>7. IssueFailure(s, t)' = IssueFailure(s, t)
  BY <1>6 DEF IssueFailure
<1>8. IssuedSemantics(s, t)' = IssuedSemantics(s, t)
  BY <1>1 DEF IssuedSemantics, SemanticsOver
<1> QED BY <1>7, <1>8

LEMMA ReplayReadsTheBundle ==
  ASSUME UNCHANGED <<bundle, evidence, stamp, certificate, attached>>, NEW t
  PROVE  /\ ReplayFailure(Situation, t)' = ReplayFailure(Situation, t)
         /\ JudgedSemantics(t)' = JudgedSemantics(t)
         /\ JudgedClaim' = JudgedClaim
<1>1. Situation' = Situation
  BY DEF Situation
<1>2. Accepted("replay", Situation, t)' = Accepted("replay", Situation, t)
  BY <1>1 DEF Accepted, Admitted, Admits, Direct, HasDirect, Seen
<1>3. LedgerFails(Situation)' <=> LedgerFails(Situation)
  BY <1>1 DEF LedgerFails, ObligationExpiries
<1>4. RecordsFail("replay", t)' <=> RecordsFail("replay", t)
  BY DEF RecordsFail, HasDirect, Seen
<1>5. ClaimTaken' = ClaimTaken /\ BaseTaken' = BaseTaken /\ attached' = attached
  BY DEF ClaimTaken, BaseTaken
<1>6. ASSUME NEW gate \in Gate
      PROVE  ReplayFails(gate, Situation, t)' <=> ReplayFails(gate, Situation, t)
  <2>1. Fails("replay", gate, Situation, t)' <=> Fails("replay", gate, Situation, t)
    BY <1>2, <1>3 DEF Fails, HasDirect, HasTrust, ContractsFail, Seen
  <2>2. TargetsFail(Accepted("replay", Situation, t),
                    IF attached THEN "base" ELSE BaseTaken)' <=>
        TargetsFail(Accepted("replay", Situation, t),
                    IF attached THEN "base" ELSE BaseTaken)
    BY <1>2, <1>5 DEF TargetsFail
  <2>3. (HasDirect("replay")' <=> HasDirect("replay")) /\ bundle' = bundle
    BY DEF HasDirect, Seen
  <2>4. /\ {ClaimTaken, BaseTaken}' \cap bundle'.flaws =
             {ClaimTaken, BaseTaken} \cap bundle.flaws
        /\ attached' <=> attached
    BY <1>5, <2>3
  <2> QED BY <1>4, <2>1, <2>2, <2>3, <2>4, Zenon DEF ReplayFails
<1>7. {gate \in Gate : ReplayFails(gate, Situation, t)}' =
      {gate \in Gate : ReplayFails(gate, Situation, t)}
  BY <1>6
<1>8. ReplayFailure(Situation, t)' = ReplayFailure(Situation, t)
  BY <1>7 DEF ReplayFailure
<1>9. JudgedSemantics(t)' = JudgedSemantics(t)
  BY <1>2, <1>5 DEF JudgedSemantics, SemanticsOver
<1>10. JudgedClaim' = JudgedClaim
  BY <1>5 DEF JudgedClaim
<1> QED BY <1>8, <1>9, <1>10

LEMMA AdmissionInit == Init => AdmissionInv
<1> SUFFICES ASSUME Init PROVE AdmissionInv
  OBVIOUS
<1>1. 0 \in Time
  BY MaxTimeIsATime DEF Time
<1>2. TypeOK
  BY <1>1 DEF Init, TypeOK, NoCall
<1> QED BY <1>2 DEF Init, AdmissionInv, CertificateAsIssued, CallAsReplayed, NoCall

\* A step that is neither an issuance nor a replay.
LEMMA QuietStep ==
  ASSUME AdmissionInv, TypeOK', call' = NoCall,
         UNCHANGED <<bundle, certificate, origin>>
  PROVE  AdmissionInv'
<1>1. CertificateAsIssued'
  BY SituationDecides DEF AdmissionInv, CertificateAsIssued
<1> QED BY <1>1 DEF AdmissionInv, CallAsReplayed, NoCall

LEMMA AdmissionStep == AdmissionInv /\ [Next]_vars => AdmissionInv'
<1> SUFFICES ASSUME AdmissionInv, [Next]_vars PROVE AdmissionInv'
  OBVIOUS
<1> USE DEF AdmissionInv
<1>1. ASSUME NEW t \in {None, now}, Issue(t)
      PROVE  AdmissionInv'
  <2>1. bundle' = bundle /\ Situation' = Situation
    BY <1>1 DEF Issue, Situation
  <2>2. IssuedSemantics(Situation, t) \in Semantics
    BY SemanticsTyped, BasesAreSemantics DEF TypeOK, IssuedSemantics, Base
  <2>3. CASE IssueFailure(Situation, t) = None
    <3>1. /\ certificate' = [claim |-> "claim",
                            semantics |-> IssuedSemantics(Situation, t)]
          /\ origin' = [situation |-> Situation, at |-> t]
          /\ attached' = FALSE
          /\ call' = [kind |-> "issue", at |-> t, failed |-> None,
                      claim |-> "claim",
                      semantics |-> IssuedSemantics(Situation, t)]
          /\ UNCHANGED <<bundle, evidence, stamp, now>>
      BY <1>1, <2>3 DEF Issue, Called
    <3>2. CertificateAsIssued'
      <4>1. /\ IssueFailure(Situation, t)' = IssueFailure(Situation, t)
            /\ IssuedSemantics(Situation, t)' = IssuedSemantics(Situation, t)
        BY <2>1, SituationDecides
      <4>2. origin'.situation = Situation /\ origin'.at = t
        BY <3>1
      <4>3. /\ certificate'.claim = "claim"
            /\ certificate'.semantics = IssuedSemantics(Situation, t)
        BY <3>1
      <4> QED BY <2>1, <2>3, <4>1, <4>2, <4>3 DEF CertificateAsIssued
    <3>3. TypeOK'
      <4>1. certificate' \in [claim : {"claim"}, semantics : Semantics]
        BY <2>2, <3>1
      <4>2. /\ call'.failed = None /\ call'.claim = "claim"
            /\ call'.semantics \in Semantics
        BY <2>2, <3>1
      <4> QED BY <3>1, <4>1, <4>2 DEF TypeOK
    <3>4. CallAsReplayed'
      BY <3>1 DEF CallAsReplayed
    <3> QED BY <3>2, <3>3, <3>4
  <2>4. CASE IssueFailure(Situation, t) # None
    <3>1. /\ UNCHANGED <<bundle, evidence, stamp, now, certificate, origin, attached>>
          /\ call' = [kind |-> "issue", at |-> t,
                      failed |-> IssueFailure(Situation, t), claim |-> None,
                      semantics |-> None]
      BY <1>1, <2>4 DEF Issue, Called
    <3>2. CertificateAsIssued'
      BY <3>1, SituationDecides DEF CertificateAsIssued
    <3>3. TypeOK'
      BY <3>1, FailuresAreGates DEF TypeOK
    <3>4. CallAsReplayed'
      BY <3>1 DEF CallAsReplayed
    <3> QED BY <3>2, <3>3, <3>4
  <2> QED BY <2>3, <2>4
<1>2. ASSUME Replay(now)
      PROVE  AdmissionInv'
  <2> DEFINE failed == ReplayFailure(Situation, now)
  <2>1. /\ UNCHANGED <<bundle, evidence, stamp, now, certificate, origin, attached>>
        /\ call' = [kind |-> "replay", at |-> now, failed |-> failed,
                    claim |-> IF failed = None THEN JudgedClaim ELSE None,
                    semantics |-> IF failed = None THEN JudgedSemantics(now)
                                  ELSE None]
    BY <1>2 DEF Replay, Called
  <2>2. CertificateAsIssued'
    BY <2>1, SituationDecides DEF CertificateAsIssued
  <2>3. JudgedSemantics(now) \in Semantics
    <3>1. (IF attached THEN certificate.semantics ELSE {BaseTaken}) \in Semantics
      BY BasesAreSemantics DEF TypeOK, BaseTaken, Base
    <3> QED BY <3>1, SemanticsTyped DEF TypeOK, JudgedSemantics
  <2>4. JudgedClaim \in {"claim", "second claim"}
    BY DEF TypeOK, JudgedClaim, ClaimTaken
  <2>5. TypeOK'
    <3>1. failed \in {None} \cup Gate
      BY FailuresAreGates
    <3> HIDE DEF failed
    <3>2. /\ call'.failed = failed
          /\ call'.claim \in {None, "claim", "second claim"}
          /\ call'.semantics \in {None} \cup Semantics
      BY <2>1, <2>3, <2>4
    <3> QED BY <2>1, <3>1, <3>2 DEF TypeOK
  <2>6. CallAsReplayed'
    <3>1. /\ ReplayFailure(Situation, now)' = failed
          /\ JudgedSemantics(now)' = JudgedSemantics(now)
          /\ JudgedClaim' = JudgedClaim
      BY <2>1, ReplayReadsTheBundle
    <3> HIDE DEF failed
    <3>2. /\ call'.kind = "replay" /\ call'.at = now /\ now' = now
          /\ call'.failed = failed
          /\ failed = None =>
               call'.claim = JudgedClaim /\ call'.semantics = JudgedSemantics(now)
      BY <2>1
    <3> QED BY <3>1, <3>2 DEF CallAsReplayed
  <2> QED BY <2>2, <2>5, <2>6
<1>3. CASE Attach
  <2>1. TypeOK'
    BY <1>3 DEF Attach, TypeOK, NoCall
  <2> QED BY <1>3, <2>1, QuietStep DEF Attach
<1>4. ASSUME NEW c \in bundle.held, NEW status \in EvidenceStatus,
             Recheck(c, status)
      PROVE  AdmissionInv'
  <2>1. c \in Contracts
    BY BundlesAreBundles DEF TypeOK, Bundle
  <2>2. TypeOK'
    BY <1>4, <2>1 DEF Recheck, TypeOK, NoCall
  <2> QED BY <1>4, <2>2, QuietStep DEF Recheck
<1>5. CASE Restamp
  <2>1. TypeOK'
    BY <1>5 DEF Restamp, TypeOK, NoCall
  <2> QED BY <1>5, <2>1, QuietStep DEF Restamp
<1>6. CASE Tick
  <2>1. now' \in Time
    <3>1. now \in Time /\ now < MaxTime /\ now' = now + 1
      BY <1>6 DEF Tick, TypeOK
    <3> QED BY <3>1, MaxTimeIsATime DEF Time
  <2>2. TypeOK'
    BY <1>6, <2>1 DEF Tick, TypeOK, NoCall
  <2> QED BY <1>6, <2>2, QuietStep DEF Tick
<1>7. CASE UNCHANGED vars
  <2>1. UNCHANGED <<bundle, evidence, stamp, now, certificate, origin,
                    attached, call>>
    BY <1>7 DEF vars
  <2>2. CertificateAsIssued'
    BY <2>1, SituationDecides DEF CertificateAsIssued
  <2>3. CallAsReplayed'
    <3>1. /\ ReplayFailure(Situation, call.at)' = ReplayFailure(Situation, call.at)
          /\ JudgedSemantics(call.at)' = JudgedSemantics(call.at)
          /\ JudgedClaim' = JudgedClaim
      BY <2>1, ReplayReadsTheBundle
    <3> QED BY <2>1, <3>1 DEF CallAsReplayed
  <2> QED BY <2>1, <2>2, <2>3 DEF TypeOK
<1> QED BY <1>1, <1>2, <1>3, <1>4, <1>5, <1>6, <1>7 DEF Next

-----------------------------------------------------------------------------
\* The invariant: a certificate is what an issuance makes in its situation of
\* origin (certify_claim_from_artifact_bundle), and the last replay says what
\* the bundle as it is says (replay_authority_from_bundle).
THEOREM AdmissionInvariant == Spec => []AdmissionInv
BY AdmissionInit, AdmissionStep, PTL DEF Spec

\* The semantics of every certificate and every judgement are the base bundle
\* alone or accepted clauses alone (assumption_bundle_from_accepted_clauses).
THEOREM AdmissionTypeCorrect == Spec => []TypeOK
<1>1. AdmissionInv => TypeOK
  BY DEF AdmissionInv
<1> QED BY <1>1, AdmissionInvariant, PTL

LEMMA JudgedFromInv == AdmissionInv => JudgedWasLicensed
<1> SUFFICES ASSUME AdmissionInv PROVE JudgedWasLicensed
  OBVIOUS
<1>1. bundle \in Bundles
  BY DEF AdmissionInv, TypeOK
<1>2. ASSUME certificate # None, NEW x \in certificate.semantics
      PROVE  \/ x = "base" /\ HasTrust("issue")
             \/ Licensed("issue", x, origin.situation, origin.at)
  <2>1. /\ IssueFailure(origin.situation, origin.at) = None
        /\ x \in IssuedSemantics(origin.situation, origin.at)
    BY <1>2 DEF AdmissionInv, CertificateAsIssued
  <2> QED BY <1>1, <2>1, IssuedIsLicensed
<1>3. ASSUME call.kind = "replay", call.failed = None, NEW x \in call.semantics
      PROVE  \/ x \in Base /\ ~ attached
             \/ attached /\ x \in certificate.semantics
             \/ Licensed("replay", x, Situation, call.at)
  <2>1. /\ ReplayFailure(Situation, call.at) = None
        /\ call.semantics = JudgedSemantics(call.at)
    BY <1>3 DEF AdmissionInv, CallAsReplayed
  <2>2. ~ LedgerFails(Situation)
    BY <2>1, LedgerIsGate
  <2>3. CASE Accepted("replay", Situation, call.at) = {}
    BY <1>3, <2>1, <2>3 DEF JudgedSemantics, SemanticsOver, BaseTaken, Base
  <2>4. CASE Accepted("replay", Situation, call.at) # {}
    <3>1. x \in Accepted("replay", Situation, call.at)
      BY <1>3, <2>1, <2>4 DEF JudgedSemantics, SemanticsOver
    <3> QED BY <1>1, <2>2, <3>1, AcceptedAreLicensed
  <2> QED BY <2>3, <2>4
<1> QED BY <1>2, <1>3 DEF JudgedWasLicensed

\* No clause outlives its licence except through a certificate, and none
\* comes into a certificate without one under its role (admit_evidence_set,
\* _certificate_from_bundle).
THEOREM NothingUnlicensed == Spec => []JudgedWasLicensed
BY JudgedFromInv, AdmissionInvariant, PTL

LEMMA ReplayedFromInv == AdmissionInv => ReplayedAsIssued
<1> DEFINE s == Situation
           at == call.at
           issued == Accepted("issue", s, at)
           taken == Accepted("replay", s, at)
           given == IF attached THEN certificate.semantics ELSE {BaseTaken}
<1> SUFFICES ASSUME AdmissionInv, call.kind = "replay", certificate # None,
                    origin = [situation |-> s, at |-> at]
             PROVE  IF call.failed = None
                    THEN /\ \/ call.claim = certificate.claim
                            \/ ~ attached /\ <<"claim">> \in bundle.typed
                         /\ certificate.semantics \subseteq call.semantics \cup {"base"}
                         /\ \A x \in call.semantics \ certificate.semantics : ByType(x)
                         /\ bundle.typed = {} => call.semantics = certificate.semantics
                    ELSE \/ bundle.flaws \cap {"context", "reason records"} # {}
                         \/ ~ attached /\ "base" \in bundle.flaws
                         \/ bundle.typed # {}
  BY DEF ReplayedAsIssued
<1>1. origin.situation = s /\ origin.at = at
  OBVIOUS
<1>2. /\ IssueFailure(s, at) = None /\ certificate.claim = "claim"
      /\ certificate.semantics = IF issued = {} THEN {"base"} ELSE issued
  BY <1>1 DEF AdmissionInv, CertificateAsIssued, IssuedSemantics, SemanticsOver
<1>3. CASE call.failed # None
  <2>1. ReplayFailure(s, at) # None
    BY <1>3 DEF AdmissionInv, CallAsReplayed
  <2> QED BY <1>2, <1>3, <2>1, SameFault
<1>4. CASE call.failed = None
  <2>1. /\ call.claim = JudgedClaim
        /\ call.semantics = IF taken = {} THEN given ELSE taken
    BY <1>4 DEF AdmissionInv, CallAsReplayed, JudgedSemantics, SemanticsOver
  <2>2. /\ issued \subseteq taken
        /\ bundle.typed = {} => issued = taken
        /\ \A x \in taken \ issued : ByType(x)
    BY SeenByBoth
  <2>3. /\ bundle.typed = {} => BaseTaken = "base"
        /\ BaseTaken # "base" => BaseTaken = "second base"
    BY DEF BaseTaken
  <2>4. \/ call.claim = certificate.claim
        \/ ~ attached /\ <<"claim">> \in bundle.typed
    BY <1>2, <2>1 DEF JudgedClaim, ClaimTaken
  <2> HIDE DEF issued, taken
  <2>5. /\ certificate.semantics \subseteq call.semantics \cup {"base"}
        /\ bundle.typed = {} => call.semantics = certificate.semantics
    BY <1>2, <2>1, <2>2, <2>3
  <2>6. ASSUME NEW x \in call.semantics \ certificate.semantics
        PROVE  ByType(x)
    <3>1. CASE taken = {}
      <4>1. ~ attached /\ x = "second base"
        BY <1>2, <2>1, <2>2, <2>3, <2>6, <3>1
      <4> QED BY <4>1 DEF ByType
    <3>2. CASE taken # {}
      BY <1>2, <2>1, <2>2, <2>6, <3>2
    <3> QED BY <3>1, <3>2
  <2> QED BY <1>4, <2>4, <2>5, <2>6
<1> QED BY <1>3, <1>4

\* A replay of the bundle in the situation and at the time of the issuance
\* judges all that was issued and nothing besides but what only its type names
\* (certify_claim_from_artifact_bundle against replay_authority_from_bundle).
THEOREM ReplayAgrees == Spec => []ReplayedAsIssued
BY ReplayedFromInv, AdmissionInvariant, PTL
=============================================================================
