------------------------ MODULE UpdateCertificateProofs ------------------------
(***************************************************************************)
(* Proofs about UpdateCertificate: what a decision taken from one event    *)
(* says of the replay of the whole log, for every set of requests and      *)
(* policies and every length of the log.                                   *)
(***************************************************************************)
EXTENDS UpdateCertificate, TLAPS

(***************************************************************************)
(* The two tables of lifecycle.py: a mapped kind sets a status of the      *)
(* protocol other than "active", no stronger than "conflict".              *)
(***************************************************************************)
LEMMA Priorities ==
  /\ \A s \in StatusCode : STATUS_PRIORITY[s] \in 0..7
  /\ \A s \in StatusCode : STATUS_PRIORITY[s] = 0 <=> s = "active"
  /\ STATUS_PRIORITY["unknown"] = 1
  /\ STATUS_PRIORITY["conflict"] = 6
BY DEF STATUS_PRIORITY, StatusCode

LEMMA Tables ==
  \A k \in StatusKind :
    /\ EVENT_TO_STATUS[k] \in StatusCode \ {"active", "invalid"}
    /\ FailureOf[k] \in FailureCode
    /\ STATUS_PRIORITY[EVENT_TO_STATUS[k]] \in 1..6
BY DEF STATUS_PRIORITY, StatusCode, StatusKind, EVENT_TO_STATUS, FailureOf,
       FailureCode

(***************************************************************************)
(* dominant_status returns a member of the set that is at least as strong  *)
(* as every other member.                                                  *)
(***************************************************************************)
LEMMA DominantIsStrongest ==
  ASSUME NEW S \in SUBSET StatusCode, S # {}
  PROVE  /\ dominant_status(S) \in S
         /\ \A t \in S : STATUS_PRIORITY[t] <= STATUS_PRIORITY[dominant_status(S)]
<1>1. \E s \in S : \A t \in S : STATUS_PRIORITY[t] <= STATUS_PRIORITY[s]
  <2>1. \A t \in S : t \in StatusCode
    OBVIOUS
  <2> DEFINE Top(s) == \A t \in S : STATUS_PRIORITY[t] <= STATUS_PRIORITY[s]
  <2>2. CASE "invalid" \in S
    <3>1. Top("invalid")
      BY <2>1, <2>2 DEF STATUS_PRIORITY, StatusCode
    <3> QED BY <2>2, <3>1
  <2>3. CASE "invalid" \notin S /\ "conflict" \in S
    <3>1. Top("conflict")
      BY <2>1, <2>3 DEF STATUS_PRIORITY, StatusCode
    <3> QED BY <2>3, <3>1
  <2>4. CASE S \cap {"invalid", "conflict"} = {} /\ "revoked" \in S
    <3>1. Top("revoked")
      BY <2>1, <2>4 DEF STATUS_PRIORITY, StatusCode
    <3> QED BY <2>4, <3>1
  <2>5. CASE /\ S \cap {"invalid", "conflict", "revoked"} = {}
             /\ "superseded" \in S
    <3>1. Top("superseded")
      BY <2>1, <2>5 DEF STATUS_PRIORITY, StatusCode
    <3> QED BY <2>5, <3>1
  <2>6. CASE /\ S \cap {"invalid", "conflict", "revoked", "superseded"} = {}
             /\ "expired" \in S
    <3>1. Top("expired")
      BY <2>1, <2>6 DEF STATUS_PRIORITY, StatusCode
    <3> QED BY <2>6, <3>1
  <2>7. CASE S \subseteq {"active", "unknown", "out_of_frame"} /\ "out_of_frame" \in S
    <3>1. Top("out_of_frame")
      BY <2>7 DEF STATUS_PRIORITY, StatusCode
    <3> QED BY <2>7, <3>1
  <2>8. CASE S \subseteq {"active", "unknown"} /\ "unknown" \in S
    <3>1. Top("unknown")
      BY <2>8 DEF STATUS_PRIORITY, StatusCode
    <3> QED BY <2>8, <3>1
  <2>9. CASE S = {"active"}
    <3>1. Top("active")
      BY <2>9 DEF STATUS_PRIORITY, StatusCode
    <3> QED BY <2>9, <3>1
  <2> QED
    BY <2>1, <2>2, <2>3, <2>4, <2>5, <2>6, <2>7, <2>8, <2>9 DEF StatusCode
<1> QED
  BY <1>1 DEF dominant_status


(***************************************************************************)
(* The locals of the fold, and what the steps of a turn do to the two      *)
(* lists the decision is taken from.                                       *)
(***************************************************************************)
Locals == {"seenIds", "seenHashes", "clocks", "statuses", "coordinates",
           "blocks", "acceptedSeen"}

HasShape(f) == f = [x \in Locals |-> f[x]]

SameLists(f, g) ==
  /\ HasShape(g)
  /\ g.statuses = f.statuses
  /\ g.blocks = f.blocks

\* Remembering and admitting an event touch neither of the two lists.
LEMMA Bookkeeping ==
  ASSUME NEW f, HasShape(f), NEW e, NEW o
  PROVE  /\ SameLists(f, Saw(f, e, o))
         /\ SameLists(f, Remember(f, e))
         /\ SameLists(f, Admit(f, e))
BY DEF SameLists, HasShape, Locals, Saw, Remember, Admit

\* A block adds to both lists.
LEMMA Blocking ==
  ASSUME NEW f, HasShape(f), NEW e, NEW code, NEW status
  PROVE  LET g == Block(f, e, code, status) IN
           /\ HasShape(g)
           /\ g.statuses = f.statuses \cup {status}
           /\ g.blocks = f.blocks \cup {<<code, e.id>>}
BY DEF HasShape, Locals, Block

\* An applied event adds its status and its failure code.
LEMMA Applying ==
  ASSUME NEW f, HasShape(f), NEW e
  PROVE  LET g == Apply(f, e) IN
           /\ g.statuses = f.statuses \cup {EVENT_TO_STATUS[e.kind]}
           /\ g.blocks = f.blocks \cup {<<FailureOf[e.kind], e.id>>}
<1> DEFINE b == Block(f, e, FailureOf[e.kind], EVENT_TO_STATUS[e.kind])
<1>1. /\ HasShape(b)
      /\ b.statuses = f.statuses \cup {EVENT_TO_STATUS[e.kind]}
      /\ b.blocks = f.blocks \cup {<<FailureOf[e.kind], e.id>>}
  BY Blocking
<1>2. Apply(f, e).statuses = b.statuses /\ Apply(f, e).blocks = b.blocks
  <2> HIDE DEF b
  <2> QED BY <1>1 DEF Apply, b, HasShape, Locals
<1> HIDE DEF b
<1> QED BY <1>1, <1>2

(***************************************************************************)
(* One turn of the loop from the start: which event it takes, and what it  *)
(* leaves.                                                                 *)
(***************************************************************************)
Lists(f, statuses, codes) ==
  /\ f.statuses = {"active"} \cup statuses
  /\ \A b \in f.blocks : b[1] \in codes

\* The five ways a turn can end.
LEMMA TurnOfOne ==
  ASSUME NEW e, NEW o
  PROVE  LET f == FoldEvent(EmptyFold, e, o) IN
           \/ ~ Relevant(e, o) /\ f = EmptyFold
           \/ Relevant(e, o) /\ Lists(f, {"conflict"}, {"trace_conflict"})
           \/ Relevant(e, o) /\ Lists(f, {"unknown"}, {"policy_block"})
           \/ /\ Relevant(e, o) /\ ~ OtherPolicy(e, o) /\ e.kind \notin StatusKind
              /\ Lists(f, {}, {})
           \/ /\ Relevant(e, o) /\ ~ OtherPolicy(e, o) /\ e.kind \in StatusKind
              /\ Lists(f, {EVENT_TO_STATUS[e.kind]}, {FailureOf[e.kind]})
<1> DEFINE f == FoldEvent(EmptyFold, e, o)
           b == Branch(EmptyFold, e, o)
           seen == Saw(EmptyFold, e, o)
           adm == Admit(seen, e)
<1>1. /\ HasShape(EmptyFold)
      /\ EmptyFold.statuses = {"active"} /\ EmptyFold.blocks = {}
  BY DEF EmptyFold, HasShape, Locals
<1>2. HasShape(seen) /\ seen.statuses = {"active"} /\ seen.blocks = {}
  BY <1>1, Bookkeeping DEF SameLists
<1>3. HasShape(adm) /\ adm.statuses = {"active"} /\ adm.blocks = {}
  <2> HIDE DEF seen
  <2> QED BY <1>2, Bookkeeping DEF SameLists
<1>4. CASE b = "skip"
  BY <1>4 DEF Branch, FoldEvent
<1>5. ASSUME NEW g, HasShape(g), g.statuses = {"active"}, g.blocks = {},
             NEW code, NEW status
      PROVE  LET h == Block(g, e, code, status) IN
               HasShape(h) /\ Lists(h, {status}, {code})
  BY <1>5, Blocking DEF Lists
<1>6. ASSUME NEW h, HasShape(h), NEW S, NEW C, Lists(h, S, C)
      PROVE  Lists(Remember(h, e), S, C)
  BY <1>6, Bookkeeping DEF SameLists, Lists
<1>12. b # "skip" => Relevant(e, o)
  BY DEF Branch
<1>7. CASE b \in {"exclude", "reject"}
  <2> DEFINE g == Block(seen, e, "trace_conflict", "conflict")
  <2>1. f = g \/ f = Remember(g, e)
    <3> HIDE DEF b
    <3> QED BY <1>7 DEF FoldEvent, b
  <2>2. HasShape(g) /\ Lists(g, {"conflict"}, {"trace_conflict"})
    BY <1>2, <1>5
  <2> HIDE DEF f, g
  <2>3. Lists(f, {"conflict"}, {"trace_conflict"})
    BY <1>6, <2>1, <2>2
  <2> QED BY <1>12, <1>7, <2>3 DEF f
<1>8. CASE b = "other_policy"
  <2> DEFINE g == Block(seen, e, "policy_block", "unknown")
  <2>1. f = Remember(g, e)
    BY <1>8 DEF FoldEvent
  <2>2. HasShape(g) /\ Lists(g, {"unknown"}, {"policy_block"})
    BY <1>2, <1>5
  <2> HIDE DEF f, g
  <2>3. Lists(f, {"unknown"}, {"policy_block"})
    BY <1>6, <2>1, <2>2
  <2> QED BY <1>12, <1>8, <2>3 DEF f
<1>9. CASE b = "disagree"
  <2>1. f = Block(adm, e, "trace_conflict", "conflict")
    BY <1>9 DEF FoldEvent
  <2> HIDE DEF f, adm
  <2>2. Lists(f, {"conflict"}, {"trace_conflict"})
    BY <1>3, <1>5, <2>1
  <2> QED BY <1>12, <1>9, <2>2 DEF f
<1>10. CASE b \in {"note", "apply"}
  <2>1. Relevant(e, o) /\ ~ OtherPolicy(e, o)
    BY <1>10 DEF Branch
  <2>2. CASE b = "note"
    <3>1. f = adm /\ e.kind \notin StatusKind
      BY <2>2 DEF FoldEvent, Branch
    <3> HIDE DEF f, adm
    <3>2. Lists(f, {}, {})
      BY <1>3, <3>1 DEF Lists
    <3> QED BY <2>1, <3>1, <3>2 DEF f
  <2>3. CASE b = "apply"
    <3>1. f = Apply(adm, e) /\ e.kind \in StatusKind
      BY <2>3 DEF FoldEvent, Branch
    <3> HIDE DEF f, adm
    <3>2. Lists(f, {EVENT_TO_STATUS[e.kind]}, {FailureOf[e.kind]})
      BY <1>3, <3>1, Applying DEF Lists
    <3> QED BY <2>1, <3>1, <3>2 DEF f
  <2> QED BY <1>10, <2>2, <2>3
<1>11. b \in {"skip", "exclude", "reject", "other_policy", "disagree", "note",
              "apply"}
  BY DEF Branch
<1> HIDE DEF b
<1> QED BY <1>4, <1>7, <1>8, <1>9, <1>10, <1>11

(***************************************************************************)
(* What the fold of one event says of it.                                  *)
(***************************************************************************)
LEMMA OneEvent ==
  ASSUME NEW e, NEW o
  PROVE  LET f == FoldOne(e, o) IN
           /\ f.dominant \in StatusCode \ {"invalid"}
           /\ \A b \in f.blocks : b[1] \in FailureCode
           /\ f.dominant \in Withdrawn =>
                /\ Relevant(e, o) /\ ~ OtherPolicy(e, o) /\ e.kind \in StatusKind
                /\ f.dominant = EVENT_TO_STATUS[e.kind]
           /\ f.dominant = "active" =>
                \/ ~ Relevant(e, o) /\ o.accepted = {}
                \/ Relevant(e, o) /\ ~ OtherPolicy(e, o) /\ e.kind \notin StatusKind
           /\ ~ Relevant(e, o) /\ o.accepted # {} => f.dominant = "conflict"
           /\ ~ Relevant(e, o) => f.dominant \in {"active", "conflict"}
<1> DEFINE f == FoldEvent(EmptyFold, e, o)
           absent == Absent(f, o)
           S == f.statuses \cup (IF absent = {} THEN {} ELSE {"conflict"})
           r == FoldOne(e, o)
<1>1. r.dominant = dominant_status(S)
  BY DEF FoldOne, FoldResult
<1>2. r.blocks = f.blocks \cup ({"trace_conflict"} \X absent)
  BY DEF FoldOne, FoldResult
<1>3. /\ \A s \in StatusKind : /\ EVENT_TO_STATUS[s] \in StatusCode \ {"active", "invalid"}
                               /\ FailureOf[s] \in FailureCode
      /\ {"trace_conflict", "policy_block"} \subseteq FailureCode
      /\ {"active", "conflict", "unknown"} \subseteq StatusCode \ {"invalid"}
  BY Tables DEF FailureCode, StatusCode
<1>4. EmptyFold.statuses = {"active"} /\ EmptyFold.blocks = {}
      /\ EmptyFold.acceptedSeen = {}
  BY DEF EmptyFold
<1>5. ASSUME NEW T, NEW C, Lists(f, T, C), T \subseteq StatusCode \ {"invalid"},
             C \subseteq FailureCode
      PROVE  /\ r.dominant \in {"active", "conflict"} \cup T
             /\ r.dominant \in StatusCode \ {"invalid"}
             /\ \A t \in T : STATUS_PRIORITY[t] <= STATUS_PRIORITY[r.dominant]
             /\ \A b \in r.blocks : b[1] \in FailureCode
  <2>1. S \subseteq {"active", "conflict"} \cup T /\ S # {} /\ T \subseteq S
    BY <1>5 DEF Lists
  <2>2. S \in SUBSET StatusCode
    BY <1>3, <1>5, <2>1
  <2>3. \A b \in r.blocks : b[1] \in FailureCode
    <3>1. \A b \in {"trace_conflict"} \X absent : b[1] = "trace_conflict"
      OBVIOUS
    <3> HIDE DEF absent, r, f
    <3> QED BY <1>2, <1>3, <1>5, <3>1 DEF Lists
  <2> HIDE DEF S, r, f
  <2>4. /\ r.dominant \in S
        /\ \A t \in S : STATUS_PRIORITY[t] <= STATUS_PRIORITY[r.dominant]
    BY <1>1, <2>1, <2>2, DominantIsStrongest
  <2> QED BY <1>3, <1>5, <2>1, <2>3, <2>4
<1> HIDE DEF r
<1>6. CASE ~ Relevant(e, o) /\ f = EmptyFold
  <2>1. Lists(f, {}, {})
    BY <1>4, <1>6 DEF Lists
  <2>2. r.dominant \in {"active", "conflict"} /\ \A b \in r.blocks : b[1] \in FailureCode
    <3> HIDE DEF f
    <3> QED BY <1>5, <2>1
  <2>3. o.accepted # {} => r.dominant = "conflict"
    <3>1. absent = o.accepted
      BY <1>4, <1>6 DEF Absent
    <3>2. S = IF absent = {} THEN {"active"} ELSE {"active", "conflict"}
      BY <1>4, <1>6
    <3> HIDE DEF S, absent
    <3>3. o.accepted # {} => S = {"active", "conflict"}
      BY <3>1, <3>2
    <3>4. o.accepted # {} => S \in SUBSET StatusCode /\ S # {}
      BY <1>3, <3>3
    <3>5. o.accepted # {} =>
            /\ dominant_status(S) \in {"active", "conflict"}
            /\ STATUS_PRIORITY["conflict"] <= STATUS_PRIORITY[dominant_status(S)]
      BY <3>3, <3>4, DominantIsStrongest
    <3>6. STATUS_PRIORITY["active"] = 0 /\ STATUS_PRIORITY["conflict"] = 6
      BY Priorities DEF StatusCode
    <3> QED BY <1>1, <3>5, <3>6
  <2> QED BY <1>3, <1>6, <2>2, <2>3 DEF r, Withdrawn
<1>7. CASE Relevant(e, o) /\ Lists(f, {"conflict"}, {"trace_conflict"})
  <2> HIDE DEF f
  <2>1. /\ r.dominant \in {"active", "conflict"}
        /\ STATUS_PRIORITY["conflict"] <= STATUS_PRIORITY[r.dominant]
        /\ \A b \in r.blocks : b[1] \in FailureCode
    BY <1>3, <1>5, <1>7
  <2>2. r.dominant = "conflict"
    BY <2>1, Priorities DEF StatusCode
  <2> QED BY <1>3, <2>1, <2>2 DEF r, Withdrawn
<1>8. CASE Relevant(e, o) /\ Lists(f, {"unknown"}, {"policy_block"})
  <2> HIDE DEF f
  <2>1. /\ r.dominant \in {"active", "conflict", "unknown"}
        /\ STATUS_PRIORITY["unknown"] <= STATUS_PRIORITY[r.dominant]
        /\ \A b \in r.blocks : b[1] \in FailureCode
    BY <1>3, <1>5, <1>8
  <2>2. r.dominant # "active"
    BY <2>1, Priorities DEF StatusCode
  <2> QED BY <1>3, <1>8, <2>1, <2>2 DEF r, Withdrawn
<1>9. CASE /\ Relevant(e, o) /\ ~ OtherPolicy(e, o) /\ e.kind \notin StatusKind
           /\ Lists(f, {}, {})
  <2> HIDE DEF f
  <2>1. /\ r.dominant \in {"active", "conflict"}
        /\ \A b \in r.blocks : b[1] \in FailureCode
    BY <1>5, <1>9
  <2> QED BY <1>3, <1>9, <2>1 DEF r, Withdrawn
<1>10. CASE /\ Relevant(e, o) /\ ~ OtherPolicy(e, o) /\ e.kind \in StatusKind
            /\ Lists(f, {EVENT_TO_STATUS[e.kind]}, {FailureOf[e.kind]})
  <2> DEFINE status == EVENT_TO_STATUS[e.kind]
  <2> HIDE DEF f
  <2>1. /\ r.dominant \in {"active", "conflict", status}
        /\ STATUS_PRIORITY[status] <= STATUS_PRIORITY[r.dominant]
        /\ \A b \in r.blocks : b[1] \in FailureCode
    BY <1>3, <1>5, <1>10
  <2>2. STATUS_PRIORITY[status] \in 1..6
    BY <1>10, Tables
  <2>3. r.dominant # "active"
    <3>1. STATUS_PRIORITY["active"] = 0
      BY Priorities DEF StatusCode
    <3> HIDE DEF status
    <3> QED BY <2>1, <2>2, <3>1
  <2> QED BY <1>3, <1>10, <2>1, <2>3 DEF r, Withdrawn
<1> QED BY <1>6, <1>7, <1>8, <1>9, <1>10, TurnOfOne

(***************************************************************************)
(* What a log means, for an order that names no accepted ids.              *)
(***************************************************************************)
LEMMA StatusesType ==
  ASSUME NEW S, NEW o
  PROVE  /\ StatusesOf(S, o) \subseteq StatusCode \ {"invalid"}
         /\ "active" \in StatusesOf(S, o)
<1>1. \A f \in Setting(S, o) : EVENT_TO_STATUS[f.kind] \in StatusCode \ {"invalid"}
  BY Tables DEF Setting
<1> QED BY <1>1 DEF StatusesOf, StatusCode

\* The events of a log are those of its ledger.
LEMMA ConsideredOf ==
  ASSUME NEW l, NEW o, o.accepted = {}
  PROVE  Considered(LedgerOf(l), o)
           = {e \in {l[i] : i \in DOMAIN l} : e.certificate = CertificateId}
BY DEF Considered, LedgerOf, Relevant

\* A status event of the certificate is in the meaning of the log, or is held
\* against it as unknown.
LEMMA MeaningHolds ==
  ASSUME NEW l, NEW o, o.accepted = {}, NEW i \in DOMAIN l,
         l[i].certificate = CertificateId, l[i].kind \in StatusKind
  PROVE  STATUS_PRIORITY[Meaning(LedgerOf(l), o)]
           >= IF OtherPolicy(l[i], o) THEN STATUS_PRIORITY["unknown"]
              ELSE STATUS_PRIORITY[EVENT_TO_STATUS[l[i].kind]]
<1> DEFINE S == StatusesOf(Considered(LedgerOf(l), o), o)
           status == IF OtherPolicy(l[i], o) THEN "unknown"
                     ELSE EVENT_TO_STATUS[l[i].kind]
<1>1. S \in SUBSET StatusCode /\ S # {}
  BY StatusesType DEF StatusCode
<1>2. l[i] \in Considered(LedgerOf(l), o)
  BY ConsideredOf
<1>3. status \in S
  <2>1. CASE OtherPolicy(l[i], o)
    BY <1>2, <2>1 DEF StatusesOf, Effective
  <2>2. CASE ~ OtherPolicy(l[i], o)
    BY <1>2, <2>2 DEF StatusesOf, Setting, Effective
  <2> QED BY <2>1, <2>2
<1>4. STATUS_PRIORITY[status] \in 1..6
  BY Tables, Priorities
<1>5. STATUS_PRIORITY["conflict"] = 6
  BY Priorities
<1>6. dominant_status(S) \in StatusCode
      /\ STATUS_PRIORITY[status] <= STATUS_PRIORITY[dominant_status(S)]
  <2> HIDE DEF S, status
  <2> QED BY <1>1, <1>3, DominantIsStrongest
<1>7. STATUS_PRIORITY[dominant_status(S)] \in 0..7
  <2> HIDE DEF S
  <2> QED BY <1>6, Priorities
<1>8. Meaning(LedgerOf(l), o) \in {"conflict", dominant_status(S)}
  BY DEF Meaning
<1> HIDE DEF S, status
<1>9. STATUS_PRIORITY[Meaning(LedgerOf(l), o)] >= STATUS_PRIORITY[status]
  BY <1>4, <1>5, <1>6, <1>7, <1>8
<1> QED BY <1>9 DEF status

\* Adding an event that sets no status leaves the statuses of a log alone, but
\* for "unknown" when it is one of another policy version.
LEMMA NeutralAdds ==
  ASSUME NEW S, NEW e, NEW o, e.kind \notin StatusKind
  PROVE  StatusesOf(S \cup {e}, o) =
           StatusesOf(S, o) \cup (IF OtherPolicy(e, o) THEN {"unknown"} ELSE {})
<1>1. Setting(S \cup {e}, o) = Setting(S, o)
  BY DEF Setting, Effective
<1>2. CASE ~ OtherPolicy(e, o)
  <2>1. (S \cup {e}) \ Effective(S \cup {e}, o) = S \ Effective(S, o)
    BY <1>2 DEF Effective
  <2>2. {"unknown" : f \in (S \cup {e}) \ Effective(S \cup {e}, o)}
          = {"unknown" : f \in S \ Effective(S, o)}
    BY <2>1, Zenon
  <2> QED BY <1>1, <1>2, <2>2 DEF StatusesOf
<1>3. CASE OtherPolicy(e, o)
  <2>1. (S \cup {e}) \ Effective(S \cup {e}, o) = (S \ Effective(S, o)) \cup {e}
    BY <1>3 DEF Effective
  <2>2. {"unknown" : f \in (S \cup {e}) \ Effective(S \cup {e}, o)}
          = {"unknown" : f \in S \ Effective(S, o)} \cup {"unknown"}
    BY <2>1
  <2> QED BY <1>1, <1>3, <2>2 DEF StatusesOf
<1> QED BY <1>2, <1>3

\* A log of nothing else is active, or unknown for such an event.
LEMMA NeutralLog ==
  ASSUME NEW S, NEW o, \A e \in S : e.kind \notin StatusKind
  PROVE  StatusesOf(S, o) =
           {"active"} \cup (IF \E e \in S : OtherPolicy(e, o) THEN {"unknown"} ELSE {})
BY DEF StatusesOf, Setting, Effective

\* The strongest of at most two statuses.
LEMMA DominantOfTwo ==
  /\ dominant_status({"active"}) = "active"
  /\ dominant_status({"active", "unknown"}) = "unknown"
<1>1. {"active"} \in SUBSET StatusCode /\ {"active", "unknown"} \in SUBSET StatusCode
  BY DEF StatusCode
<1>2. dominant_status({"active"}) = "active"
  BY <1>1, DominantIsStrongest
<1>3. /\ dominant_status({"active", "unknown"}) \in {"active", "unknown"}
      /\ STATUS_PRIORITY["unknown"]
           <= STATUS_PRIORITY[dominant_status({"active", "unknown"})]
  BY <1>1, DominantIsStrongest
<1>4. STATUS_PRIORITY["active"] = 0 /\ STATUS_PRIORITY["unknown"] = 1
  BY Priorities DEF StatusCode
<1> QED BY <1>2, <1>3, <1>4

\* "unknown" beside a status that is as strong changes nothing.
LEMMA UnknownAdds ==
  ASSUME NEW S \in SUBSET (StatusCode \ {"invalid"}), "active" \in S
  PROVE  \/ dominant_status(S \cup {"unknown"}) = dominant_status(S)
         \/ /\ dominant_status(S) = "active"
            /\ dominant_status(S \cup {"unknown"}) = "unknown"
<1> DEFINE d == dominant_status(S)
           c == dominant_status(S \cup {"unknown"})
<1>1. S \cup {"unknown"} \in SUBSET StatusCode
  BY DEF StatusCode
<1>2. /\ d \in S /\ \A t \in S : STATUS_PRIORITY[t] <= STATUS_PRIORITY[d]
      /\ c \in S \cup {"unknown"}
      /\ \A t \in S \cup {"unknown"} : STATUS_PRIORITY[t] <= STATUS_PRIORITY[c]
  BY <1>1, DominantIsStrongest
<1> HIDE DEF c, d
<1>3. \A s, t \in StatusCode : STATUS_PRIORITY[s] = STATUS_PRIORITY[t] => s = t
  BY DEF StatusCode, STATUS_PRIORITY
<1>4. STATUS_PRIORITY["active"] = 0 /\ STATUS_PRIORITY["unknown"] = 1
  BY Priorities DEF StatusCode
<1>5. /\ c \in StatusCode /\ d \in StatusCode
      /\ STATUS_PRIORITY[c] \in 0..7 /\ STATUS_PRIORITY[d] \in 0..7
  BY <1>1, <1>2, Priorities
<1>6. CASE c \in S
  <2>1. STATUS_PRIORITY[c] <= STATUS_PRIORITY[d]
    BY <1>2, <1>6
  <2>2. STATUS_PRIORITY[d] <= STATUS_PRIORITY[c]
    BY <1>2
  <2> QED BY <1>3, <1>5, <2>1, <2>2 DEF c, d
<1>7. CASE c \notin S
  <2>1. c = "unknown" /\ STATUS_PRIORITY[d] <= 1
    BY <1>2, <1>4, <1>7
  <2>2. STATUS_PRIORITY[d] # 1
    BY <1>2, <1>3, <1>4, <1>5, <1>7, <2>1
  <2>3. STATUS_PRIORITY[d] = 0
    BY <1>5, <2>1, <2>2
  <2>4. d = "active"
    BY <1>3, <1>4, <1>5, <2>3 DEF StatusCode
  <2> QED BY <2>1, <2>4 DEF c, d
<1> QED BY <1>6, <1>7

(***************************************************************************)
(* The decision.                                                           *)
(***************************************************************************)
\* What the parser fills in is not looked at by the decision's relevance.
LEMMA ParsedKeeps ==
  ASSUME NEW r \in Requests
  PROVE  LET e == parsed(r) IN
           /\ e.id = r.event.id /\ e.certificate = r.event.certificate
           /\ e.kind = r.event.kind /\ e.policyVersion = r.event.policyVersion
<1>1. r.event = [x \in EventField |-> r.event[x]]
  BY RequestsAssumption
<1> QED BY <1>1 DEF parsed, EventField

\* No failure code means evidence of the right purpose, event and value.
LEMMA FailureType ==
  ASSUME NEW v
  PROVE  /\ Failure(v) \subseteq {"checker_unknown", "artifact_conflict"}
         /\ Failure(v) = {} => v # None /\ _accepted_status(v)
BY DEF Failure, _accepted_status, AcceptedFor

\* The failure codes missing evidence can give.
LEMMA UnprovedType ==
  ASSUME NEW p, NEW r
  PROVE  Unproved(p, r)
           \subseteq {"out_of_frame", "checker_unknown", "artifact_conflict"}
BY FailureType DEF Unproved

\* An event the policy's list leaves out is always incoherent.
LEMMA IncoherentType ==
  ASSUME NEW p, NEW e, NEW o
  PROVE  /\ Incoherent(p, e, o)
              \subseteq {"trace_conflict", "digest_mismatch", "policy_block"}
         /\ p.accepted # None /\ e.id \notin p.accepted => Incoherent(p, e, o) # {}
BY DEF Incoherent

\* What a decision on a well-formed request says of its event and evidence.
LEMMA Deciding ==
  ASSUME NEW p, NEW r \in Requests, r.wellFormed
  PROVE  LET e == parsed(r)
             o == event_order(p, e)
             d == update_certificate(p, r)
         IN /\ d.decision \in {"recompute", "maintain"} \cup Withdrawn
            /\ d.dominant \in StatusCode
            /\ d.accepted \in BOOLEAN
            /\ d.blocks \subseteq UpdateCode
            /\ d.decision \in Withdrawn =>
                 /\ e.certificate = CertificateId
                 /\ e.kind \in StatusKind /\ d.decision = EVENT_TO_STATUS[e.kind]
            /\ d.decision = "maintain" =>
                 /\ e.kind \notin StatusKind
                 /\ p.accepted # None => e.id \in p.accepted
                 /\ Unproved(p, r) = {}
            /\ e.certificate # CertificateId
                 \/ (p.accepted \notin {None, {}} /\ e.id \notin p.accepted)
                 => d.decision = "recompute"
<1> DEFINE e == parsed(r)
           o == event_order(p, e)
           f == FoldOne(e, o)
           codes == {b[1] : b \in f.blocks}
           blocks == codes \cup Incoherent(p, e, o) \cup Unproved(p, r)
           d == update_certificate(p, r)
<1>1. /\ d.decision = decide(f.dominant, blocks)
      /\ d.dominant = f.dominant
      /\ d.accepted = (blocks = {})
      /\ d.blocks = blocks
  BY DEF update_certificate
<1>2. o.accepted = IF p.accepted = None THEN {e.id} ELSE p.accepted
  BY DEF event_order
<1>3. /\ f.dominant \in StatusCode \ {"invalid"}
      /\ codes \subseteq FailureCode
      /\ f.dominant \in Withdrawn =>
           /\ Relevant(e, o) /\ e.kind \in StatusKind
           /\ f.dominant = EVENT_TO_STATUS[e.kind]
      /\ f.dominant = "active" =>
           \/ ~ Relevant(e, o) /\ o.accepted = {}
           \/ Relevant(e, o) /\ e.kind \notin StatusKind
      /\ ~ Relevant(e, o) /\ o.accepted # {} => f.dominant = "conflict"
      /\ ~ Relevant(e, o) => f.dominant \in {"active", "conflict"}
  BY OneEvent
<1>4. Relevant(e, o) <=> /\ e.certificate = CertificateId
                         /\ o.accepted # {} => e.id \in o.accepted
  BY DEF Relevant
<1>5. /\ Incoherent(p, e, o)
           \subseteq {"trace_conflict", "digest_mismatch", "policy_block"}
      /\ Unproved(p, r)
           \subseteq {"out_of_frame", "checker_unknown", "artifact_conflict"}
      /\ p.accepted # None /\ e.id \notin p.accepted => blocks # {}
  BY IncoherentType, UnprovedType
<1>6. blocks \subseteq UpdateCode /\ (blocks = {} => Unproved(p, r) = {})
  <2> HIDE DEF codes, f, e, o
  <2> QED BY <1>3, <1>5 DEF UpdateCode, FailureCode
<1> HIDE DEF blocks, codes, f, e, o, d
<1>7. /\ d.decision = "maintain" => f.dominant = "active" /\ blocks = {}
      /\ d.decision \in Withdrawn => d.decision = f.dominant
      /\ d.decision \in {"recompute", "maintain"} \cup Withdrawn
      /\ f.dominant = "conflict" => d.decision = "recompute"
      /\ f.dominant = "active" /\ blocks # {} => d.decision = "recompute"
  BY <1>1, <1>3 DEF decide, Withdrawn, StatusCode
<1>8. d.decision = "maintain" =>
        e.kind \notin StatusKind /\ (p.accepted # None => e.id \in p.accepted)
  BY <1>2, <1>3, <1>5, <1>7
<1>9. e.certificate # CertificateId => d.decision = "recompute"
  BY <1>2, <1>3, <1>4, <1>5, <1>7
<1>10. p.accepted \notin {None, {}} /\ e.id \notin p.accepted
         => d.decision = "recompute"
  BY <1>2, <1>3, <1>4, <1>7
<1> QED BY <1>1, <1>3, <1>4, <1>6, <1>7, <1>8, <1>9, <1>10 DEF d, e, o

(***************************************************************************)
(* Type correctness.  The log holds the events as they were requested.     *)
(***************************************************************************)
LogEvents == {r.event : r \in Requests}

TypeInv == TypeOK /\ log \in Seq(LogEvents)

\* An update appends its event and decides it; a malformed call is rejected.
LEMMA AppendsEvent ==
  ASSUME TypeInv, NEW r \in Requests, Update(r)
  PROVE  /\ request' = r /\ r.wellFormed /\ policy' = policy
         /\ decision' = update_certificate(policy, r)
         /\ log' \in Seq(LogEvents) /\ Len(log') = Len(log) + 1
         /\ DOMAIN log' = DOMAIN log \cup {Len(log')}
         /\ Len(log') \in DOMAIN log' /\ log'[Len(log')] = r.event
         /\ \A i \in DOMAIN log : log'[i] = log[i]
         /\ {log'[i] : i \in DOMAIN log'}
              = {log[i] : i \in DOMAIN log} \cup {r.event}
<1>1. r.event \in LogEvents
  BY DEF LogEvents
<1>2. log' = Append(log, r.event) /\ log \in Seq(LogEvents)
  BY DEF Update, TypeInv
<1>3. /\ log' \in Seq(LogEvents) /\ Len(log') = Len(log) + 1
      /\ DOMAIN log' = 1..Len(log') /\ DOMAIN log = 1..Len(log)
      /\ Len(log) \in Nat
      /\ log'[Len(log')] = r.event
      /\ \A i \in DOMAIN log : log'[i] = log[i]
  BY <1>1, <1>2
<1>4. DOMAIN log' = DOMAIN log \cup {Len(log')} /\ Len(log') \in DOMAIN log'
  BY <1>3
<1>5. {log'[i] : i \in DOMAIN log'} = {log[i] : i \in DOMAIN log} \cup {r.event}
  BY <1>3, <1>4
<1> QED BY <1>3, <1>4, <1>5 DEF Update

\* A malformed call is rejected and changes nothing else.
LEMMA Rejects ==
  ASSUME NEW r \in Requests, Malformed(r)
  PROVE  /\ request' = r /\ ~ r.wellFormed /\ UNCHANGED <<policy, log, maintained>>
         /\ decision'.decision = "reject" /\ decision'.dominant = "invalid"
         /\ decision'.accepted = FALSE /\ decision'.blocks = {"schema_invalid"}
BY DEF Malformed, update_certificate

\* The type invariant and the type of the log are inductive together.
THEOREM LogIsTyped == Spec => []TypeInv
<1>1. Init => TypeInv
  BY MaxLogAssumption DEF Init, TypeInv, TypeOK
<1>2. TypeInv /\ [Next]_vars => TypeInv'
  <2> SUFFICES ASSUME TypeInv, [Next]_vars PROVE TypeInv'
    OBVIOUS
  <2>1. ASSUME NEW r \in Requests, Update(r) PROVE TypeInv'
    <3>1. /\ decision'.decision \in {"recompute", "maintain"} \cup Withdrawn
          /\ decision'.dominant \in StatusCode
          /\ decision'.accepted \in BOOLEAN
          /\ decision'.blocks \subseteq UpdateCode
      BY <2>1, AppendsEvent, Deciding
    <3>2. Len(log') <= MaxLog
      BY <2>1, AppendsEvent, MaxLogAssumption DEF Update, TypeInv
    <3>3. maintained' \in BOOLEAN
      BY <2>1 DEF Update
    <3> QED BY <2>1, <3>1, <3>2, <3>3, AppendsEvent DEF TypeInv, TypeOK
  <2>2. ASSUME NEW r \in Requests, Malformed(r) PROVE TypeInv'
    BY <2>2, Rejects DEF TypeInv, TypeOK, StatusCode, UpdateCode
  <2>3. CASE UNCHANGED vars
    BY <2>3 DEF vars, TypeInv, TypeOK
  <2> QED BY <2>1, <2>2, <2>3 DEF Next
<1> QED BY <1>1, <1>2, PTL DEF Spec

(***************************************************************************)
(* Type correctness: every decision is one of the protocol's, for every    *)
(* request and policy.                                                     *)
(***************************************************************************)
THEOREM TypeCorrect == Spec => []TypeOK
<1>1. TypeInv => TypeOK
  BY DEF TypeInv
<1> QED BY <1>1, LogIsTyped, PTL

(***************************************************************************)
(* What a single decision says.  Each holds of the state right after a     *)
(* call, whatever came before it, and calls are all there is.              *)
(***************************************************************************)
\* A withdrawal decided from one event is a withdrawal of the whole log: every
\* authority fold of it, in any order of arrival, ends at least as strong, or
\* at "unknown" and above for an event of another policy version
\* (certificate.py:1405 against authority.py:1251).
THEOREM WithdrawalsStand == Spec => []WithdrawalStands
<1>1. Init => WithdrawalStands
  BY DEF Init, WithdrawalStands
<1>2. TypeInv /\ WithdrawalStands /\ [Next]_vars => WithdrawalStands'
  <2> SUFFICES ASSUME TypeInv, WithdrawalStands, [Next]_vars
               PROVE  WithdrawalStands'
    OBVIOUS
  <2>1. ASSUME NEW r \in Requests, Update(r) PROVE WithdrawalStands'
    <3> DEFINE n == Len(log')
               d == decision'.decision
    <3>1. /\ n \in DOMAIN log' /\ log'[n] = r.event /\ request' = r
          /\ decision' = update_certificate(policy, r) /\ r.wellFormed
      BY <2>1, AppendsEvent
    <3>2. d \in Withdrawn =>
            /\ r.event.certificate = CertificateId
            /\ r.event.kind \in StatusKind
            /\ d = EVENT_TO_STATUS[r.event.kind]
      BY <3>1, Deciding, ParsedKeeps
    <3>3. ASSUME NEW a \in Authorities, d \in Withdrawn
          PROVE  STATUS_PRIORITY[Meaning(LedgerOf(log'), WholeOrder(a))]
                   >= IF OtherPolicy(r.event, WholeOrder(a))
                      THEN STATUS_PRIORITY["unknown"] ELSE STATUS_PRIORITY[d]
      <4>1. WholeOrder(a).accepted = {}
        BY DEF WholeOrder
      <4> HIDE DEF n, d
      <4> QED BY <3>1, <3>2, <3>3, <4>1, MeaningHolds
    <3>4. \A a : WholeStatus(log, a)' = Meaning(LedgerOf(log'), WholeOrder(a))
      BY DEF WholeStatus, LedgerOf, WholeOrder
    <3> QED BY <3>1, <3>3, <3>4 DEF WithdrawalStands, WholeOrder
  <2>2. ASSUME NEW r \in Requests, Malformed(r) PROVE WithdrawalStands'
    BY <2>2, Rejects DEF WithdrawalStands, Withdrawn
  <2>3. CASE UNCHANGED vars
    <3>1. \A a : WholeStatus(log, a)' = WholeStatus(log, a)
      BY <2>3 DEF vars, WholeStatus, LedgerOf
    <3> QED BY <2>3, <3>1 DEF vars, WithdrawalStands
  <2> QED BY <2>1, <2>2, <2>3 DEF Next
<1> QED BY <1>1, <1>2, LogIsTyped, PTL DEF Spec

\* Nothing is maintained on missing, foreign or shallow evidence.
THEOREM MaintainedAreProved == Spec => []MaintainedIsProved
<1>1. Init => MaintainedIsProved
  BY DEF Init, MaintainedIsProved
<1>2. TypeInv /\ MaintainedIsProved /\ [Next]_vars => MaintainedIsProved'
  <2> SUFFICES ASSUME TypeInv, MaintainedIsProved, [Next]_vars
               PROVE  MaintainedIsProved'
    OBVIOUS
  <2>1. ASSUME NEW r \in Requests, Update(r) PROVE MaintainedIsProved'
    <3>1. /\ request' = r /\ policy' = policy /\ r.wellFormed
          /\ decision' = update_certificate(policy, r)
      BY <2>1, AppendsEvent
    <3>2. decision'.decision = "maintain" => Unproved(policy, r) = {}
      BY <3>1, Deciding
    <3>3. ASSUME Unproved(policy, r) = {}, NEW f \in Claimed(policy, r)
          PROVE  LET v == EvidenceFor(policy, r, f) IN
                   v # None /\ v.accepted /\ v.event = "this" /\ v.value = "this"
      <4> DEFINE v == EvidenceFor(policy, r, f)
      <4>1. (IF f = "frame_transfer" /\ r.evidence[f] = None
             THEN {"out_of_frame"} ELSE Failure(v)) \subseteq Unproved(policy, r)
        BY DEF Unproved
      <4>2. Failure(v) = {}
        <5> HIDE DEF v
        <5> QED BY <3>3, <4>1
      <4>3. v # None /\ _accepted_status(v)
        <5> HIDE DEF v
        <5> QED BY <4>2, FailureType
      <4> HIDE DEF v
      <4>4. v # None /\ v.accepted /\ v.event = "this" /\ v.value = "this"
        BY <4>3 DEF _accepted_status, AcceptedFor
      <4> QED BY <4>4 DEF v
    <3> QED BY <3>1, <3>2, <3>3 DEF MaintainedIsProved
  <2>2. ASSUME NEW r \in Requests, Malformed(r) PROVE MaintainedIsProved'
    BY <2>2, Rejects DEF MaintainedIsProved
  <2>3. CASE UNCHANGED vars
    BY <2>3 DEF vars, MaintainedIsProved
  <2> QED BY <2>1, <2>2, <2>3 DEF Next
<1> QED BY <1>1, <1>2, LogIsTyped, PTL DEF Spec

\* An event of another certificate, or one left out, is neither maintained
\* nor withdraws, but for the empty list, which bounds nothing.
THEOREM SkipIsNotSilent == Spec => []NoSilentSkip
<1>1. Init => NoSilentSkip
  BY DEF Init, NoSilentSkip
<1>2. TypeInv /\ NoSilentSkip /\ [Next]_vars => NoSilentSkip'
  <2> SUFFICES ASSUME TypeInv, NoSilentSkip, [Next]_vars PROVE NoSilentSkip'
    OBVIOUS
  <2>1. ASSUME NEW r \in Requests, Update(r) PROVE NoSilentSkip'
    <3> DEFINE e == parsed(r)
               d == decision'.decision
    <3>1. /\ request' = r /\ policy' = policy /\ r.wellFormed
          /\ decision' = update_certificate(policy, r)
      BY <2>1, AppendsEvent
    <3>2. e.id = r.event.id /\ e.certificate = r.event.certificate
      BY ParsedKeeps
    <3>3. /\ d = "maintain" /\ policy.accepted # None => e.id \in policy.accepted
          /\ \/ e.certificate # CertificateId
             \/ policy.accepted \notin {None, {}} /\ e.id \notin policy.accepted
             => d = "recompute"
      BY <3>1, Deciding
    <3> HIDE DEF e, d
    <3> QED BY <3>1, <3>2, <3>3 DEF NoSilentSkip, d
  <2>2. ASSUME NEW r \in Requests, Malformed(r) PROVE NoSilentSkip'
    BY <2>2, Rejects DEF NoSilentSkip
  <2>3. CASE UNCHANGED vars
    BY <2>3 DEF vars, NoSilentSkip
  <2> QED BY <2>1, <2>2, <2>3 DEF Next
<1> QED BY <1>1, <1>2, LogIsTyped, PTL DEF Spec

(***************************************************************************)
(* What a history of decisions says of the log.  The invariant: maintained *)
(* events set no status, so they add at most "unknown" to those of the log.*)
(***************************************************************************)
MaintainedInv ==
  /\ TypeInv
  /\ maintained => \A i \in DOMAIN log : log[i].kind \notin StatusKind

\* Every event of a log maintained so far is neutral.
LEMMA MaintainedInvariant == Spec => []MaintainedInv
<1>1. Init /\ TypeInv => MaintainedInv
  BY DEF Init, MaintainedInv
<1>2. MaintainedInv /\ TypeInv' /\ [Next]_vars => MaintainedInv'
  <2> SUFFICES ASSUME MaintainedInv, TypeInv', [Next]_vars PROVE MaintainedInv'
    OBVIOUS
  <2>1. ASSUME NEW r \in Requests, Update(r) PROVE MaintainedInv'
    <3>1. /\ DOMAIN log' = DOMAIN log \cup {Len(log')}
          /\ log'[Len(log')] = r.event /\ r.wellFormed
          /\ \A i \in DOMAIN log : log'[i] = log[i]
          /\ decision' = update_certificate(policy, r)
      BY <2>1, AppendsEvent DEF MaintainedInv
    <3>2. maintained' => maintained /\ r.event.kind \notin StatusKind
      <4>1. maintained' = (maintained /\ decision'.decision = "maintain")
        BY <2>1 DEF Update
      <4>2. decision'.decision = "maintain" => r.event.kind \notin StatusKind
        BY <3>1, Deciding, ParsedKeeps
      <4> QED BY <4>1, <4>2
    <3> QED BY <3>1, <3>2 DEF MaintainedInv
  <2>2. ASSUME NEW r \in Requests, Malformed(r) PROVE MaintainedInv'
    BY <2>2, Rejects DEF MaintainedInv
  <2>3. CASE UNCHANGED vars
    BY <2>3 DEF vars, MaintainedInv
  <2> QED BY <2>1, <2>2, <2>3 DEF Next
<1> QED BY <1>1, <1>2, LogIsTyped, PTL DEF Spec

\* Every authority fold of a log whose every event was maintained on arrival
\* is active, or a conflict, or unknown for an event of another policy version
\* (certificate.py:1405 against authority.py:1251).
THEOREM MaintainedLogs == Spec => []MaintainedLog
<1>1. MaintainedInv => MaintainedLog
  <2> SUFFICES ASSUME MaintainedInv, maintained, NEW a \in Authorities,
                      WholeStatus(log, a) \notin {"active", "conflict"}
               PROVE  /\ WholeStatus(log, a) = "unknown"
                      /\ \E i \in DOMAIN log : OtherPolicy(log[i], WholeOrder(a))
    BY DEF MaintainedLog
  <2> DEFINE o == WholeOrder(a)
             S == Considered(LedgerOf(log), o)
  <2>1. o.accepted = {}
    BY DEF WholeOrder
  <2>2. S \subseteq {log[i] : i \in DOMAIN log}
    <3> HIDE DEF o
    <3> QED BY <2>1, ConsideredOf
  <2>3. StatusesOf(S, o) = {"active"} \cup
          (IF \E e \in S : OtherPolicy(e, o) THEN {"unknown"} ELSE {})
    <3>1. \A e \in S : e.kind \notin StatusKind
      BY <2>2 DEF MaintainedInv
    <3> HIDE DEF S, o
    <3> QED BY <3>1, NeutralLog
  <2>4. WholeStatus(log, a) = dominant_status(StatusesOf(S, o))
    BY DEF WholeStatus, Meaning
  <2> HIDE DEF S, o
  <2>5. CASE \E e \in S : OtherPolicy(e, o)
    <3>1. StatusesOf(S, o) = {"active", "unknown"}
      BY <2>3, <2>5
    <3> QED BY <2>2, <2>4, <2>5, <3>1, DominantOfTwo DEF o
  <2>6. CASE ~ \E e \in S : OtherPolicy(e, o)
    <3>1. StatusesOf(S, o) = {"active"}
      BY <2>3, <2>6
    <3> QED BY <2>4, <3>1, DominantOfTwo
  <2> QED BY <2>5, <2>6
<1> QED BY <1>1, MaintainedInvariant, PTL

\* A maintained event leaves the status of every authority fold of the log
\* alone, but for a conflict it causes or resolves and for "unknown" when it
\* is of another policy version (certificate.py:1405 against
\* authority.py:1251).
THEOREM MaintainedAreNeutral == Spec => MaintainedIsNeutral
<1> DEFINE Kept(a) ==
      \/ WholeStatus(log', a) \in {WholeStatus(log, a), "conflict"}
      \/ WholeStatus(log, a) = "conflict"
      \/ /\ OtherPolicy(request'.event, WholeOrder(a))
         /\ WholeStatus(log, a) = "active"
         /\ WholeStatus(log', a) = "unknown"
<1>1. TypeInv /\ [Next]_vars =>
        [decision'.decision = "maintain" =>
           \A a \in Authorities : Kept(a)]_<<log, request, decision>>
  <2> SUFFICES ASSUME TypeInv, [Next]_vars, decision'.decision = "maintain",
                      ~ UNCHANGED <<log, request, decision>>, NEW a \in Authorities
               PROVE  Kept(a)
    OBVIOUS
  <2>1. PICK r \in Requests : Update(r)
    BY Rejects DEF Next, vars
  <2> DEFINE e == r.event
             o == WholeOrder(a)
             S == Considered(LedgerOf(log), o)
             T == Considered(LedgerOf(log'), o)
  <2>2. /\ decision' = update_certificate(policy, r) /\ r.wellFormed
        /\ request' = r
        /\ {log'[i] : i \in DOMAIN log'}
              = {log[i] : i \in DOMAIN log} \cup {e}
    BY <2>1, AppendsEvent
  <2>3. e.kind \notin StatusKind
    BY <2>2, Deciding, ParsedKeeps
  <2>4. o.accepted = {}
    BY DEF WholeOrder
  <2>5. T = S \/ T = S \cup {e}
    <3> HIDE DEF o
    <3>1. S = {x \in {log[i] : i \in DOMAIN log} : x.certificate = CertificateId}
      BY <2>4, ConsideredOf
    <3>2. T = {x \in {log'[i] : i \in DOMAIN log'} :
                 x.certificate = CertificateId}
      BY <2>4, ConsideredOf
    <3> HIDE DEF S, T, e
    <3> QED BY <2>2, <3>1, <3>2
  <2>6. \/ StatusesOf(T, o) = StatusesOf(S, o)
        \/ /\ StatusesOf(T, o) = StatusesOf(S, o) \cup {"unknown"}
           /\ OtherPolicy(e, o)
    <3> HIDE DEF S, T, e, o
    <3> QED BY <2>3, <2>5, NeutralAdds
  <2>7. /\ WholeStatus(log', a) \in {"conflict", dominant_status(StatusesOf(T, o))}
        /\ WholeStatus(log, a) \in {"conflict", dominant_status(StatusesOf(S, o))}
    BY DEF WholeStatus, Meaning
  <2>8. /\ StatusesOf(S, o) \in SUBSET (StatusCode \ {"invalid"})
        /\ "active" \in StatusesOf(S, o)
    <3> HIDE DEF S, o
    <3> QED BY StatusesType
  <2>9. request'.event = e
    BY <2>2
  <2> HIDE DEF S, T, e
  <2>10. CASE StatusesOf(T, o) = StatusesOf(S, o)
    BY <2>7, <2>10
  <2>11. CASE /\ StatusesOf(T, o) = StatusesOf(S, o) \cup {"unknown"}
              /\ OtherPolicy(e, o)
    <3> HIDE DEF o
    <3>1. \/ dominant_status(StatusesOf(T, o)) = dominant_status(StatusesOf(S, o))
          \/ /\ dominant_status(StatusesOf(S, o)) = "active"
             /\ dominant_status(StatusesOf(T, o)) = "unknown"
      BY <2>8, <2>11, UnknownAdds
    <3> QED BY <2>7, <2>9, <2>11, <3>1 DEF o
  <2> QED BY <2>6, <2>10, <2>11
<1> QED BY <1>1, LogIsTyped, PTL DEF Spec, MaintainedIsNeutral
=============================================================================
