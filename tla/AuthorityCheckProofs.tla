------------------------ MODULE AuthorityCheckProofs ------------------------
(***************************************************************************)
(* Proofs about AuthorityCheck, for every horizon, uncertainty and order   *)
(* of status times, every set of prefixes and every operational objects.   *)
(***************************************************************************)
EXTENDS AuthorityCheck, WellFoundedInduction, TLAPS

(***************************************************************************)
(* The clock, for every horizon, set of instants, uncertainties and status *)
(* times: the loop over the anchors finds the last completed one, an       *)
(* active clock is in no doubt about its index, and later status times     *)
(* only move the certificate forward.  These theorems are about ClockSpec, *)
(* where nothing but the clock is asked for.                               *)
(***************************************************************************)

(***************************************************************************)
(* Every set of natural numbers that is not empty has a least element: the *)
(* form in which the proofs use induction.                                 *)
(***************************************************************************)
LEMMA HasLeast ==
  ASSUME NEW T, T \subseteq Nat, T # {}
  PROVE  \E m \in T : \A k \in T : m <= k
<1> DEFINE R == {ss \in Nat \X Nat : ss[1] < ss[2]}
<1>1. IsWellFoundedOn(R, Nat)
  BY NatLessThanWellFounded DEF OpToRel
<1> HIDE DEF R
<1>2. PICK m \in T : \A k \in T : <<k, m>> \notin R
  BY <1>1, WFMin
<1>3. ASSUME NEW k \in T PROVE m <= k
  <2>1. <<k, m>> \in Nat \X Nat /\ <<k, m>>[1] = k /\ <<k, m>>[2] = m
    OBVIOUS
  <2>2. ~ (k < m)
    BY <1>2, <2>1 DEF R
  <2> QED BY <2>2
<1> QED BY <1>3

(***************************************************************************)
(* The anchors.                                                            *)
(***************************************************************************)
LEMMA HorizonIs ==
  ASSUME NEW a \in HorizonAnchors
  PROVE  /\ Horizon(a) \in 0..MaxHorizon
         /\ a \in [0..Horizon(a) -> Int]
         /\ \A i \in 1..Horizon(a) : a[i - 1] < a[i]
<1>1. PICK n \in 0..MaxHorizon :
        /\ a \in [0..n -> Instants]
        /\ \A i \in 1..n : a[i - 1] < a[i]
  BY DEF HorizonAnchors
<1>2. n \in Nat /\ DOMAIN a = 0..n
  BY <1>1, ClockAssumption
<1>3. /\ Horizon(a) \in 0..MaxHorizon
      /\ DOMAIN a = 0..Horizon(a)
  BY <1>2 DEF Horizon
<1>4. ASSUME NEW h \in 0..MaxHorizon, 0..h = 0..n
      PROVE  h = n
  <2>1. n \in 0..h /\ h \in 0..n
    BY <1>2, <1>4, ClockAssumption
  <2> QED BY <2>1, <1>2, ClockAssumption
<1>5. Horizon(a) = n
  BY <1>2, <1>3, <1>4
<1> QED BY <1>1, <1>5, ClockAssumption

LEMMA Increasing ==
  ASSUME NEW a \in HorizonAnchors,
         NEW i \in 0..Horizon(a), NEW j \in 0..Horizon(a), i < j
  PROVE  a[i] < a[j]
<1> DEFINE T == {k \in (i + 1)..Horizon(a) : ~ (a[i] < a[k])}
<1>1. /\ Horizon(a) \in Nat /\ a \in [0..Horizon(a) -> Int]
      /\ \A k \in 1..Horizon(a) : a[k - 1] < a[k]
  BY HorizonIs, ClockAssumption
<1>2. SUFFICES ASSUME T # {} PROVE FALSE
  BY <1>1
<1>3. T \subseteq Nat
  BY <1>1
<1>4. PICK m \in T : \A k \in T : m <= k
  BY <1>2, <1>3, HasLeast
<1>5. m \in (i + 1)..Horizon(a) /\ ~ (a[i] < a[m])
  OBVIOUS
<1>6. /\ m \in 1..Horizon(a)
      /\ m - 1 \in 0..Horizon(a)
      /\ a[m - 1] < a[m]
  BY <1>1, <1>5
<1>7. a[i] \in Int /\ a[m - 1] \in Int /\ a[m] \in Int
  <2>1. m \in 0..Horizon(a)
    BY <1>1, <1>6
  <2> QED BY <1>1, <1>6, <2>1
<1>8. CASE m - 1 = i
  BY <1>5, <1>6, <1>8
<1>9. CASE m - 1 # i
  <2>1. m - 1 \in (i + 1)..Horizon(a) /\ m - 1 \notin T
    BY <1>1, <1>4, <1>5, <1>9
  <2>2. a[i] < a[m - 1]
    BY <2>1
  <2> QED BY <2>2, <1>5, <1>6, <1>7
<1> QED BY <1>8, <1>9

(***************************************************************************)
(* The loop finds an anchor, and it is the last one not after the point.   *)
(***************************************************************************)
LEMMA CompletedExists ==
  ASSUME NEW a \in HorizonAnchors, NEW point \in Int
  PROVE  /\ completed(a, point) \in 0..Horizon(a)
         /\ \A j \in 1..completed(a, point) : a[j] <= point
         /\ completed(a, point) < Horizon(a) =>
              point < a[completed(a, point) + 1]
<1>1. Horizon(a) \in Nat /\ a \in [0..Horizon(a) -> Int]
  BY HorizonIs, ClockAssumption
<1> DEFINE T == {i \in 0..Horizon(a) :
                   i < Horizon(a) => point < a[i + 1]}
<1>2. T \subseteq Nat /\ Horizon(a) \in T
  BY <1>1
<1>3. PICK m \in T : \A k \in T : m <= k
  BY <1>2, HasLeast
<1>4. ASSUME NEW j \in 1..m
      PROVE  a[j] <= point
  <2>1. /\ j - 1 \in 0..Horizon(a)
        /\ j - 1 \notin T
        /\ j \in 0..Horizon(a)
    BY <1>1, <1>2, <1>3
  <2>2. ~ (point < a[j])
    <3>1. (j - 1) + 1 = j
      BY <1>2
    <3> QED BY <2>1, <3>1
  <2> QED BY <1>1, <2>1, <2>2
<1>5. \E i \in 0..Horizon(a) :
        /\ \A j \in 1..i : a[j] <= point
        /\ i < Horizon(a) => point < a[i + 1]
  BY <1>4
<1> QED BY <1>5 DEF completed

LEMMA CompletedIs ==
  ASSUME NEW a \in HorizonAnchors, NEW point \in Int,
         NEW i \in 1..Horizon(a)
  PROVE  i <= completed(a, point) <=> a[i] <= point
<1> DEFINE c == completed(a, point)
<1>1. Horizon(a) \in Nat /\ a \in [0..Horizon(a) -> Int]
  BY HorizonIs, ClockAssumption
<1>2. /\ c \in 0..Horizon(a)
      /\ \A j \in 1..c : a[j] <= point
      /\ c < Horizon(a) => point < a[c + 1]
  BY CompletedExists
<1> HIDE DEF c
<1>3. ASSUME i <= c PROVE a[i] <= point
  BY <1>1, <1>2, <1>3
<1>4. ASSUME ~ (i <= c) PROVE ~ (a[i] <= point)
  <2>1. c + 1 \in 0..Horizon(a) /\ c + 1 <= i /\ point < a[c + 1]
    BY <1>1, <1>2, <1>4
  <2>2. i \in 0..Horizon(a) /\ a[c + 1] \in Int /\ a[i] \in Int
    BY <1>1, <2>1
  <2>3. CASE c + 1 = i
    BY <2>1, <2>2, <2>3
  <2>4. CASE c + 1 # i
    <3>1. c + 1 < i
      BY <1>1, <2>1, <2>4
    <3>2. a[c + 1] < a[i]
      BY <2>1, <2>2, <3>1, Increasing
    <3> QED BY <2>1, <2>2, <3>2
  <2> QED BY <2>3, <2>4
<1>5. i <= c <=> a[i] <= point
  BY <1>3, <1>4
<1> QED BY <1>5 DEF c

LEMMA CompletedMonotone ==
  ASSUME NEW a \in HorizonAnchors, NEW p \in Int, NEW q \in Int, p <= q
  PROVE  completed(a, p) <= completed(a, q)
<1>1. Horizon(a) \in Nat /\ a \in [0..Horizon(a) -> Int]
  BY HorizonIs, ClockAssumption
<1>2. /\ completed(a, p) \in 0..Horizon(a)
      /\ completed(a, q) \in 0..Horizon(a)
  BY CompletedExists
<1>3. CASE completed(a, p) = 0
  BY <1>1, <1>2, <1>3
<1>4. CASE completed(a, p) # 0
  <2>1. completed(a, p) \in 1..Horizon(a)
    BY <1>1, <1>2, <1>4
  <2>2. a[completed(a, p)] <= p
    <3>1. completed(a, p) \in 1..completed(a, p)
      BY <1>1, <2>1
    <3>2. \A j \in 1..completed(a, p) : a[j] <= p
      BY CompletedExists
    <3> QED BY <3>1, <3>2
  <2>3. a[completed(a, p)] <= q
    BY <1>1, <2>1, <2>2
  <2> QED BY <2>1, <2>3, CompletedIs
<1> QED BY <1>3, <1>4

-----------------------------------------------------------------------------
(***************************************************************************)
(* The inductive invariant: the clock is that of the last status time.     *)
(***************************************************************************)
ClockInv ==
  /\ anchors \in HorizonAnchors
  /\ uncertainty \in Uncertainties
  /\ status_time \in StatusTimes
  /\ clock = status_clock(status_time, uncertainty, anchors)

LEMMA ClockInduction == ClockSpec => []ClockInv
<1>1. ClockInit => ClockInv
  BY DEF ClockInit, ClockInv
<1>2. ClockInv /\ [ClockNext]_clock_vars => ClockInv'
  BY DEF ClockInv, ClockNext, AskLater, clock_vars
<1> QED BY <1>1, <1>2, PTL DEF ClockSpec

LEMMA ClockTypes ==
  ASSUME ClockInv
  PROVE  /\ lower \in Int
         /\ upper \in Int
         /\ lower <= upper
         /\ Horizon(anchors) \in 0..MaxHorizon /\ MaxHorizon \in Nat
         /\ anchors \in [0..Horizon(anchors) -> Int]
         /\ completed(anchors, lower) \in 0..Horizon(anchors)
         /\ completed(anchors, upper) \in 0..Horizon(anchors)
<1>1. lower \in Int /\ upper \in Int /\ lower <= upper
  BY ClockAssumption DEF ClockInv, lower, upper
<1> QED BY <1>1, HorizonIs, CompletedExists, ClockAssumption DEF ClockInv

LEMMA ClockCases ==
  ASSUME ClockInv
  PROVE  \/ upper < anchors[0]
            /\ clock = [status |-> "not_effective", index |-> -1]
         \/ /\ ~ (upper < anchors[0])
            /\ lower > anchors[Horizon(anchors)]
            /\ clock = [status |-> "expired", index |-> -1]
         \/ /\ ~ (upper < anchors[0])
            /\ ~ (lower > anchors[Horizon(anchors)])
            /\ clock = [status |-> "boundary_unknown", index |-> -1]
         \/ /\ ~ (upper < anchors[0])
            /\ ~ (lower > anchors[Horizon(anchors)])
            /\ completed(anchors, lower) =
                 completed(anchors, upper)
            /\ clock = [status |-> "active",
                        index |-> completed(anchors, lower)]
BY DEF ClockInv, status_clock, lower, upper

(***************************************************************************)
(* Type correctness: the clock has an index exactly when it is active      *)
(* (StatusClock in dfcc.time).                                             *)
(***************************************************************************)
THEOREM ClockTypeCorrect == ClockSpec => []ClockTypeOK
<1>1. ASSUME ClockInv PROVE ClockTypeOK
  <2>1. DOMAIN anchors = 0..Horizon(anchors) /\ -1 \notin DOMAIN anchors
    BY <1>1, ClockTypes
  <2>2. clock.index \in -1..MaxHorizon
    BY <1>1, ClockTypes, ClockCases
  <2>3. clock.status \in {"active", "not_effective", "expired", "boundary_unknown"}
    BY <1>1, ClockCases
  <2>4. clock.index \in DOMAIN anchors <=> clock.status = "active"
    BY <1>1, <2>1, ClockTypes, ClockCases
  <2> QED BY <1>1, <2>2, <2>3, <2>4 DEF ClockInv, ClockTypeOK
<1> QED BY <1>1, ClockInduction, PTL

(***************************************************************************)
(* An active clock is in no doubt about any anchor after the first: the    *)
(* index is right for the whole interval of uncertainty                    *)
(* (status_clock in dfcc.time).                                            *)
(***************************************************************************)
THEOREM NoDoubt == ClockSpec => []IndexNotInDoubt
<1>1. ASSUME ClockInv PROVE IndexNotInDoubt
  <2> SUFFICES ASSUME clock.status = "active", NEW i \in DOMAIN anchors \ {0}
               PROVE  /\ ~ (lower < anchors[i] /\ anchors[i] <= upper)
                      /\ i <= clock.index <=> anchors[i] <= lower
    BY DEF IndexNotInDoubt
  <2>1. /\ completed(anchors, lower) =
             completed(anchors, upper)
        /\ clock.index = completed(anchors, lower)
    BY <1>1, ClockCases
  <2>2. i \in 1..Horizon(anchors) /\ anchors[i] \in Int
    BY <1>1, ClockTypes
  <2>3. /\ i <= completed(anchors, lower) <=> anchors[i] <= lower
        /\ i <= completed(anchors, upper) <=> anchors[i] <= upper
    <3>1. /\ anchors \in HorizonAnchors
          /\ lower \in Int
          /\ upper \in Int
      BY <1>1, ClockTypes DEF ClockInv
    <3> QED BY <2>2, <3>1, CompletedIs
  <2> QED BY <1>1, <2>1, <2>2, <2>3, ClockTypes
<1> QED BY <1>1, ClockInduction, PTL

(***************************************************************************)
(* Status time only moves a certificate forward (status_clock in           *)
(* dfcc.time).                                                             *)
(***************************************************************************)
THEOREM OnlyForward == ClockSpec => OneWay
<1> DEFINE A == /\ clock.status # "boundary_unknown"
                     /\ clock'.status # "boundary_unknown"
                     => Place(clock) <= Place(clock')
                /\ clock.status = "boundary_unknown" =>
                     clock'.status # "not_effective"
                /\ clock.status = "expired" => clock'.status = "expired"
<1>1. ASSUME ClockInv, ClockInv', AskLater PROVE A
  <2>1. /\ anchors' = anchors /\ uncertainty' = uncertainty
        /\ status_time \in Int /\ status_time' \in Int
        /\ status_time < status_time' /\ uncertainty \in Int
    BY <1>1, ClockAssumption DEF AskLater, ClockInv
  <2>2. lower < lower' /\ upper < upper'
    <3>1. \A t, s, u \in Int : t < s => t - u < s - u /\ t + u < s + u
      OBVIOUS
    <3>2. uncertainty' = uncertainty
      BY <2>1
    <3>3. /\ status_time - uncertainty < status_time' - uncertainty
          /\ status_time + uncertainty < status_time' + uncertainty
      BY <2>1, <3>1
    <3> QED BY <3>2, <3>3 DEF lower, upper
  <2>3. /\ lower \in Int
        /\ upper \in Int
        /\ lower' \in Int
        /\ upper' \in Int
        /\ lower' <= upper'
        /\ Horizon(anchors) \in 0..MaxHorizon /\ MaxHorizon \in Nat
        /\ completed(anchors, lower) \in 0..Horizon(anchors)
        /\ completed(anchors, lower') \in 0..Horizon(anchors)
    <3>1. /\ lower \in Int
          /\ upper \in Int
          /\ lower <= upper
          /\ Horizon(anchors) \in 0..MaxHorizon /\ MaxHorizon \in Nat
          /\ completed(anchors, lower) \in 0..Horizon(anchors)
      BY <1>1, ClockTypes
    <3>2. /\ lower' \in Int
          /\ upper' \in Int
          /\ lower' <= upper'
      <4>1. uncertainty \in Nat
        BY <1>1, ClockAssumption DEF ClockInv
      <4>2. \A t, u : t \in Int /\ u \in Nat =>
              t - u \in Int /\ t + u \in Int /\ t - u <= t + u
        OBVIOUS
      <4>3. /\ status_time' - uncertainty \in Int
            /\ status_time' + uncertainty \in Int
            /\ status_time' - uncertainty <= status_time' + uncertainty
        BY <2>1, <4>1, <4>2
      <4>4. uncertainty' = uncertainty
        BY <2>1
      <4> QED BY <4>3, <4>4 DEF lower, upper
    <3>3. completed(anchors, lower') \in 0..Horizon(anchors)
      BY <1>1, <3>2, CompletedExists DEF ClockInv
    <3> QED BY <3>1, <3>2, <3>3
  <2>4. anchors[0] \in Int /\ anchors[Horizon(anchors)] \in Int
        /\ anchors[0] <= anchors[Horizon(anchors)]
    <3>1. /\ anchors \in [0..Horizon(anchors) -> Int]
          /\ anchors \in HorizonAnchors
      BY <1>1, ClockTypes DEF ClockInv
    <3>2. /\ 0 \in 0..Horizon(anchors)
          /\ Horizon(anchors) \in 0..Horizon(anchors)
      BY <2>3
    <3>3. anchors[0] \in Int /\ anchors[Horizon(anchors)] \in Int
      BY <3>1, <3>2
    <3>4. CASE Horizon(anchors) = 0
      BY <3>3, <3>4
    <3>5. CASE Horizon(anchors) # 0
      <4>1. anchors[0] < anchors[Horizon(anchors)]
        BY <2>3, <3>1, <3>2, <3>5, Increasing
      <4> QED BY <3>3, <4>1
    <3> QED BY <3>3, <3>4, <3>5
  <2>5. completed(anchors, lower) <=
          completed(anchors, lower')
    BY <1>1, <2>2, <2>3, CompletedMonotone DEF ClockInv
  <2>6. \/ upper' < anchors[0]
           /\ clock' = [status |-> "not_effective", index |-> -1]
        \/ /\ ~ (upper' < anchors[0])
           /\ lower' > anchors[Horizon(anchors)]
           /\ clock' = [status |-> "expired", index |-> -1]
        \/ /\ ~ (upper' < anchors[0])
           /\ ~ (lower' > anchors[Horizon(anchors)])
           /\ clock' = [status |-> "boundary_unknown", index |-> -1]
        \/ /\ ~ (upper' < anchors[0])
           /\ ~ (lower' > anchors[Horizon(anchors)])
           /\ clock' = [status |-> "active",
                        index |-> completed(anchors, lower')]
    BY <1>1, <2>1 DEF ClockInv, status_clock, lower, upper
  <2>7. CASE clock.status = "not_effective"
    <3>1. Place(clock) = -1
      BY <2>7 DEF Place
    <3>2. /\ Place(clock') \in Int
          /\ (clock'.status # "boundary_unknown" => -1 <= Place(clock'))
      BY <2>3, <2>6 DEF Place
    <3> QED BY <2>7, <3>1, <3>2
  <2>8. CASE clock.status = "expired"
    BY <1>1, <2>2, <2>3, <2>4, <2>6, <2>8, ClockCases DEF Place
  <2>9. CASE clock.status = "boundary_unknown"
    BY <1>1, <2>2, <2>3, <2>4, <2>6, <2>9, ClockCases
  <2>10. CASE clock.status = "active"
    <3>1. /\ ~ (upper < anchors[0])
          /\ clock.index = completed(anchors, lower)
      BY <1>1, <2>10, ClockCases
    <3>2. clock'.status # "not_effective"
      BY <2>2, <2>3, <2>4, <2>6, <3>1
    <3>3. Place(clock) = completed(anchors, lower)
      BY <2>10, <3>1 DEF Place
    <3>4. clock'.status = "expired" => Place(clock') = MaxHorizon + 1
      BY DEF Place
    <3>5. clock'.status = "active" =>
            Place(clock') = completed(anchors, lower')
      BY <2>6 DEF Place
    <3> QED BY <2>3, <2>5, <2>6, <2>10, <3>2, <3>3, <3>4, <3>5
  <2> QED BY <1>1, <2>7, <2>8, <2>9, <2>10, ClockCases
<1>2. ClockInv /\ ClockInv' /\ [ClockNext]_clock_vars => [A]_clock_vars
  BY <1>1 DEF ClockNext
<1> QED BY <1>2, ClockInduction, PTL DEF ClockSpec, OneWay

-----------------------------------------------------------------------------
(***************************************************************************)
(* The outcome builders.                                                   *)
(***************************************************************************)

\* An early return: its code is a status and its blocks give the reasons.
LEMMA StatusOutcomeIs ==
  ASSUME NEW status \in StatusCode \ {"active"}, NEW blocks, blocks # {}
  PROVE  LET o == status_outcome(status, blocks) IN
         /\ o.code = status
         /\ validate_authority_outcome(o)
         /\ SchemaAccepts(o, status)
         /\ o.code \notin decisive_codes
<1> DEFINE o == status_outcome(status, blocks)
<1>1. /\ o.layer = "status" /\ o.code = status /\ o.direction = "none"
      /\ o.blocks = blocks /\ o.gate = "block" /\ o.reasons
  BY DEF status_outcome
<1>2. status \notin decisive_codes /\ status \notin allow_codes
  BY DEF StatusCode, decisive_codes, allow_codes
<1>3. <<status, "none">> \in ALLOWED_OUTCOME_DIRECTIONS("status")
  BY DEF ALLOWED_OUTCOME_DIRECTIONS, StatusCode
<1> HIDE DEF o
<1>4. validate_authority_outcome(o)
  BY <1>1, <1>2, <1>3 DEF validate_authority_outcome
<1>5. SchemaAccepts(o, status)
  BY <1>1, <1>2 DEF SchemaAccepts
<1> QED BY <1>1, <1>2, <1>4, <1>5 DEF o

\* What gate_decision answers without blocks to begin with.
LEMMA GateIs ==
  ASSUME NEW policy \in Policies
  PROVE  LET g == gate_decision(policy, {}) IN
         /\ g.gate \in GateDecision
         /\ g.gate = "block" <=> g.blocks # {}
<1> DEFINE blocks == {} \cup (IF policy.lowGrade \/ policy.modeBlocked
                              THEN {"policy_block"} ELSE {})
<1>1. gate_decision(policy, {}) =
        [gate |-> IF blocks # {} THEN "block"
                  ELSE IF policy.unknown THEN "unknown" ELSE "allow",
         blocks |-> blocks]
  BY DEF gate_decision
<1> HIDE DEF blocks
<1> QED BY <1>1 DEF GateDecision

\* A represented outcome is well formed; a decisive one that the schema lets
\* through is the kernel's verdict, with nothing blocking and an open gate.
LEMMA RepresentedIs ==
  ASSUME NEW v \in VerdictCode, NEW g \in GateDecision, NEW blocks,
         NEW kernelReasons \in BOOLEAN,
         blocks # {} => g = "block" \/ v = "unknown",
         g = "block" => blocks # {}
  PROVE  LET o == represented_outcome(v, g, blocks, kernelReasons) IN
         /\ validate_authority_outcome(o)
         /\ SchemaAccepts(o, "active") /\ o.code \in decisive_codes =>
              /\ o.code = v /\ v \in {"assert", "deny", "infeasible"}
              /\ blocks = {} /\ o.blocks = {} /\ g = "allow" /\ o.gate = "allow"
         /\ SchemaAccepts(o, "active") /\ o.blocks = {} =>
              o.code \in decisive_codes
<1> DEFINE o == represented_outcome(v, g, blocks, kernelReasons)
           undecided == v \notin {"assert", "deny", "infeasible"} /\ blocks = {}
           local == blocks \cup (IF undecided THEN {"checker_unknown"} ELSE {})
<1>1. CASE g = "block"
  <2>1. o = [layer |-> "policy", code |-> "block", direction |-> "none",
             blocks |-> blocks, gate |-> g, reasons |-> blocks # {}]
    BY <1>1 DEF represented_outcome
  <2> HIDE DEF o, undecided, local
  <2>2. /\ o.layer = "policy" /\ o.code = "block" /\ o.direction = "none"
        /\ o.blocks = blocks /\ o.gate = g /\ o.reasons = (blocks # {})
    BY <2>1
  <2>3. "block" \notin decisive_codes /\ "block" \notin allow_codes
    BY DEF decisive_codes, allow_codes
  <2>4. <<"block", "none">> \in ALLOWED_OUTCOME_DIRECTIONS("policy")
    BY DEF ALLOWED_OUTCOME_DIRECTIONS, GateDecision
  <2>5. validate_authority_outcome(o)
    BY <1>1, <2>2, <2>3, <2>4 DEF validate_authority_outcome
  <2> QED BY <1>1, <2>2, <2>3, <2>5 DEF o
<1>2. CASE g # "block"
  <2>1. o = [layer |-> "represented", code |-> v, direction |-> direction(v),
             blocks |-> local,
             gate |-> IF local # {} THEN "block" ELSE g,
             reasons |-> \/ kernelReasons \/ local # {}
                         \/ v \in {"deny", "infeasible"}]
    BY <1>2 DEF represented_outcome
  <2>2. /\ o.layer = "represented" /\ o.code = v /\ o.direction = direction(v)
        /\ o.blocks = local /\ o.gate = IF local # {} THEN "block" ELSE g
        /\ o.reasons <=> \/ kernelReasons \/ local # {}
                         \/ v \in {"deny", "infeasible"}
    BY <2>1
  <2>3. local = {} <=> v \in {"assert", "deny", "infeasible"} /\ blocks = {}
    OBVIOUS
  <2>4. v \in {"assert", "deny", "infeasible"} => blocks = {}
    BY <1>2
  <2>5. /\ v \in decisive_codes <=> v \in {"assert", "deny", "infeasible"}
        /\ v \in allow_codes <=> v = "assert"
    BY DEF VerdictCode, decisive_codes, allow_codes
  <2>6. <<v, direction(v)>> \in ALLOWED_OUTCOME_DIRECTIONS("represented")
    BY DEF ALLOWED_OUTCOME_DIRECTIONS
  <2> HIDE DEF o, local
  <2>7. validate_authority_outcome(o)
    BY <2>2, <2>3, <2>4, <2>5, <2>6 DEF validate_authority_outcome
  <2>8. SchemaAccepts(o, "active") /\ o.code \in decisive_codes =>
          o.gate = "allow" /\ local = {} /\ g = "allow"
    BY <2>2, <2>3, <2>4, <2>5 DEF SchemaAccepts
  <2> QED BY <2>2, <2>3, <2>5, <2>7, <2>8 DEF o
<1> QED BY <1>1, <1>2

\* An operational outcome is well formed; a decisive one that the schema lets
\* through is an agreement with the kernel's verdict.
LEMMA OperationalIs ==
  ASSUME NEW v \in VerdictCode, NEW g \in GateDecision, NEW blocks, NEW ops,
         g = "block" => blocks # {}
  PROVE  LET o == operational_outcome(v, g, blocks, ops) IN
         /\ validate_authority_outcome(o)
         /\ SchemaAccepts(o, "active") /\ o.code \in decisive_codes =>
              /\ \/ o.code = "accept" /\ v = "assert"
                    /\ Agree(ops, "positive", "accept")
                 \/ o.code = "reject" /\ v = "deny"
                    /\ Agree(ops, "negative", "reject")
              /\ ops.derived
              /\ blocks = {} /\ o.blocks = {} /\ g = "allow" /\ o.gate = "allow"
         /\ o.blocks = {} => o.code \in {"accept", "reject"}
<1> DEFINE o == operational_outcome(v, g, blocks, ops)
           before == blocks \cup Shortfall(ops)
           decided == Decide(v, g, ops, before)
           local == before \cup decided[3]
<1>1. o = [layer |-> "operational", code |-> decided[1],
           direction |-> decided[2], blocks |-> local,
           gate |-> IF local # {} THEN "block" ELSE g,
           reasons |-> local # {} \/ decided[1] = "reject"]
  BY Zenon DEF operational_outcome
<1>2. \/ decided = <<"unknown", "none", {}>> /\ g = "block"
      \/ /\ decided = <<"accept", "positive", {}>> /\ v = "assert"
         /\ Agree(ops, "positive", "accept") /\ before = {}
      \/ /\ decided = <<"reject", "negative", {}>> /\ v = "deny"
         /\ Agree(ops, "negative", "reject") /\ before = {}
      \/ decided = <<"indeterminate", "neutral", {"assoc_mixed"}>>
      \/ decided = <<"unknown", "none", {"assoc_empty"}>>
      \/ decided = <<"unknown", "none", {}>> /\ before # {}
      \/ decided = <<"unknown", "none", {"artifact_conflict"}>>
  BY Zenon DEF Decide
<1>3. before = {} => blocks = {} /\ ops.derived
  BY DEF Shortfall
<1>4. blocks # {} => before # {}
  OBVIOUS
<1> HIDE DEF o, before, decided
<1>5. /\ o.layer = "operational" /\ o.code = decided[1]
      /\ o.direction = decided[2] /\ o.blocks = local
      /\ o.gate = IF local # {} THEN "block" ELSE g
      /\ o.reasons = (local # {} \/ decided[1] = "reject")
  BY <1>1
<1>6. \/ /\ decided[1] = "accept" /\ decided[2] = "positive" /\ v = "assert"
         /\ Agree(ops, "positive", "accept") /\ before = {} /\ local = {}
      \/ /\ decided[1] = "reject" /\ decided[2] = "negative" /\ v = "deny"
         /\ Agree(ops, "negative", "reject") /\ before = {} /\ local = {}
      \/ decided[1] = "indeterminate" /\ decided[2] = "neutral" /\ local # {}
      \/ decided[1] = "unknown" /\ decided[2] = "none" /\ local # {}
  BY <1>2, <1>4
<1> HIDE DEF local
<1>7. /\ "accept" \in allow_codes /\ "accept" \in decisive_codes
      /\ "reject" \notin allow_codes /\ "reject" \in decisive_codes
      /\ "indeterminate" \notin allow_codes /\ "indeterminate" \notin decisive_codes
      /\ "unknown" \notin allow_codes /\ "unknown" \notin decisive_codes
  BY DEF allow_codes, decisive_codes
<1>8. <<decided[1], decided[2]>> \in ALLOWED_OUTCOME_DIRECTIONS("operational")
  BY <1>6 DEF ALLOWED_OUTCOME_DIRECTIONS
<1>9. validate_authority_outcome(o)
  BY <1>5, <1>6, <1>7, <1>8 DEF validate_authority_outcome
<1>10. SchemaAccepts(o, "active") /\ o.code \in decisive_codes =>
         o.gate = "allow" /\ g = "allow" /\ local = {}
  BY <1>5, <1>6, <1>7 DEF SchemaAccepts
<1>11. SchemaAccepts(o, "active") /\ o.code \in decisive_codes =>
         /\ \/ o.code = "accept" /\ v = "assert"
               /\ Agree(ops, "positive", "accept")
            \/ o.code = "reject" /\ v = "deny"
               /\ Agree(ops, "negative", "reject")
         /\ ops.derived
         /\ blocks = {} /\ o.blocks = {} /\ g = "allow" /\ o.gate = "allow"
  BY <1>3, <1>5, <1>6, <1>7, <1>10, Zenon
<1>12. o.blocks = {} => o.code \in {"accept", "reject"}
  BY <1>5, <1>6
<1> QED BY <1>9, <1>11, <1>12 DEF o

(***************************************************************************)
(* The invariant.  StageInvariant says what a call has established when it *)
(* reaches a stage, ResultInvariant what the last result shows, and        *)
(* HistoryInvariant what the calls so far leave behind.                    *)
(***************************************************************************)
Identities == {"ProfileResolved", "FieldPresence", "ReferenceResolved",
               "ContextWellFormed", "policy_gate"}

\* The guards recorded when a stage is reached.
GuardsAt(s) ==
  CASE s \in {"certificate", "fold"} -> Identities
    [] s = "clock" -> Identities \cup {"status_active"}
    [] s = "prefix" -> Identities \cup {"status_active", "clock_inside"}
    [] s = "validity" -> Identities \cup {"status_active", "clock_inside",
                                          "ExactPrefixEnclosure"}
    [] s = "sets" -> Identities \cup {"status_active", "clock_inside",
                                      "ExactPrefixEnclosure", "validity_pass"}
    [] s = "kernel" -> Identities \cup {"status_active", "clock_inside",
                          "ExactPrefixEnclosure", "validity_pass",
                          "ArtifactConsistent", "SetRefSound"}
    [] OTHER -> base_guards \cup {"policy_gate"}

Informative == {"ArtifactConsistent", "checker_obligations"}

Said(ok) == IF ok THEN "pass" ELSE "fail"

StageInvariant ==
  /\ stage # "ready" =>
       /\ result = None
       /\ DOMAIN guards = GuardsAt(stage)
       /\ \A g \in GuardsAt(stage) \ Informative : guards[g] = "pass"
  /\ stage \in {"clock", "prefix", "validity", "sets", "kernel", "gate", "outcome"} =>
       dominant = "active" /\ ~ marked
  /\ stage \in {"prefix", "validity", "sets", "kernel", "gate", "outcome"} =>
       /\ clock = status_clock(status_time, uncertainty, anchors)
       /\ clock.status = "active"
  /\ stage \in {"validity", "sets", "kernel", "gate", "outcome"} =>
       ~ ExactPrefixEmpty(prefix)
  /\ stage \in {"kernel", "gate", "outcome"} =>
       guards["ArtifactConsistent"] = Said(certificate.artifacts)
  /\ stage \in {"gate", "outcome"} =>
       /\ verdict \in VerdictCode
       /\ verdict \in {"assert", "deny"} => ~ NothingResidual
       /\ proof_blocks # {} => verdict = "unknown"
       /\ guards["checker_obligations"]
            = Said(verdict \notin {"unknown", "conflict"} /\ proof_blocks = {})
  /\ stage = "outcome" =>
       /\ gate.gate \in GateDecision
       /\ gate.gate = "block" <=> gate.blocks # {}

ResultInvariant ==
  /\ DecisiveIsEarned /\ NeverRefused /\ ViewsConform /\ GuardPassTells
  /\ result # None => result.dominant \in StatusCode \cup {None}

HistoryInvariant ==
  /\ withdrawn \/ SaysWithdrawn => marked \/ Expired(status_time)
  /\ NotRegained

AuthorityInvariant ==
  TypeOK /\ StageInvariant /\ ResultInvariant /\ HistoryInvariant

-----------------------------------------------------------------------------
(* How a stage ends.                                                       *)

LEMMA GoingOn ==
  ASSUME NEW next, GoOn(next)
  PROVE  /\ stage' = next /\ result' = None
         /\ ResultInvariant' /\ ~ Decisive' /\ ~ SaysWithdrawn'
<1>1. stage' = next /\ result' = None
  BY DEF GoOn
<1> QED BY <1>1 DEF ResultInvariant, DecisiveIsEarned, NeverRefused, ViewsConform,
           GuardPassTells, Returned, Decisive, SaysWithdrawn

LEMMA WithoutView ==
  ASSUME NEW kind \in {"invalid", "raised", "schema_invalid"},
         result' = NoView(kind)
  PROVE  ResultInvariant' /\ ~ Decisive' /\ ~ SaysWithdrawn'
<1>1. result'.kind = kind /\ result'.dominant = None
  BY DEF NoView
<1>2. ~ (Returned("view")') /\ ~ (Returned("refused")')
  BY <1>1 DEF Returned
<1> QED BY <1>1, <1>2 DEF ResultInvariant, DecisiveIsEarned, NeverRefused,
           ViewsConform, GuardPassTells, Decisive, SaysWithdrawn, Returned

LEMMA Returning ==
  ASSUME NEW status \in StatusCode \ {"active"}, NEW blocks, blocks # {},
         ReturnStatus(status, blocks)
  PROVE  /\ stage' = "ready" /\ ResultInvariant' /\ ~ Decisive'
         /\ SaysWithdrawn' => status \in {"expired", "revoked", "superseded"}
<1> DEFINE o == status_outcome(status, blocks)
<1>1. /\ validate_authority_outcome(o) /\ SchemaAccepts(o, status)
      /\ o.code \notin decisive_codes
  BY StatusOutcomeIs
<1>2. /\ stage' = "ready"
      /\ result' = [kind |-> "view", outcome |-> o, dominant |-> status,
                    guardPass |-> FALSE]
  BY <1>1 DEF ReturnStatus, View
<1> HIDE DEF o
<1>3. /\ result'.kind = "view" /\ result'.outcome = o
      /\ result'.dominant = status /\ result'.guardPass = FALSE
  BY <1>2
<1>4. ~ Decisive' /\ ~ (Returned("refused")')
  BY <1>1, <1>3 DEF Decisive, Returned
<1>5. ViewsConform'
  BY <1>1, <1>3 DEF ViewsConform
<1>6. GuardPassTells'
  BY <1>3, <1>4 DEF GuardPassTells
<1>7. DecisiveIsEarned' /\ NeverRefused'
  BY <1>4 DEF DecisiveIsEarned, NeverRefused
<1> QED BY <1>2, <1>3, <1>4, <1>5, <1>6, <1>7 DEF ResultInvariant, SaysWithdrawn

LEMMA Quiet ==
  ASSUME AuthorityInvariant, UNCHANGED <<fixed, status_time, history>>,
         ~ Decisive', SaysWithdrawn' => marked \/ Expired(status_time)
  PROVE  HistoryInvariant'
<1>1. /\ anchors' = anchors /\ uncertainty' = uncertainty
      /\ status_time' = status_time /\ marked' = marked
      /\ withdrawn' = withdrawn
  BY DEF fixed, history
<1>2. Expired(status_time)' <=> Expired(status_time)
  BY <1>1 DEF Expired
<1>3. NotRegained'
  BY DEF NotRegained
<1> QED BY <1>1, <1>2, <1>3 DEF AuthorityInvariant, HistoryInvariant

\* The guards after one more record.
LEMMA RecordIs ==
  ASSUME NEW name, NEW ok \in BOOLEAN
  PROVE  /\ DOMAIN Record(name, ok) = DOMAIN guards \cup {name}
         /\ Record(name, ok)[name] = Said(ok)
         /\ \A g \in DOMAIN guards \ {name} : Record(name, ok)[g] = guards[g]
         /\ (\A g \in DOMAIN guards : guards[g] \in {"pass", "fail"}) =>
              \A g \in DOMAIN Record(name, ok) :
                Record(name, ok)[g] \in {"pass", "fail"}
BY DEF Record, Said

LEMMA IdentityIs ==
  ASSUME NEW faults
  PROVE  /\ DOMAIN Identity(faults) = Identities
         /\ \A g \in Identities : Identity(faults)[g] = Said(g \notin faults)
         /\ \A g \in Identities : Identity(faults)[g] \in {"pass", "fail"}
BY DEF Identity, Identities, Said

-----------------------------------------------------------------------------
(* The actions.                                                            *)

LEMMA InitHolds == Init => AuthorityInvariant
<1> SUFFICES ASSUME Init PROVE AuthorityInvariant
  OBVIOUS
<1>1. TypeOK
  BY IdentityIs DEF Init, TypeOK, Stages
<1>2. result = None /\ stage = "ready" /\ ~ withdrawn
  BY DEF Init
<1> QED BY <1>1, <1>2 DEF AuthorityInvariant, StageInvariant, ResultInvariant,
           HistoryInvariant, DecisiveIsEarned, NeverRefused, ViewsConform,
           GuardPassTells, NotRegained, SaysWithdrawn, Decisive, Returned

LEMMA Ended ==
  ASSUME stage' = "ready"
  PROVE  StageInvariant'
BY DEF StageInvariant

LEMMA MarkHolds == AuthorityInvariant /\ Mark => AuthorityInvariant'
<1> SUFFICES ASSUME AuthorityInvariant, Mark PROVE AuthorityInvariant'
  OBVIOUS
<1>1. /\ stage' = "ready" /\ marked' = TRUE /\ withdrawn' = withdrawn
      /\ UNCHANGED <<anchors, uncertainty, certificate, status_time, clock,
                     stage, operational, dominant, prefix, verdict,
                     proof_blocks, gate, guards, result>>
  BY DEF Mark, fixed, request
<1>2. TypeOK'
  BY <1>1 DEF AuthorityInvariant, TypeOK
<1>3. StageInvariant'
  BY <1>1, Ended
<1>4. ResultInvariant'
  BY <1>1 DEF AuthorityInvariant, ResultInvariant, DecisiveIsEarned, NeverRefused,
     ViewsConform, GuardPassTells, Decisive, Returned
<1>5. HistoryInvariant'
  BY <1>1 DEF AuthorityInvariant, HistoryInvariant, NotRegained, Decisive, Returned
<1> QED BY <1>2, <1>3, <1>4, <1>5 DEF AuthorityInvariant

\* An expired clock stays expired.
LEMMA ExpiredStays ==
  ASSUME NEW a \in HorizonAnchors, NEW u \in Nat, NEW t \in Int,
         NEW s \in Int, t <= s, status_clock(t, u, a).status = "expired"
  PROVE  status_clock(s, u, a).status = "expired"
<1> DEFINE h == a[Horizon(a)]
<1>1. a[0] \in Int /\ h \in Int
  <2>1. /\ Horizon(a) \in Nat /\ a \in [0..Horizon(a) -> Int]
    BY HorizonIs, ClockAssumption
  <2>2. 0 \in 0..Horizon(a) /\ Horizon(a) \in 0..Horizon(a)
    BY <2>1
  <2> QED BY <2>1, <2>2
<1>2. ~ (t + u < a[0]) /\ t - u > h
  BY DEF status_clock
<1> HIDE DEF h
<1>3. ~ (s + u < a[0]) /\ s - u > h
  BY <1>1, <1>2
<1> QED BY <1>3 DEF status_clock, h

LEMMA CallHolds == AuthorityInvariant /\ Call => AuthorityInvariant'
<1> SUFFICES ASSUME AuthorityInvariant, Call PROVE AuthorityInvariant'
  OBVIOUS
<1>1. /\ stage' = "certificate" /\ result' = None
      /\ ResultInvariant' /\ ~ Decisive' /\ ~ SaysWithdrawn'
  BY GoingOn DEF Call
<1>2. /\ anchors' = anchors /\ uncertainty' = uncertainty
      /\ certificate' = certificate /\ marked' = marked
      /\ status_time' \in StatusTimes /\ status_time <= status_time'
      /\ guards' = Identity({}) /\ operational' \in BOOLEAN
      /\ withdrawn' = (withdrawn \/ SaysWithdrawn)
      /\ dominant' = None /\ prefix' = None /\ verdict' = None /\ gate' = None
  BY DEF Call, fixed, AuthorityInvariant, TypeOK
<1>3. TypeOK'
  <2>1. \A g \in DOMAIN guards' : guards'[g] \in {"pass", "fail"}
    BY <1>2, IdentityIs
  <2> QED BY <1>1, <1>2, <2>1 DEF AuthorityInvariant, TypeOK, Stages
<1>4. StageInvariant'
  BY <1>1, <1>2, IdentityIs DEF StageInvariant, GuardsAt, Said
<1>5. HistoryInvariant'
  <2>1. withdrawn' => marked' \/ Expired(status_time)
    BY <1>2 DEF AuthorityInvariant, HistoryInvariant
  <2>2. Expired(status_time) => Expired(status_time)'
    <3>1. /\ anchors \in HorizonAnchors /\ uncertainty \in Nat
          /\ status_time \in Int /\ status_time' \in Int
      BY <1>2, ClockAssumption DEF AuthorityInvariant, TypeOK
    <3> QED BY <1>2, <3>1, ExpiredStays DEF Expired
  <2> QED BY <1>1, <2>1, <2>2 DEF HistoryInvariant, NotRegained
<1> QED BY <1>1, <1>3, <1>4, <1>5 DEF AuthorityInvariant

LEMMA InvalidCertificateHolds ==
  AuthorityInvariant /\ InvalidCertificate => AuthorityInvariant'
<1> SUFFICES ASSUME AuthorityInvariant, InvalidCertificate
             PROVE  AuthorityInvariant'
  OBVIOUS
<1>1. ResultInvariant' /\ ~ Decisive' /\ ~ SaysWithdrawn'
  BY WithoutView DEF InvalidCertificate
<1>2. stage' = "ready" /\ UNCHANGED <<fixed, status_time, clock, history, request>>
  BY DEF InvalidCertificate
<1>3. TypeOK'
  BY <1>1, <1>2 DEF AuthorityInvariant, TypeOK, Stages, fixed, history, request,
     ResultInvariant
<1>4. HistoryInvariant'
  BY <1>1, <1>2, Quiet
<1> QED BY <1>1, <1>2, <1>3, <1>4, Ended DEF AuthorityInvariant

LEMMA SyntheticTrustHolds ==
  AuthorityInvariant /\ SyntheticTrust => AuthorityInvariant'
<1> SUFFICES ASSUME AuthorityInvariant, SyntheticTrust
             PROVE  AuthorityInvariant'
  OBVIOUS
<1>1. /\ stage' = "ready" /\ ResultInvariant' /\ ~ Decisive' /\ ~ SaysWithdrawn'
  <2>1. ReturnStatus("unknown", {"checker_unknown"})
    BY DEF SyntheticTrust
  <2> QED BY <2>1, Returning DEF StatusCode
<1>2. /\ UNCHANGED <<fixed, status_time, clock, history, operational, dominant,
                     prefix, verdict, proof_blocks, gate>>
      /\ guards' = Record("SyntheticTrustExplicit", FALSE)
  BY DEF SyntheticTrust
<1>3. TypeOK'
  <2>1. \A g \in DOMAIN guards' : guards'[g] \in {"pass", "fail"}
    BY <1>2, RecordIs DEF AuthorityInvariant, TypeOK
  <2> QED BY <1>1, <1>2, <2>1 DEF AuthorityInvariant, TypeOK, Stages, fixed,
             history, ResultInvariant
<1>4. HistoryInvariant'
  BY <1>1, <1>2, Quiet
<1> QED BY <1>1, <1>3, <1>4, Ended DEF AuthorityInvariant

LEMMA ProposedUseHolds ==
  AuthorityInvariant /\ ProposedUse => AuthorityInvariant'
<1> SUFFICES ASSUME AuthorityInvariant, ProposedUse
             PROVE  AuthorityInvariant'
  OBVIOUS
<1>1. UNCHANGED <<fixed, status_time, clock, history, operational, dominant,
                  prefix, verdict, proof_blocks, gate>>
  BY DEF ProposedUse
<1>2. PICK faults \in SUBSET {"ReferenceResolved", "ContextWellFormed", "policy_gate"} :
        /\ guards' = Identity(faults)
        /\ IF faults = {} THEN GoOn("fold")
           ELSE ReturnStatus("out_of_frame",
                  {IF g = "policy_gate" THEN "policy_block" ELSE "out_of_frame" :
                     g \in faults})
  BY DEF ProposedUse
<1>3. \A g \in DOMAIN guards' : guards'[g] \in {"pass", "fail"}
  BY <1>2, IdentityIs
<1>4. CASE faults = {}
  <2>1. /\ stage' = "fold" /\ result' = None
        /\ ResultInvariant' /\ ~ Decisive' /\ ~ SaysWithdrawn'
    BY <1>2, <1>4, GoingOn
  <2>2. TypeOK'
    BY <1>1, <1>3, <2>1 DEF AuthorityInvariant, TypeOK, Stages, fixed, history
  <2>3. StageInvariant'
    BY <1>2, <1>4, <2>1, IdentityIs DEF StageInvariant, GuardsAt, Said
  <2> QED BY <1>1, <2>1, <2>2, <2>3, Quiet DEF AuthorityInvariant
<1>5. CASE faults # {}
  <2> DEFINE blocks == {IF g = "policy_gate" THEN "policy_block" ELSE "out_of_frame" :
                          g \in faults}
  <2>1. blocks # {} /\ ReturnStatus("out_of_frame", blocks)
    BY <1>2, <1>5
  <2> HIDE DEF blocks
  <2>2. stage' = "ready" /\ ResultInvariant' /\ ~ Decisive' /\ ~ SaysWithdrawn'
    BY <2>1, Returning DEF StatusCode
  <2>3. TypeOK'
    BY <1>1, <1>3, <2>2 DEF AuthorityInvariant, TypeOK, Stages, fixed, history,
       ResultInvariant
  <2> QED BY <1>1, <2>2, <2>3, Ended, Quiet DEF AuthorityInvariant
<1> QED BY <1>4, <1>5

\* What the guards of a stage are after the record of the stage.
LEMMA NextGuards ==
  ASSUME AuthorityInvariant, stage # "ready", NEW name, NEW ok \in BOOLEAN,
         guards' = Record(name, ok)
  PROVE  /\ DOMAIN guards' = GuardsAt(stage) \cup {name}
         /\ guards'[name] = Said(ok)
         /\ \A g \in GuardsAt(stage) \ {name} : guards'[g] = guards[g]
         /\ \A g \in GuardsAt(stage) \ (Informative \cup {name}) : guards'[g] = "pass"
         /\ \A g \in DOMAIN guards' : guards'[g] \in {"pass", "fail"}
<1>1. /\ DOMAIN guards = GuardsAt(stage)
      /\ \A g \in GuardsAt(stage) \ Informative : guards[g] = "pass"
      /\ \A g \in DOMAIN guards : guards[g] \in {"pass", "fail"}
  BY DEF AuthorityInvariant, StageInvariant, TypeOK
<1> DEFINE r == Record(name, ok)
<1>2. DOMAIN r = DOMAIN guards \cup {name}
  BY RecordIs
<1>3. r[name] = Said(ok)
  BY RecordIs, Zenon
<1>4. \A g \in DOMAIN guards \ {name} : r[g] = guards[g]
  BY RecordIs
<1>5. \A g \in DOMAIN r : r[g] \in {"pass", "fail"}
  BY <1>1, <1>2, <1>3, <1>4 DEF Said
<1>6. guards' = r
  OBVIOUS
<1> HIDE DEF r
<1>7. \A g \in GuardsAt(stage) \ (Informative \cup {name}) : guards'[g] = "pass"
  BY <1>1, <1>4, <1>6
<1>8. guards'[name] = Said(ok)
  BY <1>3, <1>6
<1> QED BY <1>1, <1>2, <1>4, <1>5, <1>6, <1>7, <1>8

LEMMA FoldHolds == AuthorityInvariant /\ Fold => AuthorityInvariant'
<1> SUFFICES ASSUME AuthorityInvariant, Fold PROVE AuthorityInvariant'
  OBVIOUS
<1>1. /\ stage = "fold"
      /\ UNCHANGED <<fixed, status_time, clock, history, operational, prefix,
                     verdict, proof_blocks, gate>>
  BY DEF Fold
<1>2. PICK status \in FoldStatuses :
        /\ dominant' = status
        /\ guards' = Record("status_active", status = "active")
        /\ IF status = "active" THEN GoOn("clock")
           ELSE ReturnStatus(status, {"lifecycle"})
  BY DEF Fold
<1>3. /\ status \in StatusCode
      /\ status = "active" => ~ marked
      /\ status \in {"expired", "revoked", "superseded"} => marked
  BY DEF FoldStatuses, StatusCode
<1>4. /\ DOMAIN guards' = Identities \cup {"status_active"}
      /\ guards'["status_active"] = Said(status = "active")
      /\ \A g \in Identities : guards'[g] = "pass"
      /\ \A g \in DOMAIN guards' : guards'[g] \in {"pass", "fail"}
  <2>1. GuardsAt(stage) = Identities
    BY <1>1 DEF GuardsAt
  <2>2. /\ DOMAIN guards' = GuardsAt(stage) \cup {"status_active"}
        /\ guards'["status_active"] = Said(status = "active")
        /\ \A g \in GuardsAt(stage) \ (Informative \cup {"status_active"}) :
             guards'[g] = "pass"
        /\ \A g \in DOMAIN guards' : guards'[g] \in {"pass", "fail"}
    BY <1>1, <1>2, NextGuards, Zenon
  <2>3. Identities \cap (Informative \cup {"status_active"}) = {}
    BY DEF Identities, Informative
  <2> QED BY <2>1, <2>2, <2>3
<1>5. CASE status = "active"
  <2>1. /\ stage' = "clock" /\ result' = None
        /\ ResultInvariant' /\ ~ Decisive' /\ ~ SaysWithdrawn'
    BY <1>2, <1>5, GoingOn
  <2>2. TypeOK'
    BY <1>1, <1>2, <1>3, <1>4, <2>1
    DEF AuthorityInvariant, TypeOK, Stages, fixed, history
  <2>3. StageInvariant'
    <3>1. GuardsAt("clock") = Identities \cup {"status_active"}
      BY DEF GuardsAt
    <3>2. \A g \in GuardsAt("clock") : guards'[g] = "pass"
      BY <1>4, <1>5, <3>1 DEF Said
    <3>3. dominant' = "active" /\ ~ marked'
      BY <1>1, <1>2, <1>3, <1>5 DEF history
    <3> QED BY <1>4, <2>1, <3>1, <3>2, <3>3 DEF StageInvariant
  <2> QED BY <1>1, <2>1, <2>2, <2>3, Quiet DEF AuthorityInvariant
<1>6. CASE status # "active"
  <2>1. /\ stage' = "ready" /\ ResultInvariant' /\ ~ Decisive'
        /\ SaysWithdrawn' => marked
    BY <1>2, <1>3, <1>6, Returning
  <2>2. TypeOK'
    BY <1>1, <1>2, <1>3, <1>4, <2>1
    DEF AuthorityInvariant, TypeOK, Stages, fixed, history, ResultInvariant
  <2> QED BY <1>1, <2>1, <2>2, Ended, Quiet DEF AuthorityInvariant
<1> QED BY <1>5, <1>6

LEMMA ClockHolds == AuthorityInvariant /\ Clock => AuthorityInvariant'
<1> SUFFICES ASSUME AuthorityInvariant, Clock PROVE AuthorityInvariant'
  OBVIOUS
<1> DEFINE inside == clock'.status = "active"
           fault == IF clock'.status = "expired" THEN "expired"
                    ELSE "clock_boundary_unknown"
<1>1. /\ stage = "clock"
      /\ UNCHANGED <<fixed, status_time, history, operational, dominant,
                     prefix, verdict, proof_blocks, gate>>
      /\ clock' = status_clock(status_time, uncertainty, anchors)
      /\ guards' = Record("clock_inside", inside)
      /\ IF inside THEN GoOn("prefix")
         ELSE ReturnStatus(ClockStatus(clock'), {fault})
  BY DEF Clock
<1>2. /\ DOMAIN guards' = Identities \cup {"status_active", "clock_inside"}
      /\ guards'["clock_inside"] = Said(inside)
      /\ \A g \in Identities \cup {"status_active"} : guards'[g] = "pass"
      /\ \A g \in DOMAIN guards' : guards'[g] \in {"pass", "fail"}
  <2>1. GuardsAt(stage) = Identities \cup {"status_active"}
    BY <1>1 DEF GuardsAt
  <2>2. /\ DOMAIN guards' = GuardsAt(stage) \cup {"clock_inside"}
        /\ guards'["clock_inside"] = Said(inside)
        /\ \A g \in GuardsAt(stage) \ (Informative \cup {"clock_inside"}) :
             guards'[g] = "pass"
        /\ \A g \in DOMAIN guards' : guards'[g] \in {"pass", "fail"}
    BY <1>1, NextGuards, Zenon
  <2>3. GuardsAt(stage) \cap (Informative \cup {"clock_inside"}) = {}
    BY <2>1 DEF Identities, Informative
  <2> QED BY <2>1, <2>2, <2>3
<1>3. dominant = "active" /\ ~ marked
  BY <1>1 DEF AuthorityInvariant, StageInvariant
<1>4. CASE inside
  <2>1. /\ stage' = "prefix" /\ result' = None
        /\ ResultInvariant' /\ ~ Decisive' /\ ~ SaysWithdrawn'
    BY <1>1, <1>4, GoingOn
  <2>2. TypeOK'
    BY <1>1, <1>2, <2>1 DEF AuthorityInvariant, TypeOK, Stages, fixed, history
  <2>3. StageInvariant'
    <3>1. GuardsAt("prefix") = Identities \cup {"status_active", "clock_inside"}
      BY DEF GuardsAt
    <3>2. \A g \in GuardsAt("prefix") : guards'[g] = "pass"
      BY <1>2, <1>4, <3>1 DEF Said
    <3>3. /\ dominant' = "active" /\ ~ marked'
          /\ clock' = status_clock(status_time, uncertainty, anchors)'
      BY <1>1, <1>3 DEF history, fixed
    <3> QED BY <1>2, <1>4, <2>1, <3>1, <3>2, <3>3 DEF StageInvariant
  <2> QED BY <1>1, <2>1, <2>2, <2>3, Quiet DEF AuthorityInvariant
<1>5. CASE ~ inside
  <2>1. ClockStatus(clock') \in {"expired", "unknown"}
    BY DEF ClockStatus
  <2>2. /\ stage' = "ready" /\ ResultInvariant' /\ ~ Decisive'
        /\ SaysWithdrawn' => ClockStatus(clock') = "expired"
    BY <1>1, <1>5, <2>1, Returning DEF StatusCode
  <2>3. SaysWithdrawn' => Expired(status_time)
    BY <1>1, <2>2 DEF ClockStatus, Expired
  <2>4. TypeOK'
    BY <1>1, <1>2, <2>2
    DEF AuthorityInvariant, TypeOK, Stages, fixed, history, ResultInvariant
  <2> QED BY <1>1, <2>2, <2>3, <2>4, Ended, Quiet DEF AuthorityInvariant
<1> QED BY <1>4, <1>5

LEMMA PrefixStageHolds ==
  ASSUME AuthorityInvariant, NEW decision, NEW p, NEW observed \in BOOLEAN,
         PrefixStage(decision, p, observed),
         decision = "prefix" =>
           /\ p.r \in 0..MaxHorizon /\ p.p_out \subseteq Prefix
           /\ ~ ExactPrefixEmpty(p)
  PROVE  AuthorityInvariant'
<1> DEFINE sound == decision = "prefix"
           before == Identities \cup {"status_active", "clock_inside"}
<1>1. /\ stage = "prefix"
      /\ UNCHANGED <<fixed, status_time, clock, history, operational, dominant,
                     verdict, proof_blocks, gate>>
      /\ guards' = Record("ExactPrefixEnclosure", sound)
      /\ sound => /\ prefix' = [r |-> p.r, p_star |-> p.p_star, p_out |-> p.p_out,
                                p_in |-> p.p_in, observed |-> observed]
                  /\ GoOn("validity")
      /\ ~ sound => ReturnStatus("unknown", {decision}) /\ prefix' = prefix
  BY DEF PrefixStage
<1>2. /\ DOMAIN guards' = before \cup {"ExactPrefixEnclosure"}
      /\ guards'["ExactPrefixEnclosure"] = Said(sound)
      /\ \A g \in before : guards'[g] = "pass"
      /\ \A g \in DOMAIN guards' : guards'[g] \in {"pass", "fail"}
  <2>1. GuardsAt(stage) = before
    BY <1>1 DEF GuardsAt
  <2>2. /\ DOMAIN guards' = GuardsAt(stage) \cup {"ExactPrefixEnclosure"}
        /\ guards'["ExactPrefixEnclosure"] = Said(sound)
        /\ \A g \in GuardsAt(stage) \ (Informative \cup {"ExactPrefixEnclosure"}) :
             guards'[g] = "pass"
        /\ \A g \in DOMAIN guards' : guards'[g] \in {"pass", "fail"}
    BY <1>1, NextGuards, Zenon
  <2>3. before \cap (Informative \cup {"ExactPrefixEnclosure"}) = {}
    BY DEF Identities, Informative
  <2> QED BY <2>1, <2>2, <2>3
<1>3. /\ dominant = "active" /\ ~ marked
      /\ clock = status_clock(status_time, uncertainty, anchors)
      /\ clock.status = "active"
  BY <1>1 DEF AuthorityInvariant, StageInvariant
<1>4. CASE sound
  <2>1. /\ stage' = "validity" /\ result' = None
        /\ ResultInvariant' /\ ~ Decisive' /\ ~ SaysWithdrawn'
    BY <1>1, <1>4, GoingOn
  <2>2. /\ prefix'.r = p.r /\ prefix'.p_star = p.p_star /\ prefix'.p_out = p.p_out
    BY <1>1, <1>4
  <2>3. TypeOK'
    BY <1>1, <1>2, <1>4, <2>1, <2>2
    DEF AuthorityInvariant, TypeOK, Stages, fixed, history
  <2>4. StageInvariant'
    <3>1. GuardsAt("validity") = before \cup {"ExactPrefixEnclosure"}
      BY DEF GuardsAt
    <3>2. \A g \in GuardsAt("validity") : guards'[g] = "pass"
      BY <1>2, <1>4, <3>1 DEF Said
    <3>3. /\ dominant' = "active" /\ ~ marked' /\ clock'.status = "active"
          /\ clock' = status_clock(status_time, uncertainty, anchors)'
      BY <1>1, <1>3 DEF history, fixed
    <3>4. ~ ExactPrefixEmpty(prefix)'
      BY <1>4, <2>2 DEF ExactPrefixEmpty
    <3> QED BY <1>2, <2>1, <3>1, <3>2, <3>3, <3>4 DEF StageInvariant
  <2> QED BY <1>1, <2>1, <2>3, <2>4, Quiet DEF AuthorityInvariant
<1>5. CASE ~ sound
  <2>1. stage' = "ready" /\ ResultInvariant' /\ ~ Decisive' /\ ~ SaysWithdrawn'
    BY <1>1, <1>5, Returning DEF StatusCode
  <2>2. TypeOK'
    BY <1>1, <1>2, <1>5, <2>1
    DEF AuthorityInvariant, TypeOK, Stages, fixed, history, ResultInvariant
  <2> QED BY <1>1, <2>1, <2>2, Ended, Quiet DEF AuthorityInvariant
<1> QED BY <1>4, <1>5

LEMMA PrefixesHold ==
  AuthorityInvariant /\ (ObservedPrefix \/ SuppliedPrefix \/ DefaultPrefix)
    => AuthorityInvariant'
<1> SUFFICES ASSUME AuthorityInvariant,
                    ObservedPrefix \/ SuppliedPrefix \/ DefaultPrefix
             PROVE  AuthorityInvariant'
  OBVIOUS
<1>1. CASE ObservedPrefix
  <2>1. PICK p \in [r : 0..MaxHorizon, p_star : SUBSET Prefix,
                    p_out : SUBSET Prefix, p_in : {None}],
             checked \in {"pass", "checker_unknown", "artifact_conflict"} :
          PrefixStage(admit_prefix(checked, p), p, TRUE)
    BY <1>1 DEF ObservedPrefix
  <2>2. p.r \in 0..MaxHorizon /\ p.p_out \subseteq Prefix
    OBVIOUS
  <2>3. admit_prefix(checked, p) = "prefix" => ~ ExactPrefixEmpty(p)
    BY DEF admit_prefix
  <2> QED BY <2>1, <2>2, <2>3, PrefixStageHolds
<1>2. CASE SuppliedPrefix
  <2>1. PICK p \in PrefixViews, passed \in BOOLEAN :
          PrefixStage(prefix_from_context(p, passed), p, FALSE)
    BY <1>2 DEF SuppliedPrefix
  <2>2. p.r \in 0..MaxHorizon /\ p.p_out \subseteq Prefix
    BY DEF PrefixViews
  <2>3. prefix_from_context(p, passed) = "prefix" => ~ ExactPrefixEmpty(p)
    BY DEF prefix_from_context
  <2> QED BY <2>1, <2>2, <2>3, PrefixStageHolds
<1>3. CASE DefaultPrefix
  <2> DEFINE p == [r |-> 0, p_star |-> Prefix, p_out |-> Prefix, p_in |-> None]
             decision == IF clock.index = 0 THEN "prefix" ELSE "prefix_unsound"
  <2>1. PrefixStage(decision, p, FALSE)
    BY <1>3 DEF DefaultPrefix
  <2>2. p.r \in 0..MaxHorizon /\ p.p_out \subseteq Prefix
    BY ClockAssumption
  <2>3. ~ ExactPrefixEmpty(p)
    BY DEF ExactPrefixEmpty
  <2> HIDE DEF p, decision
  <2> QED BY <2>1, <2>2, <2>3, PrefixStageHolds
<1> QED BY <1>1, <1>2, <1>3

\* What a call has found before its last stages, kept by the next one.
Settled ==
  /\ dominant = "active" /\ ~ marked
  /\ clock = status_clock(status_time, uncertainty, anchors)
  /\ clock.status = "active"
  /\ ~ ExactPrefixEmpty(prefix)

LEMMA SettledStays ==
  ASSUME Settled, UNCHANGED <<fixed, status_time, clock, history, dominant, prefix>>
  PROVE  Settled'
<1>1. UNCHANGED <<anchors, uncertainty, status_time, clock, marked, dominant, prefix>>
  BY DEF fixed, history
<1>2. ExactPrefixEmpty(prefix)' <=> ExactPrefixEmpty(prefix)
  BY <1>1 DEF ExactPrefixEmpty
<1> QED BY <1>1, <1>2 DEF Settled

LEMMA ValidityHolds == AuthorityInvariant /\ Validity => AuthorityInvariant'
<1> SUFFICES ASSUME AuthorityInvariant, Validity PROVE AuthorityInvariant'
  OBVIOUS
<1> DEFINE before == Identities \cup {"status_active", "clock_inside",
                                      "ExactPrefixEnclosure"}
<1>1. /\ stage = "validity"
      /\ UNCHANGED <<fixed, status_time, clock, history, operational, dominant,
                     prefix, verdict, proof_blocks, gate>>
  BY DEF Validity
<1>2. PICK validity \in {"pass", "conflict", "unknown", "expired"} :
        /\ guards' = Record("validity_pass", validity = "pass")
        /\ CASE validity = "pass" -> GoOn("sets")
             [] validity = "conflict" ->
                  ReturnStatus("conflict", {"validity_conflict"})
             [] OTHER -> ReturnStatus("unknown", {"validity_unknown"})
  BY DEF Validity
<1>3. /\ DOMAIN guards' = before \cup {"validity_pass"}
      /\ guards'["validity_pass"] = Said(validity = "pass")
      /\ \A g \in before : guards'[g] = "pass"
      /\ \A g \in DOMAIN guards' : guards'[g] \in {"pass", "fail"}
  <2>1. GuardsAt(stage) = before
    BY <1>1 DEF GuardsAt
  <2>2. /\ DOMAIN guards' = GuardsAt(stage) \cup {"validity_pass"}
        /\ guards'["validity_pass"] = Said(validity = "pass")
        /\ \A g \in GuardsAt(stage) \ (Informative \cup {"validity_pass"}) :
             guards'[g] = "pass"
        /\ \A g \in DOMAIN guards' : guards'[g] \in {"pass", "fail"}
    BY <1>1, <1>2, NextGuards, Zenon
  <2>3. before \cap (Informative \cup {"validity_pass"}) = {}
    BY DEF Identities, Informative
  <2> QED BY <2>1, <2>2, <2>3
<1>4. CASE validity = "pass"
  <2>1. /\ stage' = "sets" /\ result' = None
        /\ ResultInvariant' /\ ~ Decisive' /\ ~ SaysWithdrawn'
    BY <1>2, <1>4, GoingOn
  <2>2. TypeOK'
    BY <1>1, <1>3, <2>1 DEF AuthorityInvariant, TypeOK, Stages, fixed, history
  <2>3. StageInvariant'
    <3>1. GuardsAt("sets") = before \cup {"validity_pass"}
      BY DEF GuardsAt
    <3>2. \A g \in GuardsAt("sets") : guards'[g] = "pass"
      BY <1>3, <1>4, <3>1 DEF Said
    <3>3. Settled
      BY <1>1 DEF AuthorityInvariant, StageInvariant, Settled
    <3>4. Settled'
      BY <1>1, <3>3, SettledStays
    <3> QED BY <1>3, <2>1, <3>1, <3>2, <3>4 DEF StageInvariant, Settled
  <2> QED BY <1>1, <2>1, <2>2, <2>3, Quiet DEF AuthorityInvariant
<1>5. CASE validity # "pass"
  <2>1. stage' = "ready" /\ ResultInvariant' /\ ~ Decisive' /\ ~ SaysWithdrawn'
    <3>1. CASE validity = "conflict"
      BY <1>2, <3>1, Returning DEF StatusCode
    <3>2. CASE validity # "conflict"
      <4>1. ReturnStatus("unknown", {"validity_unknown"})
        BY <1>2, <1>5, <3>2
      <4> QED BY <4>1, Returning DEF StatusCode
    <3> QED BY <3>1, <3>2
  <2>2. TypeOK'
    BY <1>1, <1>3, <2>1
    DEF AuthorityInvariant, TypeOK, Stages, fixed, history, ResultInvariant
  <2> QED BY <1>1, <2>1, <2>2, Ended, Quiet DEF AuthorityInvariant
<1> QED BY <1>4, <1>5

LEMMA SetsHolds == AuthorityInvariant /\ Sets => AuthorityInvariant'
<1> SUFFICES ASSUME AuthorityInvariant, Sets PROVE AuthorityInvariant'
  OBVIOUS
<1> DEFINE before == Identities \cup {"status_active", "clock_inside",
                                      "ExactPrefixEnclosure", "validity_pass"}
           added == {"ArtifactConsistent", "SetRefSound"}
<1>1. /\ stage = "sets"
      /\ UNCHANGED <<fixed, status_time, clock, history, operational, dominant,
                     prefix, verdict, proof_blocks, gate>>
  BY DEF Sets
<1>2. PICK sound \in BOOLEAN :
        /\ guards' = [g \in DOMAIN guards \cup added |->
                        CASE g = "ArtifactConsistent" ->
                               IF certificate.artifacts THEN "pass" ELSE "fail"
                          [] g = "SetRefSound" -> IF sound THEN "pass" ELSE "fail"
                          [] OTHER -> guards[g]]
        /\ IF sound THEN GoOn("kernel")
           ELSE ReturnStatus("unknown", {IF certificate.sets THEN "checker_unknown"
                                         ELSE "missing_ref"})
  BY DEF Sets
<1>3. /\ DOMAIN guards = before
      /\ \A g \in before : guards[g] = "pass"
  <2>1. GuardsAt(stage) = before /\ before \cap Informative = {}
    BY <1>1 DEF GuardsAt, Identities, Informative
  <2> QED BY <1>1, <2>1 DEF AuthorityInvariant, StageInvariant
<1>4. before \cap added = {}
  BY DEF Identities
<1>5. /\ DOMAIN guards' = before \cup added
      /\ guards'["ArtifactConsistent"] = Said(certificate.artifacts)
      /\ guards'["SetRefSound"] = Said(sound)
      /\ \A g \in before : guards'[g] = "pass"
  BY <1>2, <1>3, <1>4 DEF Said
<1>6. \A g \in DOMAIN guards' : guards'[g] \in {"pass", "fail"}
  BY <1>5 DEF Said
<1>7. CASE sound
  <2>1. /\ stage' = "kernel" /\ result' = None
        /\ ResultInvariant' /\ ~ Decisive' /\ ~ SaysWithdrawn'
    BY <1>2, <1>7, GoingOn
  <2>2. TypeOK'
    BY <1>1, <1>6, <2>1 DEF AuthorityInvariant, TypeOK, Stages, fixed, history
  <2>3. StageInvariant'
    <3>1. GuardsAt("kernel") = before \cup added
      BY DEF GuardsAt
    <3>2. \A g \in GuardsAt("kernel") \ Informative : guards'[g] = "pass"
      BY <1>5, <1>7, <3>1 DEF Said, Informative
    <3>3. Settled
      BY <1>1 DEF AuthorityInvariant, StageInvariant, Settled
    <3>4. Settled'
      BY <1>1, <3>3, SettledStays
    <3>5. guards'["ArtifactConsistent"] = Said(certificate.artifacts)'
      BY <1>1, <1>5 DEF fixed, Said
    <3> QED BY <1>5, <2>1, <3>1, <3>2, <3>4, <3>5 DEF StageInvariant, Settled
  <2> QED BY <1>1, <2>1, <2>2, <2>3, Quiet DEF AuthorityInvariant
<1>8. CASE ~ sound
  <2>1. stage' = "ready" /\ ResultInvariant' /\ ~ Decisive' /\ ~ SaysWithdrawn'
    <3>1. PICK fault : ReturnStatus("unknown", {fault})
      BY <1>2, <1>8
    <3> QED BY <3>1, Returning DEF StatusCode
  <2>2. TypeOK'
    BY <1>1, <1>6, <2>1
    DEF AuthorityInvariant, TypeOK, Stages, fixed, history, ResultInvariant
  <2> QED BY <1>1, <2>1, <2>2, Ended, Quiet DEF AuthorityInvariant
<1> QED BY <1>7, <1>8

LEMMA UnsoundPrefixHolds ==
  AuthorityInvariant /\ UnsoundPrefix => AuthorityInvariant'
<1> SUFFICES ASSUME AuthorityInvariant, UnsoundPrefix
             PROVE  AuthorityInvariant'
  OBVIOUS
<1>1. ResultInvariant' /\ ~ Decisive' /\ ~ SaysWithdrawn'
  BY WithoutView DEF UnsoundPrefix
<1>2. stage' = "ready" /\ UNCHANGED <<fixed, status_time, clock, history, request>>
  BY DEF UnsoundPrefix
<1>3. TypeOK'
  BY <1>1, <1>2 DEF AuthorityInvariant, TypeOK, Stages, fixed, history, request,
     ResultInvariant
<1>4. HistoryInvariant'
  BY <1>1, <1>2, Quiet
<1> QED BY <1>1, <1>2, <1>3, <1>4, Ended DEF AuthorityInvariant

LEMMA KernelHolds == AuthorityInvariant /\ Kernel => AuthorityInvariant'
<1> SUFFICES ASSUME AuthorityInvariant, Kernel PROVE AuthorityInvariant'
  OBVIOUS
<1> DEFINE before == GuardsAt("kernel")
           checked == verdict' \notin {"unknown", "conflict"} /\ proof_blocks' = {}
<1>1. /\ stage = "kernel"
      /\ UNCHANGED <<fixed, status_time, clock, history, operational, dominant,
                     prefix, gate>>
      /\ GoOn("gate")
  BY DEF Kernel
<1>2. PICK answer \in Answers,
           faults \in SUBSET {"checker_unknown", "artifact_conflict"} :
        /\ verdict' = compared(answer, faults)
        /\ proof_blocks' = faults
        /\ guards' = Record("checker_obligations",
                            verdict' \notin {"unknown", "conflict"} /\ faults = {})
  BY DEF Kernel
<1>3. /\ stage' = "gate" /\ result' = None
      /\ ResultInvariant' /\ ~ Decisive' /\ ~ SaysWithdrawn'
  BY <1>1, GoingOn
<1>4. /\ verdict' \in VerdictCode
      /\ verdict' \in {"assert", "deny"} => ~ NothingResidual
      /\ proof_blocks' # {} => verdict' = "unknown"
  BY <1>2 DEF compared, Answers, VerdictCode
<1>5. /\ DOMAIN guards' = before \cup {"checker_obligations"}
      /\ guards'["checker_obligations"] = Said(checked)
      /\ \A g \in before \ (Informative \cup {"checker_obligations"}) :
           guards'[g] = "pass"
      /\ \A g \in DOMAIN guards' : guards'[g] \in {"pass", "fail"}
  <2>1. guards' = Record("checker_obligations", checked)
    BY <1>2
  <2> QED BY <1>1, <2>1, NextGuards, Zenon
<1>6. guards'["ArtifactConsistent"] = guards["ArtifactConsistent"]
  <2>1. /\ "ArtifactConsistent" \in DOMAIN guards
        /\ "ArtifactConsistent" # "checker_obligations"
    BY <1>1 DEF AuthorityInvariant, StageInvariant, GuardsAt
  <2> QED BY <1>2, <2>1 DEF Record
<1>7. TypeOK'
  BY <1>1, <1>3, <1>4, <1>5 DEF AuthorityInvariant, TypeOK, Stages, fixed, history
<1>8. StageInvariant'
  <2>1. GuardsAt("gate") = before \cup {"checker_obligations"}
    BY DEF GuardsAt, base_guards, Identities
  <2>2. \A g \in GuardsAt("gate") \ Informative : guards'[g] = "pass"
    BY <1>5, <2>1 DEF Informative
  <2>3. Settled
    BY <1>1 DEF AuthorityInvariant, StageInvariant, Settled
  <2>4. Settled'
    BY <1>1, <2>3, SettledStays
  <2>5. guards'["ArtifactConsistent"] = Said(certificate.artifacts)'
    BY <1>1, <1>6 DEF AuthorityInvariant, StageInvariant, fixed, Said
  <2>6. NothingResidual' <=> NothingResidual
    BY <1>1 DEF NothingResidual
  <2> QED BY <1>3, <1>4, <1>5, <2>1, <2>2, <2>4, <2>5, <2>6
          DEF StageInvariant, Settled, Said
<1> QED BY <1>1, <1>3, <1>7, <1>8, Quiet DEF AuthorityInvariant

LEMMA GateHolds == AuthorityInvariant /\ Gate => AuthorityInvariant'
<1> SUFFICES ASSUME AuthorityInvariant, Gate PROVE AuthorityInvariant'
  OBVIOUS
<1>1. /\ stage = "gate"
      /\ UNCHANGED <<fixed, status_time, clock, history, operational, dominant,
                     prefix, verdict, proof_blocks, guards>>
      /\ GoOn("outcome")
  BY DEF Gate
<1>2. /\ gate'.gate \in GateDecision
      /\ gate'.gate = "block" <=> gate'.blocks # {}
  BY GateIs DEF Gate
<1>3. /\ stage' = "outcome" /\ result' = None
      /\ ResultInvariant' /\ ~ Decisive' /\ ~ SaysWithdrawn'
  BY <1>1, GoingOn
<1>4. TypeOK'
  BY <1>1, <1>2, <1>3 DEF AuthorityInvariant, TypeOK, Stages, fixed, history
<1>5. StageInvariant'
  <2>1. GuardsAt("outcome") = GuardsAt("gate")
    BY DEF GuardsAt
  <2>2. Settled
    BY <1>1 DEF AuthorityInvariant, StageInvariant, Settled
  <2>3. Settled'
    BY <1>1, <2>2, SettledStays
  <2>4. NothingResidual' <=> NothingResidual
    BY <1>1 DEF NothingResidual
  <2>5. /\ DOMAIN guards' = GuardsAt("outcome")
        /\ \A g \in GuardsAt("outcome") \ Informative : guards'[g] = "pass"
        /\ guards'["ArtifactConsistent"] = Said(certificate.artifacts)'
        /\ verdict' \in VerdictCode
        /\ verdict' \in {"assert", "deny"} => ~ NothingResidual
        /\ proof_blocks' # {} => verdict' = "unknown"
        /\ guards'["checker_obligations"]
             = Said(verdict' \notin {"unknown", "conflict"} /\ proof_blocks' = {})
    BY <1>1, <2>1 DEF AuthorityInvariant, StageInvariant, fixed, Said
  <2> QED BY <1>2, <1>3, <2>3, <2>4, <2>5 DEF StageInvariant, Settled, Said
<1> QED BY <1>1, <1>3, <1>4, <1>5, Quiet DEF AuthorityInvariant

-----------------------------------------------------------------------------
(* The last stage.                                                         *)

LEMMA LastStage ==
  ASSUME AuthorityInvariant, stage = "outcome"
  PROVE  /\ Settled /\ result = None /\ ~ withdrawn
         /\ DOMAIN guards = base_guards \cup {"policy_gate"}
         /\ \A g \in (base_guards \cup {"policy_gate"}) \ Informative :
              guards[g] = "pass"
         /\ guards["ArtifactConsistent"] = Said(certificate.artifacts)
         /\ guards["checker_obligations"]
              = Said(verdict \notin {"unknown", "conflict"} /\ proof_blocks = {})
         /\ verdict \in VerdictCode
         /\ verdict \in {"assert", "deny"} => ~ NothingResidual
         /\ proof_blocks # {} => verdict = "unknown"
         /\ gate.gate \in GateDecision
         /\ gate.gate = "block" <=> gate.blocks # {}
<1>1. Settled
  BY DEF AuthorityInvariant, StageInvariant, Settled
<1>2. ~ withdrawn
  <2>1. ~ Expired(status_time)
    BY <1>1 DEF Settled, Expired
  <2> QED BY <1>1, <2>1 DEF Settled, AuthorityInvariant, HistoryInvariant
<1>3. GuardsAt("outcome") = base_guards \cup {"policy_gate"}
  BY DEF GuardsAt
<1> QED BY <1>1, <1>2, <1>3 DEF AuthorityInvariant, StageInvariant

\* What emit returns for an outcome that does not raise.
LEMMA Emitted ==
  ASSUME NEW outcome, NEW guardPass \in BOOLEAN,
         validate_authority_outcome(outcome), result' = emit(outcome, guardPass)
  PROVE  \/ result' = NoView("schema_invalid")
         \/ /\ SchemaAccepts(outcome, "active")
            /\ result'.kind = "view" /\ result'.outcome = outcome
            /\ result'.dominant = "active" /\ result'.guardPass = guardPass
            /\ result' # None => (Returned("view")')
<1>1. CASE SchemaAccepts(outcome, "active")
  <2>1. result' = [kind |-> "view", outcome |-> outcome, dominant |-> "active",
                   guardPass |-> guardPass]
    BY <1>1 DEF emit, View
  <2>2. /\ result'.kind = "view" /\ result'.outcome = outcome
        /\ result'.dominant = "active" /\ result'.guardPass = guardPass
    BY <2>1
  <2> QED BY <1>1, <2>2 DEF Returned
<1>2. CASE ~ SchemaAccepts(outcome, "active")
  BY <1>2 DEF emit
<1> QED BY <1>1, <1>2

\* The call is over and the step leaves the invariant.
LEMMA Over ==
  ASSUME AuthorityInvariant, stage = "outcome", stage' = "ready",
         UNCHANGED <<fixed, status_time, clock, history, request>>,
         ResultInvariant', ~ SaysWithdrawn'
  PROVE  AuthorityInvariant'
<1>1. TypeOK'
  BY DEF AuthorityInvariant, TypeOK, Stages, fixed, history, request,
     ResultInvariant
<1>2. ~ withdrawn'
  BY LastStage DEF history
<1>3. HistoryInvariant'
  BY <1>2 DEF HistoryInvariant, NotRegained
<1> QED BY <1>1, <1>3, Ended DEF AuthorityInvariant

LEMMA RepresentedHolds ==
  AuthorityInvariant /\ Represented => AuthorityInvariant'
<1> SUFFICES ASSUME AuthorityInvariant, Represented PROVE AuthorityInvariant'
  OBVIOUS
<1> DEFINE blocks == gate.blocks \cup proof_blocks
<1>1. /\ stage = "outcome" /\ ~ operational /\ stage' = "ready"
      /\ UNCHANGED <<fixed, status_time, clock, history, request>>
  BY DEF Represented
<1>2. /\ Settled
      /\ DOMAIN guards = base_guards \cup {"policy_gate"}
      /\ \A g \in (base_guards \cup {"policy_gate"}) \ Informative :
           guards[g] = "pass"
      /\ guards["ArtifactConsistent"] = Said(certificate.artifacts)
      /\ guards["checker_obligations"]
           = Said(verdict \notin {"unknown", "conflict"} /\ proof_blocks = {})
      /\ verdict \in VerdictCode
      /\ verdict \in {"assert", "deny"} => ~ NothingResidual
      /\ proof_blocks # {} => verdict = "unknown"
      /\ gate.gate \in GateDecision
      /\ gate.gate = "block" <=> gate.blocks # {}
  BY <1>1, LastStage
<1>3. PICK kernelReasons \in BOOLEAN :
        LET outcome == represented_outcome(verdict, gate.gate, blocks, kernelReasons)
        IN result' = emit(outcome, guard_pass(guards, required_guard_set(FALSE),
                                              outcome.blocks))
  BY DEF Represented
<1> DEFINE o == represented_outcome(verdict, gate.gate, blocks, kernelReasons)
           passed == guard_pass(guards, required_guard_set(FALSE), o.blocks)
<1>4. /\ blocks # {} => gate.gate = "block" \/ verdict = "unknown"
      /\ gate.gate = "block" => blocks # {}
  BY <1>2
<1>5. /\ validate_authority_outcome(o)
      /\ SchemaAccepts(o, "active") /\ o.code \in decisive_codes =>
           /\ o.code = verdict /\ verdict \in {"assert", "deny", "infeasible"}
           /\ blocks = {}
           /\ o.blocks = {}
           /\ gate.gate = "allow"
           /\ o.gate = "allow"
      /\ SchemaAccepts(o, "active") /\ o.blocks = {} => o.code \in decisive_codes
  <2> HIDE DEF blocks
  <2> QED BY <1>2, <1>3, <1>4, RepresentedIs
<1>6. result' = emit(o, passed)
  BY <1>3
<1> HIDE DEF o, blocks
<1>7. passed \in BOOLEAN
  BY DEF guard_pass
<1>8. passed <=> /\ \A g \in base_guards \cup {"policy_gate"} : guards[g] = "pass"
                 /\ o.blocks = {}
  BY <1>2 DEF guard_pass, required_guard_set
<1> HIDE DEF passed
<1>9. CASE result' = NoView("schema_invalid")
  <2>1. ResultInvariant' /\ ~ SaysWithdrawn'
    BY <1>9, WithoutView
  <2> QED BY <1>1, <2>1, Over
<1>10. CASE result' # NoView("schema_invalid")
  <2>1. /\ SchemaAccepts(o, "active")
        /\ result'.kind = "view" /\ result'.outcome = o
        /\ result'.dominant = "active" /\ result'.guardPass = passed
    BY <1>5, <1>6, <1>7, <1>10, Emitted, Zenon
  <2>2. UNCHANGED <<clock, certificate, operational, dominant, prefix, verdict,
                    proof_blocks, gate, guards>>
    BY <1>1 DEF fixed, request
  <2>3. SUFFICES ASSUME result' # None
                 PROVE  ResultInvariant' /\ ~ SaysWithdrawn'
    <3>1. CASE result' = None
      <4>1. ResultInvariant' /\ ~ SaysWithdrawn'
        BY <3>1 DEF ResultInvariant, DecisiveIsEarned, NeverRefused, ViewsConform,
           GuardPassTells, Returned, Decisive, SaysWithdrawn
      <4> QED BY <1>1, <4>1, Over
    <3>2. CASE result' # None
      BY <1>1, <2>3, <3>2, Over
    <3> QED BY <3>1, <3>2
  <2>4. /\ Decisive' <=> o.code \in decisive_codes
        /\ ~ (Returned("refused")') /\ Returned("view")'
    BY <2>1, <2>3 DEF Decisive, Returned
  <2>5. DecisiveIsEarned'
    <3> SUFFICES ASSUME o.code \in decisive_codes
                 PROVE  /\ dominant = "active" /\ clock.status = "active"
                        /\ \A g \in base_guards \ {"ArtifactConsistent"} :
                             g \in DOMAIN guards /\ guards[g] = "pass"
                        /\ proof_blocks = {} /\ gate.gate = "allow"
                        /\ o.gate = "allow" /\ o.blocks = {}
                        /\ verdict = CASE o.code = "accept" -> "assert"
                                       [] o.code = "reject" -> "deny"
                                       [] OTHER -> o.code
                        /\ verdict # "infeasible" =>
                             prefix.r = clock.index /\ prefix.p_star # {}
      BY <1>1, <2>1, <2>2, <2>4 DEF DecisiveIsEarned
    <3>1. /\ o.code = verdict /\ verdict \in {"assert", "deny", "infeasible"}
          /\ blocks = {} /\ o.blocks = {} /\ gate.gate = "allow" /\ o.gate = "allow"
      BY <1>5, <2>1
    <3>2. proof_blocks = {}
      BY <3>1 DEF blocks
    <3>3. guards["checker_obligations"] = "pass"
      BY <1>2, <3>1, <3>2 DEF Said
    <3>4. verdict # "infeasible" => prefix.r = clock.index /\ prefix.p_star # {}
      BY <1>2, <3>1 DEF NothingResidual, Settled, ExactPrefixEmpty
    <3>5. \A g \in base_guards \ {"ArtifactConsistent"} :
            g \in DOMAIN guards /\ guards[g] = "pass"
      BY <1>2, <3>3 DEF Informative
    <3>6. dominant = "active" /\ clock.status = "active"
      BY <1>2 DEF Settled
    <3> QED BY <3>1, <3>2, <3>4, <3>5, <3>6
  <2>6. ViewsConform'
    BY <2>1 DEF ViewsConform
  <2>7. GuardPassTells'
    <3>1. passed => o.code \in decisive_codes /\ certificate.artifacts
      <4>1. passed => guards["ArtifactConsistent"] = "pass"
        BY <1>8 DEF base_guards
      <4> QED BY <1>2, <1>5, <1>8, <2>1, <4>1 DEF Said
    <3>2. o.code \in decisive_codes /\ certificate.artifacts => passed
      <4> SUFFICES ASSUME o.code \in decisive_codes, certificate.artifacts
                   PROVE  passed
        OBVIOUS
      <4>1. /\ verdict \in {"assert", "deny", "infeasible"}
            /\ blocks = {} /\ o.blocks = {}
        BY <1>5, <2>1
      <4>2. guards["checker_obligations"] = "pass"
        BY <1>2, <4>1 DEF Said, blocks
      <4>3. guards["ArtifactConsistent"] = "pass"
        BY <1>2 DEF Said
      <4> QED BY <1>2, <1>8, <4>1, <4>2, <4>3 DEF Informative
    <3> QED BY <2>1, <2>2, <2>4, <3>1, <3>2 DEF GuardPassTells
  <2>8. NeverRefused' /\ ~ SaysWithdrawn' /\ result'.dominant \in StatusCode
    BY <2>1, <2>4 DEF NeverRefused, SaysWithdrawn, StatusCode
  <2> QED BY <2>5, <2>6, <2>7, <2>8 DEF ResultInvariant
<1> QED BY <1>9, <1>10

\* Objects that agree with the outcome meet every operational guard.
LEMMA AgreementMeetsGuards ==
  ASSUME NEW ops, NEW outcome, outcome.blocks = {},
         \/ outcome.code = "accept" /\ Agree(ops, "positive", "accept")
         \/ outcome.code = "reject" /\ Agree(ops, "negative", "reject"),
         NEW g \in DOMAIN OperationalGuards(ops, outcome)
  PROVE  OperationalGuards(ops, outcome)[g]
<1>1. DOMAIN OperationalGuards(ops, outcome) =
        {"completion_admission", "fiber_association", "prefix_adjudication",
         "usage_adjudication", "target_adjudication", "adequacy", "agreement"}
  BY DEF OperationalGuards
<1>2. CASE g = "completion_admission"
  <2>1. OperationalGuards(ops, outcome)[g] = ops.completion
    BY <1>2 DEF OperationalGuards
  <2> QED BY <2>1, Zenon DEF Agree
<1>3. CASE g = "fiber_association"
  BY <1>3 DEF OperationalGuards, Agree
<1>4. CASE g = "prefix_adjudication" \/ g = "usage_adjudication"
  <2>1. CASE g = "prefix_adjudication"
    BY <2>1 DEF OperationalGuards, Agree
  <2>2. CASE g = "usage_adjudication"
    BY <2>2 DEF OperationalGuards, Agree
  <2> QED BY <1>4, <2>1, <2>2
<1>5. CASE g = "target_adjudication"
  BY <1>5 DEF OperationalGuards, Agree
<1>6. CASE g = "adequacy"
  BY <1>6 DEF OperationalGuards, Agree
<1>7. CASE g = "agreement"
  BY <1>7 DEF OperationalGuards
<1> QED BY <1>1, <1>2, <1>3, <1>4, <1>5, <1>6, <1>7

LEMMA OperationalHolds ==
  AuthorityInvariant /\ Operational => AuthorityInvariant'
<1> SUFFICES ASSUME AuthorityInvariant, Operational PROVE AuthorityInvariant'
  OBVIOUS
<1> DEFINE blocks == gate.blocks \cup proof_blocks
<1>1. /\ stage = "outcome" /\ operational /\ stage' = "ready"
      /\ UNCHANGED <<fixed, status_time, clock, history, request>>
  BY DEF Operational
<1>2. /\ Settled
      /\ DOMAIN guards = base_guards \cup {"policy_gate"}
      /\ \A g \in (base_guards \cup {"policy_gate"}) \ Informative :
           guards[g] = "pass"
      /\ guards["ArtifactConsistent"] = Said(certificate.artifacts)
      /\ guards["checker_obligations"]
           = Said(verdict \notin {"unknown", "conflict"} /\ proof_blocks = {})
      /\ verdict \in VerdictCode
      /\ verdict \in {"assert", "deny"} => ~ NothingResidual
      /\ gate.gate \in GateDecision
      /\ gate.gate = "block" <=> gate.blocks # {}
  BY <1>1, LastStage
<1>3. PICK ops \in {ob \in Operationals : ob.derived = prefix.observed} :
        LET outcome == operational_outcome(verdict, gate.gate, blocks, ops)
            more == OperationalGuards(ops, outcome)
            records == [g \in DOMAIN guards \cup DOMAIN more |->
                          IF g \in DOMAIN more
                          THEN (IF more[g] THEN "pass" ELSE "fail")
                          ELSE guards[g]]
        IN result' = emit(outcome, guard_pass(records, required_guard_set(TRUE),
                                              outcome.blocks))
  BY DEF Operational
<1> DEFINE o == operational_outcome(verdict, gate.gate, blocks, ops)
           more == OperationalGuards(ops, o)
           records == [g \in DOMAIN guards \cup DOMAIN more |->
                         IF g \in DOMAIN more
                         THEN (IF more[g] THEN "pass" ELSE "fail")
                         ELSE guards[g]]
           passed == guard_pass(records, required_guard_set(TRUE), o.blocks)
<1>4. /\ validate_authority_outcome(o)
      /\ SchemaAccepts(o, "active") /\ o.code \in decisive_codes =>
           /\ \/ o.code = "accept" /\ verdict = "assert"
                 /\ Agree(ops, "positive", "accept")
              \/ o.code = "reject" /\ verdict = "deny"
                 /\ Agree(ops, "negative", "reject")
           /\ ops.derived
           /\ blocks = {}
           /\ o.blocks = {}
           /\ gate.gate = "allow"
           /\ o.gate = "allow"
      /\ o.blocks = {} => o.code \in {"accept", "reject"}
  <2>1. gate.gate = "block" => blocks # {}
    BY <1>2
  <2> HIDE DEF blocks
  <2> QED BY <1>2, <2>1, OperationalIs
<1>5. result' = emit(o, passed)
  BY <1>3
<1>6. ops.derived = prefix.observed
  BY <1>3
<1> HIDE DEF o, blocks
<1>7. passed \in BOOLEAN
  BY DEF guard_pass
<1>8. DOMAIN more =
        {"completion_admission", "fiber_association", "prefix_adjudication",
         "usage_adjudication", "target_adjudication", "adequacy", "agreement"}
  BY DEF OperationalGuards
<1> HIDE DEF more
<1>9. /\ DOMAIN records = base_guards \cup {"policy_gate"} \cup DOMAIN more
      /\ \A g \in base_guards : records[g] = guards[g]
      /\ records["policy_gate"] = guards["policy_gate"]
      /\ \A g \in DOMAIN more : records[g] = IF more[g] THEN "pass" ELSE "fail"
  BY <1>2, <1>8 DEF base_guards
<1>10. required_guard_set(TRUE) = DOMAIN records
  BY <1>8, <1>9 DEF required_guard_set
<1> HIDE DEF records
<1>11. passed <=> (\A g \in DOMAIN records : records[g] = "pass") /\ o.blocks = {}
  BY <1>10 DEF guard_pass
<1> HIDE DEF passed
<1>12. CASE result' = NoView("schema_invalid")
  <2>1. ResultInvariant' /\ ~ SaysWithdrawn'
    BY <1>12, WithoutView
  <2> QED BY <1>1, <2>1, Over
<1>13. CASE result' # NoView("schema_invalid")
  <2>1. /\ SchemaAccepts(o, "active")
        /\ result'.kind = "view" /\ result'.outcome = o
        /\ result'.dominant = "active" /\ result'.guardPass = passed
    BY <1>4, <1>5, <1>7, <1>13, Emitted, Zenon
  <2>2. UNCHANGED <<clock, certificate, operational, dominant, prefix, verdict,
                    proof_blocks, gate, guards>>
    BY <1>1 DEF fixed, request
  <2>3. SUFFICES ASSUME result' # None
                 PROVE  ResultInvariant' /\ ~ SaysWithdrawn'
    <3>1. CASE result' = None
      <4>1. ResultInvariant' /\ ~ SaysWithdrawn'
        BY <3>1 DEF ResultInvariant, DecisiveIsEarned, NeverRefused, ViewsConform,
           GuardPassTells, Returned, Decisive, SaysWithdrawn
      <4> QED BY <1>1, <4>1, Over
    <3>2. CASE result' # None
      BY <1>1, <2>3, <3>2, Over
    <3> QED BY <3>1, <3>2
  <2>4. /\ Decisive' <=> o.code \in decisive_codes
        /\ ~ (Returned("refused")') /\ Returned("view")'
    BY <2>1, <2>3 DEF Decisive, Returned
  <2>5. ASSUME o.code \in decisive_codes
        PROVE  /\ \/ o.code = "accept" /\ verdict = "assert"
                  \/ o.code = "reject" /\ verdict = "deny"
               /\ ops.derived /\ blocks = {} /\ o.blocks = {}
               /\ gate.gate = "allow" /\ o.gate = "allow"
               /\ proof_blocks = {} /\ guards["checker_obligations"] = "pass"
               /\ \A g \in DOMAIN more : more[g]
    <3>1. /\ \/ o.code = "accept" /\ verdict = "assert"
                /\ Agree(ops, "positive", "accept")
             \/ o.code = "reject" /\ verdict = "deny"
                /\ Agree(ops, "negative", "reject")
          /\ ops.derived
          /\ blocks = {} /\ o.blocks = {} /\ gate.gate = "allow" /\ o.gate = "allow"
      BY <1>4, <2>1, <2>5, Zenon
    <3>2. proof_blocks = {}
      BY <3>1 DEF blocks
    <3>3. guards["checker_obligations"] = "pass"
      BY <1>2, <3>1, <3>2 DEF Said
    <3>4. \A g \in DOMAIN more : more[g]
      BY <3>1, AgreementMeetsGuards, Zenon DEF more
    <3> QED BY <3>1, <3>2, <3>3, <3>4
  <2>6. DecisiveIsEarned'
    <3> SUFFICES ASSUME o.code \in decisive_codes
                 PROVE  /\ dominant = "active" /\ clock.status = "active"
                        /\ \A g \in base_guards \ {"ArtifactConsistent"} :
                             g \in DOMAIN guards /\ guards[g] = "pass"
                        /\ proof_blocks = {} /\ gate.gate = "allow"
                        /\ o.gate = "allow" /\ o.blocks = {}
                        /\ verdict = CASE o.code = "accept" -> "assert"
                                       [] o.code = "reject" -> "deny"
                                       [] OTHER -> o.code
                        /\ prefix.r = clock.index /\ prefix.p_star # {}
                        /\ prefix.observed
      BY <1>1, <2>1, <2>2, <2>4 DEF DecisiveIsEarned
    <3>1. prefix.r = clock.index /\ prefix.p_star # {}
      BY <1>2, <2>5 DEF NothingResidual, Settled, ExactPrefixEmpty
    <3>2. \A g \in base_guards \ {"ArtifactConsistent"} :
            g \in DOMAIN guards /\ guards[g] = "pass"
      BY <1>2, <2>5 DEF Informative
    <3>3. dominant = "active" /\ clock.status = "active"
      BY <1>2 DEF Settled
    <3>4. prefix.observed
      BY <1>6, <2>5
    <3>5. verdict = CASE o.code = "accept" -> "assert"
                      [] o.code = "reject" -> "deny"
                      [] OTHER -> o.code
      BY <2>5
    <3> QED BY <2>5, <3>1, <3>2, <3>3, <3>4, <3>5
  <2>7. ViewsConform'
    BY <2>1 DEF ViewsConform
  <2>8. GuardPassTells'
    <3>1. passed => o.code \in decisive_codes /\ certificate.artifacts
      <4> SUFFICES ASSUME passed
                   PROVE  o.code \in decisive_codes /\ certificate.artifacts
        OBVIOUS
      <4>1. o.code \in decisive_codes
        BY <1>4, <1>11 DEF decisive_codes, allow_codes
      <4>2. "ArtifactConsistent" \in base_guards
        BY DEF base_guards
      <4>3. guards["ArtifactConsistent"] = "pass"
        BY <1>9, <1>11, <4>2
      <4> QED BY <1>2, <4>1, <4>3 DEF Said
    <3>2. o.code \in decisive_codes /\ certificate.artifacts => passed
      <4> SUFFICES ASSUME o.code \in decisive_codes, certificate.artifacts
                   PROVE  passed
        OBVIOUS
      <4>1. guards["ArtifactConsistent"] = "pass"
        BY <1>2 DEF Said
      <4>2. \A g \in base_guards \cup {"policy_gate"} : guards[g] = "pass"
        BY <1>2, <2>5, <4>1 DEF Informative
      <4>3. \A g \in DOMAIN records : records[g] = "pass"
        BY <1>9, <2>5, <4>2
      <4> QED BY <1>11, <2>5, <4>3
    <3> QED BY <2>1, <2>2, <2>4, <3>1, <3>2 DEF GuardPassTells
  <2>9. NeverRefused' /\ ~ SaysWithdrawn' /\ result'.dominant \in StatusCode
    BY <2>1, <2>4 DEF NeverRefused, SaysWithdrawn, StatusCode
  <2> QED BY <2>6, <2>7, <2>8, <2>9 DEF ResultInvariant
<1> QED BY <1>12, <1>13

-----------------------------------------------------------------------------
LEMMA StepHolds == AuthorityInvariant /\ [Next]_vars => AuthorityInvariant'
<1> SUFFICES ASSUME AuthorityInvariant, [Next]_vars PROVE AuthorityInvariant'
  OBVIOUS
<1>1. CASE Next
  BY <1>1, MarkHolds, CallHolds, InvalidCertificateHolds, SyntheticTrustHolds,
     ProposedUseHolds, FoldHolds, ClockHolds, PrefixesHold, ValidityHolds,
     SetsHolds, UnsoundPrefixHolds, KernelHolds, GateHolds, RepresentedHolds,
     OperationalHolds DEF Next
<1>2. CASE UNCHANGED vars
  <2>1. UNCHANGED <<anchors, uncertainty, certificate, status_time, clock, marked,
                    withdrawn, stage, operational, dominant, prefix, verdict,
                    proof_blocks, gate, guards, result>>
    BY <1>2 DEF vars, fixed, history, request
  <2>2. TypeOK'
    BY <2>1 DEF AuthorityInvariant, TypeOK
  <2>3. StageInvariant'
    BY <2>1 DEF AuthorityInvariant, StageInvariant, ExactPrefixEmpty,
       NothingResidual
  <2>4. ResultInvariant'
    BY <2>1 DEF AuthorityInvariant, ResultInvariant, DecisiveIsEarned, NeverRefused,
       ViewsConform, GuardPassTells, Decisive, Returned
  <2>5. HistoryInvariant'
    BY <2>1 DEF AuthorityInvariant, HistoryInvariant, NotRegained, Decisive,
       Returned, SaysWithdrawn, Expired
  <2> QED BY <2>2, <2>3, <2>4, <2>5 DEF AuthorityInvariant
<1> QED BY <1>1, <1>2

LEMMA Invariance == Spec => []AuthorityInvariant
<1>1. Init => AuthorityInvariant
  BY InitHolds
<1>2. AuthorityInvariant /\ [Next]_vars => AuthorityInvariant'
  BY StepHolds
<1> QED BY <1>1, <1>2, PTL DEF Spec

(***************************************************************************)
(* Type correctness of _check_authority_core's state, at every stage.      *)
(***************************************************************************)
THEOREM AuthorityTypeCorrect == Spec => []TypeOK
<1>1. AuthorityInvariant => TypeOK
  BY DEF AuthorityInvariant
<1> QED BY <1>1, Invariance, PTL

(***************************************************************************)
(* A decisive outcome is earned: whatever a caller proposes, observes or   *)
(* supplies, _check_authority_core decides only with every base guard      *)
(* passed, an open gate, no block, and a kernel verdict on a nonempty      *)
(* prefix of the clock's index.                                            *)
(***************************************************************************)
THEOREM DecisionsAreEarned == Spec => []DecisiveIsEarned
<1>1. AuthorityInvariant => DecisiveIsEarned
  BY DEF AuthorityInvariant, ResultInvariant
<1> QED BY <1>1, Invariance, PTL

(***************************************************************************)
(* No outcome the stages build makes validate_authority_outcome raise.     *)
(***************************************************************************)
THEOREM OutcomesAreValid == Spec => []NeverRefused
<1>1. AuthorityInvariant => NeverRefused
  BY DEF AuthorityInvariant, ResultInvariant
<1> QED BY <1>1, Invariance, PTL

(***************************************************************************)
(* Every view satisfies the conditionals of its schema, the early ones of  *)
(* _status_view included, which are never put to it.                       *)
(***************************************************************************)
THEOREM ViewsAreWellFormed == Spec => []ViewsConform
<1>1. AuthorityInvariant => ViewsConform
  BY DEF AuthorityInvariant, ResultInvariant
<1> QED BY <1>1, Invariance, PTL

(***************************************************************************)
(* For a certificate that lists artifacts, the GuardPass record passes     *)
(* exactly in the views whose outcome is decisive.                         *)
(***************************************************************************)
THEOREM GuardPassIsTheDecision == Spec => []GuardPassTells
<1>1. AuthorityInvariant => GuardPassTells
  BY DEF AuthorityInvariant, ResultInvariant
<1> QED BY <1>1, Invariance, PTL

(***************************************************************************)
(* Once a view has said that the certificate is expired, revoked or        *)
(* superseded, no later call decides: the fold keeps the status event, and *)
(* a clock past the last anchor stays there as status time goes on.        *)
(***************************************************************************)
THEOREM AuthorityIsNotRegained == Spec => []NotRegained
<1>1. AuthorityInvariant => NotRegained
  BY DEF AuthorityInvariant, HistoryInvariant
<1> QED BY <1>1, Invariance, PTL

-----------------------------------------------------------------------------
(* The refinement of CertificateStanding.                                  *)

LEMMA MarkLapses == Mark => Abstract!Lapse
<1> SUFFICES ASSUME Mark PROVE Abstract!Lapse
  OBVIOUS
<1>1. /\ stage = "ready" /\ stage' = stage /\ marked' = TRUE /\ result' = result
  BY DEF Mark
<1>2. Told # "waiting"
  BY <1>1 DEF Told
<1>3. Told' = Told
  BY <1>1 DEF Told, Decisive, SaysWithdrawn, Returned
<1>4. Standing' = FALSE
  BY <1>1 DEF Standing
<1> QED BY <1>2, <1>3, <1>4 DEF Abstract!Lapse

LEMMA CallAsks == AuthorityInvariant /\ Call => Abstract!Ask
<1> SUFFICES ASSUME AuthorityInvariant, Call PROVE Abstract!Ask
  OBVIOUS
<1>1. /\ stage = "ready" /\ stage' = "certificate"
      /\ UNCHANGED <<anchors, uncertainty, marked>>
      /\ status_time' \in StatusTimes /\ status_time <= status_time'
  BY DEF Call, GoOn, fixed
<1>2. Told # "waiting" /\ Told' = "waiting"
  BY <1>1 DEF Told
<1>3. Expired(status_time) => Expired(status_time)'
  <2>1. /\ anchors \in HorizonAnchors /\ uncertainty \in Nat
        /\ status_time \in Int /\ status_time' \in Int
    BY <1>1, ClockAssumption DEF AuthorityInvariant, TypeOK
  <2> QED BY <1>1, <2>1, ExpiredStays DEF Expired
<1>4. Standing' \in BOOLEAN /\ (Standing' => Standing)
  BY <1>1, <1>3 DEF Standing
<1> QED BY <1>2, <1>4 DEF Abstract!Ask

\* Only Mark and Call disturb what the standing depends on.
LEMMA StandingStays ==
  ASSUME UNCHANGED <<fixed, status_time, history>>
  PROVE  Standing' = Standing
<1>1. UNCHANGED <<anchors, uncertainty, status_time, marked>>
  BY DEF fixed, history
<1> QED BY <1>1 DEF Standing, Expired

\* A stage answers the question, or hands it on.
LEMMA StageAnswers ==
  ASSUME AuthorityInvariant', stage # "ready", Standing' = Standing,
         Decisive' => Standing
  PROVE  [Abstract!SNext]_Abstract!svars
<1>1. Told = "waiting"
  BY DEF Told
<1>2. CASE stage' # "ready"
  <2>1. Told' = "waiting"
    BY <1>2 DEF Told
  <2> QED BY <1>1, <2>1 DEF Abstract!svars
<1>3. CASE stage' = "ready"
  <2>1. Told' \in {"decided", "withdrawn", "withheld"}
    BY <1>3 DEF Told
  <2>2. Told' = "decided" => Standing
    BY <1>3 DEF Told
  <2>3. Told' = "withdrawn" => SaysWithdrawn'
    BY <1>3 DEF Told
  <2>4. SaysWithdrawn' => ~ Standing'
    BY DEF AuthorityInvariant, HistoryInvariant, Standing
  <2>5. Abstract!Answer
    BY <1>1, <2>1, <2>2, <2>3, <2>4 DEF Abstract!Answer
  <2> QED BY <2>5 DEF Abstract!SNext
<1> QED BY <1>2, <1>3

\* Before the clock is read, no view is decisive.
LEMMA EarlyStages ==
  ASSUME AuthorityInvariant, AuthorityInvariant', stage \in {"certificate", "fold"},
         InvalidCertificate \/ SyntheticTrust \/ ProposedUse \/ Fold
  PROVE  ~ Decisive'
<1>1. DOMAIN guards = Identities
  BY DEF AuthorityInvariant, StageInvariant, GuardsAt
<1>2. "clock_inside" \notin DOMAIN guards'
  <2>1. CASE InvalidCertificate
    BY <1>1, <2>1 DEF InvalidCertificate, request, Identities
  <2>2. CASE SyntheticTrust
    <3>1. guards' = Record("SyntheticTrustExplicit", FALSE)
      BY <2>2 DEF SyntheticTrust
    <3>2. DOMAIN guards' = DOMAIN guards \cup {"SyntheticTrustExplicit"}
      BY <3>1, RecordIs
    <3> QED BY <1>1, <3>2 DEF Identities
  <2>3. CASE ProposedUse
    BY <2>3, IdentityIs DEF ProposedUse, Identities
  <2>4. CASE Fold
    <3>1. PICK status \in FoldStatuses :
            guards' = Record("status_active", status = "active")
      BY <2>4 DEF Fold
    <3>2. DOMAIN guards' = DOMAIN guards \cup {"status_active"}
      BY <3>1, RecordIs
    <3> QED BY <1>1, <3>2 DEF Identities
  <2> QED BY <2>1, <2>2, <2>3, <2>4
<1>3. "clock_inside" \in base_guards \ {"ArtifactConsistent"}
  BY DEF base_guards
<1> QED BY <1>2, <1>3 DEF AuthorityInvariant, ResultInvariant, DecisiveIsEarned

\* When the clock is read, a decisive view would need it active.
LEMMA ClockStage ==
  ASSUME AuthorityInvariant, AuthorityInvariant', Clock
  PROVE  Decisive' => Standing
<1>1. stage = "clock" /\ ~ marked
  BY DEF Clock, AuthorityInvariant, StageInvariant
<1>2. clock' = status_clock(status_time, uncertainty, anchors)
  BY DEF Clock
<1>3. Decisive' => clock'.status = "active"
  BY DEF AuthorityInvariant, ResultInvariant, DecisiveIsEarned
<1> QED BY <1>1, <1>2, <1>3 DEF Standing, Expired

\* After it, the certificate has standing for the rest of the call.
LEMMA LateStages ==
  ASSUME AuthorityInvariant,
         stage \in {"prefix", "validity", "sets", "kernel", "gate", "outcome"}
  PROVE  Standing
<1>1. /\ ~ marked
      /\ clock = status_clock(status_time, uncertainty, anchors)
      /\ clock.status = "active"
  BY DEF AuthorityInvariant, StageInvariant
<1> QED BY <1>1 DEF Standing, Expired

LEMMA StandingStep ==
  AuthorityInvariant /\ AuthorityInvariant' /\ [Next]_vars
    => [Abstract!SNext]_Abstract!svars
<1> SUFFICES ASSUME AuthorityInvariant, AuthorityInvariant', [Next]_vars
             PROVE  [Abstract!SNext]_Abstract!svars
  OBVIOUS
<1>1. CASE Mark
  BY <1>1, MarkLapses DEF Abstract!SNext
<1>2. CASE Call
  BY <1>2, CallAsks DEF Abstract!SNext
<1>3. CASE InvalidCertificate \/ SyntheticTrust \/ ProposedUse \/ Fold
  <2>1. /\ stage \in {"certificate", "fold"}
        /\ UNCHANGED <<fixed, status_time, history>>
    BY <1>3 DEF InvalidCertificate, SyntheticTrust, ProposedUse, Fold
  <2> QED BY <1>3, <2>1, EarlyStages, StandingStays, StageAnswers
<1>4. CASE Clock
  <2>1. stage = "clock" /\ UNCHANGED <<fixed, status_time, history>>
    BY <1>4 DEF Clock
  <2> QED BY <1>4, <2>1, ClockStage, StandingStays, StageAnswers
<1>5. CASE \/ ObservedPrefix \/ SuppliedPrefix \/ DefaultPrefix
           \/ Validity \/ Sets \/ UnsoundPrefix \/ Kernel \/ Gate
           \/ Represented \/ Operational
  <2>1. /\ stage \in {"prefix", "validity", "sets", "kernel", "gate", "outcome"}
        /\ UNCHANGED <<fixed, status_time, history>>
    <3>1. CASE ObservedPrefix \/ SuppliedPrefix \/ DefaultPrefix
      BY <3>1 DEF ObservedPrefix, SuppliedPrefix, DefaultPrefix, PrefixStage
    <3>2. CASE \/ Validity \/ Sets \/ UnsoundPrefix \/ Kernel \/ Gate
               \/ Represented \/ Operational
      BY <3>2 DEF Validity, Sets, UnsoundPrefix, Kernel, Gate, Represented,
         Operational
    <3> QED BY <1>5, <3>1, <3>2
  <2>2. Standing
    BY <2>1, LateStages
  <2> QED BY <2>1, <2>2, StandingStays, StageAnswers
<1>6. CASE UNCHANGED vars
  <2>1. UNCHANGED <<anchors, uncertainty, status_time, marked, stage, result>>
    BY <1>6 DEF vars, fixed, history
  <2>2. Standing' = Standing
    BY <2>1 DEF Standing, Expired
  <2>3. Told' = Told
    BY <2>1 DEF Told, Decisive, SaysWithdrawn, Returned
  <2> QED BY <2>2, <2>3 DEF Abstract!svars
<1> QED BY <1>1, <1>2, <1>3, <1>4, <1>5, <1>6 DEF Next

(***************************************************************************)
(* The stages of _check_authority_core implement CertificateStanding: seen *)
(* from outside, a call asks once and is answered once, decisively only    *)
(* while the certificate is in force, and with expired, revoked or         *)
(* superseded only when it is not; standing is never restored.             *)
(***************************************************************************)
THEOREM StandingIsImplemented == Spec => ImplementsStanding
<1>1. Init => Abstract!SInit
  <2> SUFFICES ASSUME Init PROVE Abstract!SInit
    OBVIOUS
  <2>1. Told = "withheld"
    BY DEF Init, Told, Decisive, Returned, SaysWithdrawn
  <2>2. Standing \in BOOLEAN
    BY DEF Standing
  <2> QED BY <2>1, <2>2 DEF Abstract!SInit
<1>2. AuthorityInvariant /\ AuthorityInvariant' /\ [Next]_vars
        => [Abstract!SNext]_Abstract!svars
  BY StandingStep
<1> QED BY <1>1, <1>2, Invariance, PTL DEF Spec, ImplementsStanding, Abstract!SSpec
=============================================================================
