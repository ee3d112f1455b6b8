------------------------- MODULE LifecycleFoldProofs -------------------------
(***************************************************************************)
(* Proofs about LifecycleFold: its type invariant, that an "active" result *)
(* is exactly an unblocked one, that no status event of the certificate is *)
(* lost, that a longer log never weakens a verdict, and that the loop      *)
(* implements the meaning of the log (LifecycleLedger), for every set of   *)
(* events, orders and log length.                                          *)
(***************************************************************************)
EXTENDS LifecycleFold, FiniteSetTheorems, TLAPS

(***************************************************************************)
(* The two tables of lifecycle.py: a mapped kind sets a status of the      *)
(* protocol other than "active", no stronger than "conflict".              *)
(***************************************************************************)
LEMMA Priorities ==
  /\ \A s \in StatusCode : STATUS_PRIORITY[s] \in 0..7
  /\ \A s \in StatusCode : STATUS_PRIORITY[s] = 0 <=> s = "active"
  /\ STATUS_PRIORITY["unknown"] = 1
  /\ STATUS_PRIORITY["conflict"] = 6
BY DEF STATUS_PRIORITY, StatusCode

LEMMA Tables ==
  \A k \in StatusKind :
    /\ EVENT_TO_STATUS[k] \in StatusCode \ {"active", "invalid"}
    /\ FailureOf[k] \in FailureCode
    /\ STATUS_PRIORITY[EVENT_TO_STATUS[k]] \in 1..6
BY DEF STATUS_PRIORITY, StatusCode, StatusKind, EVENT_TO_STATUS, FailureOf,
       FailureCode

(***************************************************************************)
(* dominant_status returns a member of the set that is at least as strong  *)
(* as every other member.                                                  *)
(***************************************************************************)
LEMMA DominantIsStrongest ==
  ASSUME NEW S \in SUBSET StatusCode, S # {}
  PROVE  /\ dominant_status(S) \in S
         /\ \A t \in S : STATUS_PRIORITY[t] <= STATUS_PRIORITY[dominant_status(S)]
<1>1. \E s \in S : \A t \in S : STATUS_PRIORITY[t] <= STATUS_PRIORITY[s]
  <2>1. \A t \in S : t \in StatusCode
    OBVIOUS
  <2> DEFINE Top(s) == \A t \in S : STATUS_PRIORITY[t] <= STATUS_PRIORITY[s]
  <2>2. CASE "invalid" \in S
    <3>1. Top("invalid")
      BY <2>1, <2>2 DEF STATUS_PRIORITY, StatusCode
    <3> QED BY <2>2, <3>1
  <2>3. CASE "invalid" \notin S /\ "conflict" \in S
    <3>1. Top("conflict")
      BY <2>1, <2>3 DEF STATUS_PRIORITY, StatusCode
    <3> QED BY <2>3, <3>1
  <2>4. CASE S \cap {"invalid", "conflict"} = {} /\ "revoked" \in S
    <3>1. Top("revoked")
      BY <2>1, <2>4 DEF STATUS_PRIORITY, StatusCode
    <3> QED BY <2>4, <3>1
  <2>5. CASE /\ S \cap {"invalid", "conflict", "revoked"} = {}
             /\ "superseded" \in S
    <3>1. Top("superseded")
      BY <2>1, <2>5 DEF STATUS_PRIORITY, StatusCode
    <3> QED BY <2>5, <3>1
  <2>6. CASE /\ S \cap {"invalid", "conflict", "revoked", "superseded"} = {}
             /\ "expired" \in S
    <3>1. Top("expired")
      BY <2>1, <2>6 DEF STATUS_PRIORITY, StatusCode
    <3> QED BY <2>6, <3>1
  <2>7. CASE S \subseteq {"active", "unknown", "out_of_frame"} /\ "out_of_frame" \in S
    <3>1. Top("out_of_frame")
      BY <2>7 DEF STATUS_PRIORITY, StatusCode
    <3> QED BY <2>7, <3>1
  <2>8. CASE S \subseteq {"active", "unknown"} /\ "unknown" \in S
    <3>1. Top("unknown")
      BY <2>8 DEF STATUS_PRIORITY, StatusCode
    <3> QED BY <2>8, <3>1
  <2>9. CASE S = {"active"}
    <3>1. Top("active")
      BY <2>9 DEF STATUS_PRIORITY, StatusCode
    <3> QED BY <2>9, <3>1
  <2> QED
    BY <2>1, <2>2, <2>3, <2>4, <2>5, <2>6, <2>7, <2>8, <2>9 DEF StatusCode
<1> QED
  BY <1>1 DEF dominant_status

(***************************************************************************)
(* The loop invariant.  InStep: the lists statuses and blocks are both     *)
(* still as they began, or neither is.  Kept: what an event that has been  *)
(* through the loop requires of the statuses.                              *)
(***************************************************************************)
InStep(f) == f.blocks = {} <=> f.statuses = {"active"}

Kept(f, e, o) ==
  Relevant(e, o) /\ e.kind \in StatusKind =>
    \E t \in f.statuses : STATUS_PRIORITY[t] >= Floor(e, o)

LoopInv ==
  /\ InStep(acc)
  /\ \A i \in handled : Kept(acc, log[i], order)

Inv == TypeOK /\ LoopInv /\ ActiveIffUnblocked /\ NothingLost

(***************************************************************************)
(* The pieces a turn is made of.  Saw, Remember and Admit touch neither    *)
(* list; Block adds to both.                                               *)
(***************************************************************************)
SameLists(f, g) == g.statuses = f.statuses /\ g.blocks = f.blocks

LEMMA Bookkeeping ==
  ASSUME NEW f, NEW e \in Events, NEW o \in Orders, FoldType(f)
  PROVE  /\ FoldType(Saw(f, e, o)) /\ SameLists(f, Saw(f, e, o))
         /\ FoldType(Remember(f, e)) /\ SameLists(f, Remember(f, e))
         /\ FoldType(Admit(f, e)) /\ SameLists(f, Admit(f, e))
<1>1. e.id \in EventId
  BY EventsAssumption
<1>2. FoldType(Saw(f, e, o)) /\ SameLists(f, Saw(f, e, o))
  <2> DEFINE g == Saw(f, e, o)
  <2>1. /\ HasShape(g)
        /\ \A x \in Locals \ {"acceptedSeen"} : g[x] = f[x]
        /\ g.acceptedSeen \subseteq f.acceptedSeen \cup {e.id}
    BY DEF FoldType, HasShape, Locals, Saw
  <2> HIDE DEF g
  <2> QED
    BY <1>1, <2>1 DEF g, FoldType, SameLists, Locals
<1>3. FoldType(Remember(f, e)) /\ SameLists(f, Remember(f, e))
  <2> DEFINE g == Remember(f, e)
  <2>1. /\ HasShape(g)
        /\ \A x \in Locals \ {"seenIds"} : g[x] = f[x]
        /\ g.seenIds = f.seenIds \cup {e.id}
    BY DEF FoldType, HasShape, Locals, Remember
  <2> HIDE DEF g
  <2> QED
    BY <1>1, <2>1 DEF g, FoldType, SameLists, Locals
<1>4. FoldType(Admit(f, e)) /\ SameLists(f, Admit(f, e))
  <2> DEFINE r == Remember(f, e)
             g == Admit(f, e)
  <2>1. FoldType(r) /\ SameLists(f, r)
    BY <1>3
  <2>2. HasShape(g) /\ \A x \in Locals \ {"seenHashes"} : g[x] = r[x]
    BY <2>1 DEF FoldType, HasShape, Locals, Admit
  <2> HIDE DEF g, r
  <2> QED
    BY <2>1, <2>2 DEF g, r, FoldType, SameLists, Locals
<1> QED
  BY <1>2, <1>3, <1>4

LEMMA Blocking ==
  ASSUME NEW f, NEW e \in Events, NEW code \in FailureCode,
         NEW status \in StatusCode \ {"active"}, FoldType(f)
  PROVE  LET g == Block(f, e, code, status) IN
           /\ FoldType(g)
           /\ InStep(g)
           /\ g.statuses = f.statuses \cup {status}
<1>1. e.id \in EventId
  BY EventsAssumption
<1> DEFINE g == Block(f, e, code, status)
<1>2. /\ HasShape(g)
      /\ \A x \in Locals \ {"blocks", "statuses"} : g[x] = f[x]
      /\ g.statuses = f.statuses \cup {status}
      /\ g.blocks = f.blocks \cup {<<code, e.id>>}
  BY DEF Block, FoldType, HasShape, Locals
<1> HIDE DEF g
<1>3. FoldType(g)
  BY <1>1, <1>2 DEF FoldType, Locals
<1>4. InStep(g)
  BY <1>2 DEF InStep
<1> QED
  BY <1>2, <1>3, <1>4 DEF g

LEMMA Applying ==
  ASSUME NEW f, NEW e \in Events, e.kind \in StatusKind, FoldType(f)
  PROVE  LET g == Apply(f, e) IN
           /\ FoldType(g)
           /\ InStep(g)
           /\ g.statuses = f.statuses \cup {EVENT_TO_STATUS[e.kind]}
<1> DEFINE status == EVENT_TO_STATUS[e.kind]
           b == Block(f, e, FailureOf[e.kind], status)
           clocks == [c \in DOMAIN b.clocks \cup {e.clock} |->
                        IF c = e.clock THEN [id |-> e.id, status |-> status]
                                       ELSE b.clocks[c]]
           coordinates == b.coordinates \cup {<<e.kind, status, e.id>>}
<1>1. Apply(f, e) = [b EXCEPT !.clocks = clocks, !.coordinates = coordinates]
  BY DEF Apply
<1>2. /\ FoldType(b)
      /\ InStep(b)
      /\ b.statuses = f.statuses \cup {status}
  BY Tables, Blocking
<1>3. e.id \in EventId /\ status \in StatusCode
  BY EventsAssumption, Tables
<1>4. \A c \in DOMAIN clocks :
        clocks[c].id \in EventId /\ clocks[c].status \in StatusCode
  BY <1>2, <1>3 DEF FoldType
<1>5. coordinates \subseteq StatusKind \X StatusCode \X EventId
  BY <1>2, <1>3 DEF FoldType
<1> DEFINE g == Apply(f, e)
<1>6. /\ HasShape(g)
      /\ \A x \in Locals \ {"clocks", "coordinates"} : g[x] = b[x]
      /\ g.clocks = clocks
      /\ g.coordinates = coordinates
  <2> HIDE DEF clocks, coordinates, b
  <2> QED BY <1>1, <1>2 DEF FoldType, HasShape, Locals
<1> HIDE DEF g, clocks, coordinates, b
<1> QED
  BY <1>2, <1>4, <1>5, <1>6 DEF g, FoldType, InStep, Locals

(***************************************************************************)
(* One turn of the loop keeps the locals well typed and in step, forgets   *)
(* no status, and accounts for the event it handles.                       *)
(***************************************************************************)
LEMMA TurnOfLoop ==
  ASSUME NEW f, NEW e \in Events, NEW o \in Orders, FoldType(f), InStep(f)
  PROVE  LET g == FoldEvent(f, e, o) IN
           /\ FoldType(g)
           /\ InStep(g)
           /\ f.statuses \subseteq g.statuses
           /\ "invalid" \in g.statuses => "invalid" \in f.statuses
           /\ Kept(g, e, o)
<1> DEFINE seen == Saw(f, e, o)
           g == FoldEvent(f, e, o)
           branch == Branch(f, e, o)
<1>1. FoldType(seen) /\ SameLists(f, seen)
  BY Bookkeeping
<1>2. /\ "conflict" \in StatusCode \ {"active"}
      /\ "unknown" \in StatusCode \ {"active"}
      /\ "trace_conflict" \in FailureCode
      /\ "policy_block" \in FailureCode
  BY DEF StatusCode, FailureCode
<1>3. e.kind \in StatusKind => Floor(e, o) \in 0..6 /\ Floor(e, o) <= STATUS_PRIORITY["conflict"]
  BY Tables, Priorities DEF Floor
<1> DEFINE blocked == Block(seen, e, "trace_conflict", "conflict")
<1>4. /\ FoldType(blocked) /\ InStep(blocked)
      /\ blocked.statuses = f.statuses \cup {"conflict"}
  BY <1>1, <1>2, Blocking DEF SameLists
<1>5. CASE branch = "skip"
  <2>1. g = f
    BY <1>5 DEF FoldEvent
  <2>2. ~ Relevant(e, o)
    BY <1>5 DEF Branch
  <2> QED
    BY <2>1, <2>2 DEF Kept
<1>6. CASE branch = "exclude"
  <2>1. g = blocked
    BY <1>6 DEF FoldEvent
  <2> QED
    BY <1>3, <1>4, <2>1 DEF Kept
<1>7. CASE branch = "reject"
  <2>1. g = Remember(blocked, e)
    BY <1>7 DEF FoldEvent
  <2>2. FoldType(g) /\ SameLists(blocked, g)
    BY <1>4, <2>1, Bookkeeping
  <2> QED
    BY <1>3, <1>4, <2>2 DEF Kept, SameLists, InStep
<1>8. CASE branch = "other_policy"
  <2> DEFINE b == Block(seen, e, "policy_block", "unknown")
  <2>1. g = Remember(b, e)
    BY <1>8 DEF FoldEvent
  <2>2. FoldType(b) /\ InStep(b) /\ b.statuses = f.statuses \cup {"unknown"}
    BY <1>1, <1>2, Blocking DEF SameLists
  <2>3. FoldType(g) /\ SameLists(b, g)
    BY <2>1, <2>2, Bookkeeping
  <2>4. OtherPolicy(e, o)
    BY <1>8 DEF Branch
  <2>5. Floor(e, o) = STATUS_PRIORITY["unknown"] /\ STATUS_PRIORITY["unknown"] = 1
    BY <2>4, Priorities DEF Floor
  <2> QED
    BY <2>2, <2>3, <2>5 DEF Kept, SameLists, InStep
<1>9. CASE branch = "note"
  <2>1. g = Admit(seen, e)
    BY <1>9 DEF FoldEvent
  <2>2. FoldType(g) /\ SameLists(f, g)
    BY <1>1, <2>1, Bookkeeping DEF SameLists
  <2>3. e.kind \notin StatusKind
    BY <1>9 DEF Branch
  <2> QED
    BY <2>2, <2>3 DEF Kept, SameLists, InStep
<1>10. CASE branch = "disagree"
  <2> DEFINE a == Admit(seen, e)
  <2>1. g = Block(a, e, "trace_conflict", "conflict")
    BY <1>10 DEF FoldEvent
  <2>2. FoldType(a) /\ SameLists(f, a)
    BY <1>1, Bookkeeping DEF SameLists
  <2>3. FoldType(g) /\ InStep(g) /\ g.statuses = f.statuses \cup {"conflict"}
    BY <1>2, <2>1, <2>2, Blocking DEF SameLists
  <2> QED
    BY <1>3, <2>3 DEF Kept
<1>11. CASE branch = "apply"
  <2> DEFINE a == Admit(seen, e)
  <2>1. g = Apply(a, e)
    BY <1>11 DEF FoldEvent
  <2>2. FoldType(a) /\ SameLists(f, a)
    BY <1>1, Bookkeeping DEF SameLists
  <2>3. e.kind \in StatusKind /\ ~ OtherPolicy(e, o)
    BY <1>11 DEF Branch
  <2>4. /\ FoldType(g) /\ InStep(g)
        /\ g.statuses = f.statuses \cup {EVENT_TO_STATUS[e.kind]}
    BY <2>1, <2>2, <2>3, Applying DEF SameLists
  <2>5. /\ Floor(e, o) = STATUS_PRIORITY[EVENT_TO_STATUS[e.kind]]
        /\ Floor(e, o) \in 0..6
        /\ EVENT_TO_STATUS[e.kind] # "invalid"
    BY <1>3, <2>3, Tables DEF Floor
  <2> QED
    BY <2>4, <2>5 DEF Kept
<1>12. branch \in {"skip", "exclude", "reject", "other_policy", "note",
                   "disagree", "apply"}
  BY DEF Branch
<1> HIDE DEF g, branch
<1> QED
  BY <1>5, <1>6, <1>7, <1>8, <1>9, <1>10, <1>11, <1>12 DEF g

(***************************************************************************)
(* What a return hands over: a well typed result that is "active" exactly  *)
(* when unblocked and as strong as each of the loop's statuses.            *)
(***************************************************************************)
LEMMA ReturnOfLoop ==
  ASSUME NEW f, NEW o \in Orders, FoldType(f), InStep(f)
  PROVE  LET r == FoldResult(f, o) IN
           /\ r.dominant \in StatusCode
           /\ r.blocks \subseteq FailureCode \X EventId
           /\ r.coordinates \subseteq StatusKind \X StatusCode \X EventId
           /\ r.dominant = "active" <=> r.blocks = {}
           /\ \A t \in f.statuses :
                STATUS_PRIORITY[t] <= STATUS_PRIORITY[r.dominant]
<1> DEFINE absent == Absent(f, o)
           S == f.statuses \cup (IF absent = {} THEN {} ELSE {"conflict"})
           r == FoldResult(f, o)
           d == dominant_status(S)
<1>1. absent \subseteq EventId
  BY OrdersAssumption DEF Absent
<1>2. /\ r.dominant = d
      /\ r.blocks = f.blocks \cup ({"trace_conflict"} \X absent)
      /\ r.coordinates = f.coordinates
  BY DEF FoldResult
<1>3. /\ f.statuses \subseteq StatusCode
      /\ "active" \in f.statuses
      /\ f.blocks \subseteq FailureCode \X EventId
      /\ f.coordinates \subseteq StatusKind \X StatusCode \X EventId
  BY DEF FoldType
<1>4. S \subseteq StatusCode /\ S # {} /\ "conflict" # "active"
  BY <1>3 DEF StatusCode
<1>5. /\ d \in S
      /\ \A t \in S : STATUS_PRIORITY[t] <= STATUS_PRIORITY[d]
  BY <1>4, DominantIsStrongest
<1> HIDE DEF d
<1>6. d = "active" <=> S = {"active"}
  <2>1. ASSUME d = "active", NEW t \in S
        PROVE  t = "active"
    <3>1. STATUS_PRIORITY[t] <= 0 /\ t \in StatusCode
      BY <1>4, <1>5, <2>1, Priorities DEF StatusCode
    <3> QED
      BY <3>1, Priorities
  <2> QED
    BY <1>4, <1>5, <2>1
<1>7. S = {"active"} <=> f.statuses = {"active"} /\ absent = {}
  BY <1>3, <1>4
<1>8. r.blocks = {} <=> f.blocks = {} /\ absent = {}
  <2>1. ASSUME NEW x \in absent
        PROVE  <<"trace_conflict", x>> \in r.blocks
    BY <1>2, <2>1
  <2> QED
    BY <1>2, <2>1
<1>9. r.blocks \subseteq FailureCode \X EventId
  <2>1. "trace_conflict" \in FailureCode
    BY DEF FailureCode
  <2>2. {"trace_conflict"} \X absent \subseteq FailureCode \X EventId
    BY <1>1, <2>1
  <2> QED
    BY <1>2, <1>3, <2>2
<1> QED
  BY <1>2, <1>3, <1>4, <1>5, <1>6, <1>7, <1>8, <1>9 DEF InStep

LEMMA InitInv == Init => Inv
<1> SUFFICES ASSUME Init PROVE Inv
  OBVIOUS
<1>1. FoldType(EmptyFold) /\ InStep(EmptyFold)
  BY DEF EmptyFold, FoldType, HasShape, Locals, InStep, StatusCode
<1>2. /\ result = None /\ handled = {} /\ log = << >>
      /\ acc = EmptyFold /\ running = FALSE /\ order \in Orders
  BY DEF Init
<1>3. log \in Seq(Events) /\ handled \subseteq DOMAIN log
  BY <1>2
<1>4. TypeOK
  BY <1>1, <1>2, <1>3 DEF TypeOK
<1>5. LoopInv
  BY <1>1, <1>2 DEF LoopInv
<1>6. ActiveIffUnblocked /\ NothingLost
  BY <1>2 DEF ActiveIffUnblocked, NothingLost, Current
<1> QED
  BY <1>4, <1>5, <1>6 DEF Inv

(***************************************************************************)
(* Each action keeps the invariant.                                        *)
(***************************************************************************)
LEMMA DeliverInv == Inv /\ Deliver => Inv'
<1> SUFFICES ASSUME Inv, Deliver PROVE Inv'
  OBVIOUS
<1>1. PICK e \in Events : log' = Append(log, e)
  BY DEF Deliver
<1>2. log \in Seq(Events) /\ handled \subseteq DOMAIN log
  BY DEF Inv, TypeOK
<1>3. /\ log' \in Seq(Events)
      /\ DOMAIN log \subseteq DOMAIN log'
      /\ \A i \in DOMAIN log : log'[i] = log[i]
      /\ Len(log') \in DOMAIN log' /\ Len(log') \notin DOMAIN log
  BY <1>1, <1>2
<1>4. TypeOK'
  BY <1>2, <1>3 DEF Inv, TypeOK, Deliver
<1>5. LoopInv'
  BY <1>2, <1>3 DEF Inv, LoopInv, Deliver, Kept
<1>6. ActiveIffUnblocked'
  BY DEF Inv, ActiveIffUnblocked, Deliver
<1>7. ~ Current'
  BY <1>2, <1>3 DEF Current, Deliver
<1> QED
  BY <1>4, <1>5, <1>6, <1>7 DEF Inv, NothingLost

LEMMA StartInv == Inv /\ Start => Inv'
<1> SUFFICES ASSUME Inv, Start PROVE Inv'
  OBVIOUS
<1>1. FoldType(EmptyFold) /\ InStep(EmptyFold)
  BY DEF EmptyFold, FoldType, HasShape, Locals, InStep, StatusCode
<1>2. TypeOK' /\ LoopInv'
  BY <1>1 DEF Inv, TypeOK, LoopInv, Start
<1>3. ActiveIffUnblocked' /\ NothingLost'
  BY DEF Inv, ActiveIffUnblocked, NothingLost, Current, Start
<1> QED
  BY <1>2, <1>3 DEF Inv

LEMMA TurnInv ==
  ASSUME NEW branch, Inv, Turn(branch)
  PROVE  Inv'
<1>1. PICK i \in DOMAIN log : /\ handled' = handled \cup {i}
                             /\ acc' = FoldEvent(acc, log[i], order)
  BY DEF Turn
<1>2. log \in Seq(Events) /\ order \in Orders /\ handled \subseteq DOMAIN log
  BY DEF Inv, TypeOK
<1>3. log[i] \in Events
  BY <1>2
<1>4. FoldType(acc) /\ InStep(acc)
  BY DEF Inv, TypeOK, LoopInv
<1>5. /\ FoldType(acc') /\ InStep(acc')
      /\ acc.statuses \subseteq acc'.statuses
      /\ Kept(acc', log[i], order)
  BY <1>1, <1>2, <1>3, <1>4, TurnOfLoop
<1>6. TypeOK'
  BY <1>1, <1>2, <1>5 DEF Inv, TypeOK, Turn
<1>7. ASSUME NEW j \in handled'
      PROVE  Kept(acc', log[j], order)
  <2>1. CASE j = i
    BY <1>5, <2>1
  <2>2. CASE j \in handled
    BY <1>5, <2>2 DEF Inv, LoopInv, Kept
  <2> QED
    BY <1>1, <2>1, <2>2
<1>8. LoopInv'
  BY <1>5, <1>7 DEF LoopInv, Turn
<1>9. ActiveIffUnblocked' /\ NothingLost'
  BY DEF Inv, ActiveIffUnblocked, NothingLost, Current, Turn
<1> QED
  BY <1>6, <1>8, <1>9 DEF Inv

LEMMA ReturnInv == Inv /\ Return => Inv'
<1> SUFFICES ASSUME Inv, Return PROVE Inv'
  OBVIOUS
<1>1. order \in Orders /\ FoldType(acc) /\ InStep(acc)
  BY DEF Inv, TypeOK, LoopInv
<1>2. /\ result'.dominant \in StatusCode
      /\ result'.blocks \subseteq FailureCode \X EventId
      /\ result'.coordinates \subseteq StatusKind \X StatusCode \X EventId
      /\ result'.dominant = "active" <=> result'.blocks = {}
      /\ \A t \in acc.statuses :
           STATUS_PRIORITY[t] <= STATUS_PRIORITY[result'.dominant]
  BY <1>1, ReturnOfLoop DEF Return
<1>3. TypeOK' /\ LoopInv' /\ ActiveIffUnblocked'
  BY <1>2 DEF Inv, TypeOK, LoopInv, Kept, ActiveIffUnblocked, Return
<1>4. ASSUME NEW i \in DOMAIN log, Relevant(log[i], order),
             log[i].kind \in StatusKind
      PROVE  STATUS_PRIORITY[result'.dominant] >= Floor(log[i], order)
  <2>1. i \in handled
    BY DEF Return
  <2>2. PICK t \in acc.statuses : STATUS_PRIORITY[t] >= Floor(log[i], order)
    BY <1>4, <2>1 DEF Inv, LoopInv, Kept
  <2>3. /\ STATUS_PRIORITY[t] \in 0..7
        /\ STATUS_PRIORITY[result'.dominant] \in 0..7
        /\ Floor(log[i], order) \in 0..7
    BY <1>1, <1>2, <1>4, Priorities, Tables DEF FoldType, Floor
  <2>4. STATUS_PRIORITY[t] <= STATUS_PRIORITY[result'.dominant]
    BY <1>2
  <2> QED
    BY <2>2, <2>3, <2>4
<1>5. NothingLost'
  BY <1>4 DEF NothingLost, Return
<1> QED
  BY <1>3, <1>5 DEF Inv

(***************************************************************************)
(* The invariant of every behaviour of the replay, whatever the events,    *)
(* the order of their delivery, the EventOrder and the length of the log.  *)
(***************************************************************************)
THEOREM FoldInvariant == Spec => []Inv
<1>1. Inv /\ [Next]_vars => Inv'
  <2> SUFFICES ASSUME Inv, [Next]_vars PROVE Inv'
    OBVIOUS
  <2>1. CASE Deliver
    BY <2>1, DeliverInv
  <2>2. CASE Start
    BY <2>2, StartInv
  <2>3. CASE Loop
    BY <2>3, TurnInv DEF Loop, Skip, Exclude, Reject, OtherPolicyVersion,
                         Note, Disagree, SetStatus
  <2>4. CASE Return
    BY <2>4, ReturnInv
  <2>5. CASE UNCHANGED vars
    BY <2>5 DEF vars, Inv, TypeOK, LoopInv, Kept, ActiveIffUnblocked,
                NothingLost, Current
  <2> QED
    BY <2>1, <2>2, <2>3, <2>4, <2>5 DEF Next
<1> QED
  BY <1>1, InitInv, PTL DEF Spec

(***************************************************************************)
(* Type correctness of fold_status's locals and result.                    *)
(***************************************************************************)
THEOREM TypeCorrect == Spec => []TypeOK
BY FoldInvariant, PTL DEF Inv

(***************************************************************************)
(* A replay reports "active" exactly when it recorded no block.            *)
(***************************************************************************)
THEOREM ActiveExactlyWhenUnblocked == Spec => []ActiveIffUnblocked
BY FoldInvariant, PTL DEF Inv

(***************************************************************************)
(* No status event of the certificate in the log is lost by a replay.      *)
(***************************************************************************)
THEOREM NoEventLost == Spec => []NothingLost
BY FoldInvariant, PTL DEF Inv

(***************************************************************************)
(* The order of the sort.                                                  *)
(***************************************************************************)
LEMMA SortOrder ==
  ASSUME NEW e \in Events, NEW f \in Events, NEW i \in Nat, NEW j \in Nat
  PROVE  /\ ~ SortsBefore(e, i, e, i)
         /\ SortsBefore(e, i, f, j) => ~ SortsBefore(f, j, e, i)
         /\ i # j => SortsBefore(e, i, f, j) \/ SortsBefore(f, j, e, i)
         /\ e.id # f.id =>
              (SortsBefore(e, i, f, j) <=> SortsBefore(e, 0, f, 0))
<1>1. /\ e.clock \in Nat /\ e.time \in Nat /\ e.id \in Nat
      /\ f.clock \in Nat /\ f.time \in Nat /\ f.id \in Nat
  BY EventsAssumption
<1> QED BY <1>1 DEF SortsBefore

(***************************************************************************)
(* The locals of the loop after the events of E and no other, when nothing *)
(* was wrong with any of them.                                             *)
(***************************************************************************)
LastAt(c, x, E, o) ==
  /\ x \in Setting(E, o) /\ x.clock = c
  /\ \A y \in Setting(E, o) : y.clock = c => y = x \/ SortsBefore(y, 0, x, 0)

Mark(x) == [id |-> x.id, status |-> EVENT_TO_STATUS[x.kind]]

Clocked(clocks, E, o) ==
  /\ \A x \in Setting(E, o) : x.clock \in DOMAIN clocks
  /\ \A c \in DOMAIN clocks : \E x : LastAt(c, x, E, o) /\ clocks[c] = Mark(x)

Described(f, E, o) ==
  /\ f.seenIds = IdsOf(E)
  /\ f.seenHashes = HashesOf(Effective(E, o))
  /\ f.acceptedSeen = IF o.accepted = {} THEN {} ELSE IdsOf(E)
  /\ f.statuses = StatusesOf(E, o)
  /\ Clocked(f.clocks, E, o)

\* The ids of a set with one more event.
LEMMA MoreIds ==
  ASSUME NEW E, NEW e
  PROVE  IdsOf(E \cup {e}) = IdsOf(E) \cup {e.id}
BY DEF IdsOf

\* An event of another policy version adds "unknown" to the statuses and
\* nothing else.
LEMMA MoreIneffective ==
  ASSUME NEW E, NEW e, NEW o, OtherPolicy(e, o)
  PROVE  /\ Effective(E \cup {e}, o) = Effective(E, o)
         /\ Setting(E \cup {e}, o) = Setting(E, o)
         /\ StatusesOf(E \cup {e}, o) = StatusesOf(E, o) \cup {"unknown"}
<1> DEFINE D == E \cup {e}
<1>1. Effective(D, o) = Effective(E, o)
  BY DEF Effective
<1>2. Setting(D, o) = Setting(E, o)
  BY <1>1 DEF Setting
<1>3. D \ Effective(D, o) = (E \ Effective(E, o)) \cup {e}
  BY <1>1 DEF Effective
<1>4. {"unknown" : f \in D \ Effective(D, o)}
        = {"unknown" : f \in E \ Effective(E, o)} \cup {"unknown"}
  BY <1>3
<1>5. StatusesOf(D, o) = StatusesOf(E, o) \cup {"unknown"}
  BY <1>2, <1>4 DEF StatusesOf
<1> QED BY <1>1, <1>2, <1>5

\* An effective event adds its hashes; the ineffective ones stay as they were.
LEMMA MoreEffective ==
  ASSUME NEW E, NEW e, NEW o, ~ OtherPolicy(e, o)
  PROVE  /\ Effective(E \cup {e}, o) = Effective(E, o) \cup {e}
         /\ HashesOf(Effective(E \cup {e}, o))
              = HashesOf(Effective(E, o)) \cup {event_commitment(e)} \cup e.hashes
         /\ (E \cup {e}) \ Effective(E \cup {e}, o) = E \ Effective(E, o)
<1> DEFINE D == E \cup {e}
<1>1. Effective(D, o) = Effective(E, o) \cup {e}
  BY DEF Effective
<1>2. HashesOf(Effective(D, o))
        = HashesOf(Effective(E, o)) \cup {event_commitment(e)} \cup e.hashes
  BY <1>1 DEF HashesOf
<1>3. D \ Effective(D, o) = E \ Effective(E, o)
  BY <1>1 DEF Effective
<1> QED BY <1>1, <1>2, <1>3

\* An effective event that sets no status leaves the statuses alone.
LEMMA MoreNoted ==
  ASSUME NEW E, NEW e, NEW o, ~ OtherPolicy(e, o), e.kind \notin StatusKind
  PROVE  /\ Setting(E \cup {e}, o) = Setting(E, o)
         /\ StatusesOf(E \cup {e}, o) = StatusesOf(E, o)
<1>1. Setting(E \cup {e}, o) = Setting(E, o)
  BY MoreEffective DEF Setting
<1>2. (E \cup {e}) \ Effective(E \cup {e}, o) = E \ Effective(E, o)
  BY MoreEffective
<1> QED BY <1>1, <1>2, Zenon DEF StatusesOf

\* An effective status event is one that sets a status.
LEMMA MoreSetting ==
  ASSUME NEW E, NEW e, NEW o, ~ OtherPolicy(e, o), e.kind \in StatusKind
  PROVE  Setting(E \cup {e}, o) = Setting(E, o) \cup {e}
BY MoreEffective DEF Setting

(***************************************************************************)
(* The loop's test for a disagreement, which looks at the clock it has     *)
(* remembered, is the abstract one, which looks for the latest rival.      *)
(***************************************************************************)
LEMMA SameRival ==
  ASSUME NEW E \in SUBSET Events, NEW e \in Events, NEW o, NEW clocks,
         Clocked(clocks, E, o)
  PROVE  Agrees(e, E, o) <=> ~ Disagrees(e, o, clocks)
<1> DEFINE peers == {f \in Setting(E, o) : f.clock = e.clock}
           Told(x) == [c \in {e.clock} |-> Mark(x)]
<1>1. Agrees(e, E, o) <=> \A x \in Rival(e, E, o) : ~ Disagrees(e, o, Told(x))
  BY DEF Agrees, Mark
<1>2. Rival(e, E, o) = {f \in peers : \A g \in peers : ~ SortsBefore(f, 0, g, 0)}
  BY DEF Rival
<1>3. CASE e.clock \notin DOMAIN clocks
  <2>1. peers = {}
    BY <1>3 DEF Clocked
  <2>2. ~ Disagrees(e, o, clocks)
    BY <1>3 DEF Disagrees
  <2> QED BY <1>1, <1>2, <2>1, <2>2
<1>4. CASE e.clock \in DOMAIN clocks
  <2>1. PICK x : LastAt(e.clock, x, E, o) /\ clocks[e.clock] = Mark(x)
    BY <1>4 DEF Clocked
  <2>2. x \in peers /\ \A y \in peers : y = x \/ SortsBefore(y, 0, x, 0)
    BY <2>1 DEF LastAt
  <2>3. peers \subseteq Events
    BY DEF Setting, Effective
  <2>4. \A y \in peers : ~ SortsBefore(x, 0, y, 0)
    BY <2>2, <2>3, SortOrder
  <2>5. Rival(e, E, o) = {x}
    <3> HIDE DEF peers
    <3> QED BY <1>2, <2>2, <2>4
  <2>6. Disagrees(e, o, Told(x)) <=> Disagrees(e, o, clocks)
    <3>1. /\ DOMAIN Told(x) = {e.clock}
          /\ Told(x)[e.clock] = Mark(x)
      OBVIOUS
    <3> HIDE DEF Told
    <3> QED BY <1>4, <2>1, <3>1 DEF Disagrees
  <2> QED BY <1>1, <2>5, <2>6
<1> QED BY <1>3, <1>4

(***************************************************************************)
(* What an applied event leaves in seen_clocks.                            *)
(***************************************************************************)
LEMMA NewMark ==
  ASSUME NEW E, NEW e, NEW o, NEW clocks, Clocked(clocks, E, o),
         Setting(E \cup {e}, o) = Setting(E, o) \cup {e},
         \A x \in E : SortsBefore(x, 0, e, 0)
  PROVE  Clocked([c \in DOMAIN clocks \cup {e.clock} |->
                    IF c = e.clock THEN Mark(e) ELSE clocks[c]], E \cup {e}, o)
<1> DEFINE new == [c \in DOMAIN clocks \cup {e.clock} |->
                     IF c = e.clock THEN Mark(e) ELSE clocks[c]]
<1>1. \A x \in Setting(E \cup {e}, o) : x.clock \in DOMAIN new
  BY DEF Clocked
<1>2. ASSUME NEW c \in DOMAIN new
      PROVE  \E x : LastAt(c, x, E \cup {e}, o) /\ new[c] = Mark(x)
  <2>1. CASE c = e.clock
    <3>1. LastAt(c, e, E \cup {e}, o)
      BY <2>1 DEF LastAt, Setting, Effective
    <3> QED BY <2>1, <3>1
  <2>2. CASE c # e.clock
    <3>1. c \in DOMAIN clocks /\ new[c] = clocks[c]
      BY <2>2
    <3>2. PICK x : LastAt(c, x, E, o) /\ clocks[c] = Mark(x)
      BY <3>1 DEF Clocked
    <3>3. LastAt(c, x, E \cup {e}, o)
      BY <2>2, <3>2 DEF LastAt
    <3> QED BY <3>1, <3>2, <3>3
  <2> QED BY <2>1, <2>2
<1> QED BY <1>1, <1>2 DEF Clocked

\* One turn of the loop.  A sound event leaves the locals described by one
\* event more; one that is not leaves "conflict" among the statuses.
LEMMA TurnOfMeaning ==
  ASSUME NEW f, NEW E \in SUBSET Events, NEW e \in Events, NEW o \in Orders,
         FoldType(f), Described(f, E, o), Relevant(e, o),
         \A x \in E : x.id = e.id \/ SortsBefore(x, 0, e, 0)
  PROVE  LET g == FoldEvent(f, e, o) IN
           /\ Sound(e, E, o) => Described(g, E \cup {e}, o)
           /\ ~ Sound(e, E, o) => "conflict" \in g.statuses
<1> DEFINE seen == Saw(f, e, o)
           D == E \cup {e}
           g == FoldEvent(f, e, o)
           branch == Branch(f, e, o)
           blocked == Block(seen, e, "trace_conflict", "conflict")
<1>1. /\ HasShape(seen)
      /\ \A x \in Locals \ {"acceptedSeen"} : seen[x] = f[x]
      /\ seen.acceptedSeen = IF o.accepted = {} THEN {} ELSE IdsOf(D)
  <2>1. seen.acceptedSeen
          = IF o.accepted = {} THEN f.acceptedSeen
            ELSE f.acceptedSeen \cup {e.id}
    BY DEF Saw, FoldType, HasShape, Locals
  <2>2. HasShape(seen) /\ \A x \in Locals \ {"acceptedSeen"} : seen[x] = f[x]
    BY DEF Saw, FoldType, HasShape, Locals
  <2> HIDE DEF seen
  <2> QED BY <2>1, <2>2, MoreIds DEF Described
<1>2. /\ seen.seenIds = IdsOf(E)
      /\ seen.seenHashes = HashesOf(Effective(E, o))
      /\ seen.statuses = StatusesOf(E, o)
      /\ seen.clocks = f.clocks
  BY <1>1 DEF Described, Locals
<1>3. "conflict" \in blocked.statuses
  <2> HIDE DEF seen
  <2> QED BY <1>1 DEF Block, HasShape, Locals
<1>4. branch = IF OutsideTrace(e, o) THEN "exclude"
               ELSE IF \/ Unlinked(e, o, IdsOf(E))
                       \/ Unsigned(e)
                       \/ Uncommitted(e, HashesOf(Effective(E, o))) THEN "reject"
               ELSE IF OtherPolicy(e, o) THEN "other_policy"
               ELSE IF OffLog(e, o) THEN "reject"
               ELSE IF e.kind \notin StatusKind THEN "note"
               ELSE IF ~ Agrees(e, E, o) THEN "disagree"
               ELSE "apply"
  <2>1. Agrees(e, E, o) <=> ~ Disagrees(e, o, f.clocks)
    BY SameRival DEF Described
  <2> QED BY <2>1, Zenon DEF Branch, Described
<1>5. Sound(e, E, o) <=> branch \in {"other_policy", "note", "apply"}
  <2> HIDE DEF branch
  <2> QED BY <1>4 DEF Sound
<1>6. Sound(e, E, o) => \A x \in E : SortsBefore(x, 0, e, 0)
  BY DEF Sound, Unlinked, IdsOf
<1>7. CASE branch \in {"exclude", "reject"}
  <2>1. g = blocked \/ g = Remember(blocked, e)
    <3> HIDE DEF blocked, branch
    <3> QED BY <1>7 DEF FoldEvent, blocked, branch
  <2>2. Remember(blocked, e).statuses = blocked.statuses
    BY DEF Remember, Block
  <2>3. "conflict" \in g.statuses
    <3> HIDE DEF g, blocked
    <3> QED BY <1>3, <2>1, <2>2
  <2> QED BY <1>5, <1>7, <2>3
<1>8. CASE branch = "disagree"
  <2> DEFINE a == Admit(seen, e)
  <2>1. g = Block(a, e, "trace_conflict", "conflict")
    BY <1>8 DEF FoldEvent
  <2>2. "conflict" \in Block(a, e, "trace_conflict", "conflict").statuses
    BY DEF Block, Admit, Remember, Saw, FoldType, HasShape, Locals
  <2> QED BY <1>5, <1>8, <2>1, <2>2
<1>9. CASE branch = "other_policy"
  <2> DEFINE b == Block(seen, e, "policy_block", "unknown")
  <2>1. g = Remember(b, e)
    BY <1>9 DEF FoldEvent
  <2>2. /\ g.seenIds = seen.seenIds \cup {e.id}
        /\ g.statuses = seen.statuses \cup {"unknown"}
        /\ g.seenHashes = seen.seenHashes /\ g.clocks = seen.clocks
        /\ g.acceptedSeen = seen.acceptedSeen
    <3> HIDE DEF g, seen
    <3> QED BY <1>1, <2>1 DEF Remember, Block, HasShape, Locals
  <2>3. OtherPolicy(e, o)
    BY <1>9 DEF Branch
  <2>4. Clocked(g.clocks, D, o)
    <3>1. Setting(D, o) = Setting(E, o)
      BY <2>3, MoreIds, MoreIneffective
    <3>2. Clocked(f.clocks, D, o)
      BY <3>1 DEF Clocked, LastAt, Described
    <3> HIDE DEF g, seen
    <3> QED BY <1>2, <2>2, <3>2
  <2>5. /\ IdsOf(D) = IdsOf(E) \cup {e.id} /\ Effective(D, o) = Effective(E, o)
        /\ StatusesOf(D, o) = StatusesOf(E, o) \cup {"unknown"}
    BY <2>3, MoreIds, MoreIneffective
  <2>6. Described(g, D, o)
    <3> HIDE DEF g, seen, D
    <3> QED BY <1>1, <1>2, <2>2, <2>4, <2>5 DEF Described
  <2> QED BY <1>5, <1>9, <2>6
<1>10. CASE branch \in {"note", "apply"}
  <2> DEFINE a == Admit(seen, e)
  <2>1. ~ OtherPolicy(e, o)
    BY <1>10 DEF Branch
  <2>2. /\ HasShape(a)
        /\ a.seenIds = IdsOf(D)
        /\ a.seenHashes = HashesOf(Effective(D, o))
        /\ a.acceptedSeen = IF o.accepted = {} THEN {} ELSE IdsOf(D)
        /\ a.statuses = StatusesOf(E, o) /\ a.clocks = f.clocks
    <3>1. /\ HasShape(a)
          /\ a.seenIds = seen.seenIds \cup {e.id}
          /\ a.seenHashes = seen.seenHashes \cup {event_commitment(e)} \cup e.hashes
          /\ \A x \in Locals \ {"seenIds", "seenHashes"} : a[x] = seen[x]
      <4> HIDE DEF seen
      <4> QED BY <1>1 DEF Admit, Remember, HasShape, Locals
    <3>2. /\ IdsOf(D) = IdsOf(E) \cup {e.id}
          /\ HashesOf(Effective(D, o))
               = HashesOf(Effective(E, o)) \cup {event_commitment(e)} \cup e.hashes
      <4>1. IdsOf(D) = IdsOf(E) \cup {e.id}
        BY MoreIds
      <4>2. HashesOf(Effective(D, o))
              = HashesOf(Effective(E, o)) \cup {event_commitment(e)} \cup e.hashes
        <5>1. Effective(D, o) = Effective(E, o) \cup {e}
          BY <2>1 DEF Effective
        <5> HIDE DEF D
        <5> QED BY <5>1 DEF HashesOf
      <4> QED BY <4>1, <4>2
    <3> HIDE DEF a, seen, D
    <3> QED BY <1>1, <1>2, <3>1, <3>2 DEF Locals
  <2>3. CASE branch = "note"
    <3>1. g = a
      BY <2>3 DEF FoldEvent
    <3>2. e.kind \notin StatusKind
      BY <2>3 DEF Branch
    <3>3. Setting(D, o) = Setting(E, o) /\ StatusesOf(D, o) = StatusesOf(E, o)
      BY <2>1, <3>2, MoreNoted
    <3>4. Clocked(f.clocks, D, o)
      BY <3>3 DEF Clocked, LastAt, Described
    <3>5. Described(g, D, o)
      <4> HIDE DEF g, a
      <4> QED BY <2>2, <3>1, <3>3, <3>4 DEF Described
    <3> QED BY <1>5, <2>3, <3>5
  <2>4. CASE branch = "apply"
    <3> DEFINE status == EVENT_TO_STATUS[e.kind]
               new == [c \in DOMAIN f.clocks \cup {e.clock} |->
                         IF c = e.clock THEN Mark(e) ELSE f.clocks[c]]
    <3>1. g = Apply(a, e)
      BY <2>4 DEF FoldEvent
    <3>2. e.kind \in StatusKind
      BY <2>4 DEF Branch
    <3>3. /\ g.statuses = a.statuses \cup {status}
          /\ g.clocks = new
          /\ \A x \in Locals \ {"statuses", "clocks", "blocks", "coordinates"} :
               g[x] = a[x]
      <4> HIDE DEF a, g
      <4> QED BY <2>2, <3>1 DEF Apply, Block, Mark, HasShape, Locals
    <3>4. Clocked(new, D, o)
      <4>1. \A x \in E : SortsBefore(x, 0, e, 0)
        BY <1>5, <1>6, <2>4
      <4>2. Clocked(f.clocks, E, o)
        BY DEF Described
      <4>3. Setting(D, o) = Setting(E, o) \cup {e}
        BY <2>1, <3>2, MoreSetting
      <4> QED BY <4>1, <4>2, <4>3, NewMark
    <3>5. StatusesOf(D, o) = StatusesOf(E, o) \cup {status}
      <4>1. Setting(D, o) = Setting(E, o) \cup {e}
        BY <2>1, <3>2, MoreSetting
      <4>2. D \ Effective(D, o) = E \ Effective(E, o)
        BY <2>1 DEF Effective
      <4>3. {EVENT_TO_STATUS[x.kind] : x \in Setting(D, o)}
              = {EVENT_TO_STATUS[x.kind] : x \in Setting(E, o)} \cup {status}
        <5> HIDE DEF D
        <5> QED BY <4>1
      <4>4. {"unknown" : x \in D \ Effective(D, o)}
              = {"unknown" : x \in E \ Effective(E, o)}
        <5> HIDE DEF D
        <5> QED BY <4>2, Zenon
      <4> HIDE DEF D, status
      <4> QED BY <4>3, <4>4 DEF StatusesOf
    <3>6. Described(g, D, o)
      <4> HIDE DEF g, a, new, D
      <4> QED BY <2>2, <3>3, <3>4, <3>5 DEF Described, Locals
    <3> QED BY <1>5, <2>4, <3>6
  <2> QED BY <1>10, <2>3, <2>4
<1>11. branch \in {"exclude", "reject", "disagree", "other_policy", "note",
                   "apply"}
  BY <1>4
<1> HIDE DEF g, branch
<1> QED BY <1>7, <1>8, <1>9, <1>10, <1>11 DEF g

(***************************************************************************)
(* The loop over the places of the log.  What is wrong with the event at a *)
(* place is said of the events the sort puts before it; the events the     *)
(* loop has been through are those.                                        *)
(***************************************************************************)
Places == {i \in DOMAIN log : Relevant(log[i], order)}

EventsIn(H) == {log[i] : i \in H}

Before(i, j) == SortsBefore(log[i], i, log[j], j)

Preceding(i) == {j \in Places : Before(j, i)}

SoundAt(i) == Sound(log[i], EventsIn(Preceding(i)), order)

Handled == handled \cap Places

Sorted == \A i \in handled : \A j \in DOMAIN log \ handled : Before(i, j)

Judged ==
  \/ /\ \A i \in Handled : SoundAt(i)
     /\ Described(acc, EventsIn(Handled), order)
  \/ /\ \E i \in Handled : ~ SoundAt(i)
     /\ "conflict" \in acc.statuses

(***************************************************************************)
(* A verdict short of "conflict" is that of the events of a first part of  *)
(* the log: the part that had been delivered at the time.                  *)
(***************************************************************************)
Part(n) == EventsIn(Places \cap (1..n))

Earned ==
  result # None =>
    /\ result.dominant # "invalid"
    /\ result.dominant # "conflict" =>
         \E n \in 0..Len(log) : result.dominant = dominant_status(StatusesOf(Part(n), order))

MeaningInv ==
  /\ running => Sorted /\ Judged
  /\ "invalid" \notin acc.statuses
  /\ Earned

\* The places of a log are in a strict total order, that of sorted().
LEMMA PlaceOrder ==
  ASSUME log \in Seq(Events), NEW i \in DOMAIN log, NEW j \in DOMAIN log
  PROVE  /\ ~ Before(i, i)
         /\ Before(i, j) => ~ Before(j, i)
         /\ i # j => Before(i, j) \/ Before(j, i)
         /\ log[i].id # log[j].id =>
              (Before(i, j) <=> SortsBefore(log[i], 0, log[j], 0))
<1>1. log[i] \in Events /\ log[j] \in Events /\ i \in Nat /\ j \in Nat
  OBVIOUS
<1> QED BY <1>1, SortOrder DEF Before

\* Steps that leave the log alone leave what is said of its places alone.
LEMMA SameLog ==
  ASSUME UNCHANGED <<log, order>>
  PROVE  /\ Places' = Places
         /\ \A H : EventsIn(H)' = EventsIn(H)
         /\ \A i : SoundAt(i)' <=> SoundAt(i)
         /\ \A n : Part(n)' = Part(n)
<1>1. Places' = Places /\ \A H : EventsIn(H)' = EventsIn(H)
  BY DEF Places, EventsIn
<1>2. \A i : Preceding(i)' = Preceding(i)
  BY <1>1 DEF Preceding, Before
<1>3. \A i : SoundAt(i)' <=> SoundAt(i)
  BY <1>1, <1>2 DEF SoundAt, EventsIn
<1> QED BY <1>1, <1>3 DEF Part, EventsIn

\* The considered events before the next one are those the loop has handled.
LEMMA NextPreceding ==
  ASSUME log \in Seq(Events), handled \subseteq DOMAIN log, Sorted,
         NEW i, IsNext(i)
  PROVE  Preceding(i) = Handled
<1>1. i \in DOMAIN log \ handled
  BY DEF IsNext
<1>2. ASSUME NEW j \in Handled PROVE j \in Preceding(i)
  BY <1>1, <1>2 DEF Handled, Sorted, Preceding
<1>3. ASSUME NEW j \in Preceding(i) PROVE j \in Handled
  <2>1. j \in DOMAIN log /\ Before(j, i) /\ j # i
    BY <1>1, <1>3, PlaceOrder DEF Preceding, Places
  <2>2. ~ Before(i, j)
    BY <1>1, <2>1, PlaceOrder
  <2>3. j \in handled
    BY <2>1, <2>2 DEF IsNext, Before
  <2> QED BY <1>3, <2>3 DEF Handled, Preceding
<1> QED BY <1>2, <1>3

\* A turn of the loop keeps the invariant.
LEMMA TurnMeaning ==
  ASSUME NEW branch, Inv, MeaningInv, Turn(branch)
  PROVE  MeaningInv'
<1>1. PICK i \in DOMAIN log : /\ IsNext(i)
                             /\ handled' = handled \cup {i}
                             /\ acc' = FoldEvent(acc, log[i], order)
  BY DEF Turn
<1>2. /\ running /\ running' /\ UNCHANGED <<log, order, result>>
  BY DEF Turn
<1>3. /\ log \in Seq(Events) /\ order \in Orders /\ handled \subseteq DOMAIN log
      /\ FoldType(acc) /\ InStep(acc)
  BY DEF Inv, TypeOK, LoopInv
<1>4. Sorted /\ Judged
  BY <1>2 DEF MeaningInv
<1> DEFINE e == log[i]
           E == EventsIn(Handled)
<1>5. e \in Events /\ E \in SUBSET Events /\ i \notin handled
  BY <1>1, <1>3 DEF EventsIn, Handled, Places, IsNext
<1>6. /\ acc.statuses \subseteq acc'.statuses
      /\ "invalid" \notin acc'.statuses
  BY <1>1, <1>3, <1>5, TurnOfLoop DEF MeaningInv
<1>7. Sorted'
  <2>1. ASSUME NEW j \in handled', NEW k \in DOMAIN log \ handled'
        PROVE  Before(j, k)
    BY <1>1, <1>4, <2>1 DEF Sorted, IsNext, Before
  <2> QED BY <1>2, <2>1 DEF Sorted, Before
<1>8. /\ \A j : SoundAt(j)' <=> SoundAt(j)
      /\ \A H : EventsIn(H)' = EventsIn(H)
      /\ Places' = Places
  BY <1>2, SameLog
<1>9. Judged'
  <2>1. CASE ~ Relevant(e, order)
    <3>1. acc' = acc
      BY <1>1, <2>1 DEF FoldEvent, Branch
    <3>2. Handled' = Handled
      BY <1>1, <1>8, <2>1 DEF Handled, Places
    <3> QED BY <1>2, <1>4, <1>8, <3>1, <3>2 DEF Judged
  <2>2. CASE Relevant(e, order)
    <3>1. Handled' = Handled \cup {i}
      BY <1>1, <1>8, <2>2 DEF Handled, Places
    <3>2. EventsIn(Handled)' = E \cup {e}
      BY <1>2, <3>1 DEF EventsIn
    <3>3. SoundAt(i) <=> Sound(e, E, order)
      BY <1>1, <1>3, <1>4, NextPreceding DEF SoundAt
    <3>4. CASE \E j \in Handled : ~ SoundAt(j)
      <4>1. "conflict" \in acc'.statuses
        BY <1>4, <1>6, <3>4 DEF Judged
      <4> QED BY <1>8, <3>1, <3>4, <4>1 DEF Judged
    <3>5. CASE \A j \in Handled : SoundAt(j)
      <4>1. Described(acc, E, order)
        BY <1>4, <3>5 DEF Judged
      <4>2. \A x \in E : x.id = e.id \/ SortsBefore(x, 0, e, 0)
        <5>1. ASSUME NEW j \in Handled, log[j].id # e.id
              PROVE  SortsBefore(log[j], 0, e, 0)
          <6>1. j \in DOMAIN log /\ Before(j, i)
            BY <1>4, <1>5, <5>1 DEF Handled, Places, Sorted
          <6> QED BY <1>3, <5>1, <6>1, PlaceOrder
        <5> QED BY <5>1 DEF EventsIn
      <4>3. /\ Sound(e, E, order) => Described(acc', E \cup {e}, order)
            /\ ~ Sound(e, E, order) => "conflict" \in acc'.statuses
        <5> HIDE DEF E, e
        <5>1. LET g == FoldEvent(acc, e, order) IN
                /\ Sound(e, E, order) => Described(g, E \cup {e}, order)
                /\ ~ Sound(e, E, order) => "conflict" \in g.statuses
          BY <1>3, <1>5, <2>2, <4>1, <4>2, TurnOfMeaning
        <5>2. acc' = FoldEvent(acc, e, order)
          BY <1>1 DEF e
        <5> QED BY <5>1, <5>2
      <4>4. CASE SoundAt(i)
        <5>1. Described(acc', E \cup {e}, order)
          BY <3>3, <4>3, <4>4
        <5>2. Described(acc, EventsIn(Handled), order)'
          BY <1>2, <3>2, <5>1 DEF Described
        <5>3. \A j \in Handled' : SoundAt(j)'
          BY <1>8, <3>1, <3>5, <4>4
        <5> QED BY <5>2, <5>3 DEF Judged
      <4>5. CASE ~ SoundAt(i)
        <5>1. \E j \in Handled' : ~ SoundAt(j)'
          BY <1>8, <3>1, <4>5
        <5> QED BY <3>3, <4>3, <4>5, <5>1 DEF Judged
      <4> QED BY <4>4, <4>5
    <3> QED BY <3>4, <3>5
  <2> QED BY <2>1, <2>2
<1>10. Earned'
  BY <1>2, SameLog DEF MeaningInv, Earned
<1> QED BY <1>6, <1>7, <1>9, <1>10 DEF MeaningInv

(***************************************************************************)
(* The ledger of a log is its places, without their order.                 *)
(***************************************************************************)
LEMMA LedgerIs ==
  ASSUME log \in Seq(Events)
  PROVE  /\ Considered(LedgerOf(log), order) = EventsIn(Places)
         /\ \A i \in DOMAIN log :
              LedgerOf(log)[log[i]] = 1 <=>
                \A j \in DOMAIN log : log[j] = log[i] => j = i
<1>1. Considered(LedgerOf(log), order) = EventsIn(Places)
  BY DEF Considered, LedgerOf, EventsIn, Places
<1>2. ASSUME NEW i \in DOMAIN log
      PROVE  LedgerOf(log)[log[i]] = 1 <=>
               \A j \in DOMAIN log : log[j] = log[i] => j = i
  <2> DEFINE T == {j \in DOMAIN log : log[j] = log[i]}
  <2>1. LedgerOf(log)[log[i]] = Cardinality(T)
    BY DEF LedgerOf
  <2>2. IsFiniteSet(T)
    <3>1. IsFiniteSet(1..Len(log)) /\ DOMAIN log = 1..Len(log)
      BY FS_Interval
    <3> QED BY <3>1, FS_Subset
  <2>3. Cardinality(T) = 1 <=> \E x : T = {x}
    BY <2>2, FS_Singleton
  <2>4. i \in T /\ \A j : j \in T <=> j \in DOMAIN log /\ log[j] = log[i]
    OBVIOUS
  <2> HIDE DEF T
  <2>5. (\E x : T = {x}) <=> \A j \in T : j = i
    <3>1. ASSUME NEW x, T = {x} PROVE \A j \in T : j = i
      BY <2>4, <3>1
    <3>2. ASSUME \A j \in T : j = i PROVE T = {i}
      BY <2>4, <3>2
    <3> QED BY <3>1, <3>2
  <2> QED BY <2>1, <2>3, <2>4, <2>5
<1> QED BY <1>1, <1>2

OneId == \A i, j \in Places : log[i].id = log[j].id => i = j

\* No event delivered twice and no id used twice: one id, one place.
LEMMA DistinctIs ==
  ASSUME log \in Seq(Events)
  PROVE  Distinct(LedgerOf(log), EventsIn(Places)) <=> OneId
<1> DEFINE S == EventsIn(Places)
<1>1. ASSUME OneId PROVE Distinct(LedgerOf(log), S)
  <2>1. ASSUME NEW i \in Places PROVE LedgerOf(log)[log[i]] = 1
    <3>1. ASSUME NEW j \in DOMAIN log, log[j] = log[i] PROVE j = i
      BY <1>1, <3>1 DEF OneId, Places
    <3> QED BY <3>1, LedgerIs DEF Places
  <2> QED BY <1>1, <2>1 DEF Distinct, EventsIn, OneId
<1>2. ASSUME Distinct(LedgerOf(log), S), NEW i \in Places, NEW j \in Places,
             log[i].id = log[j].id
      PROVE  i = j
  <2>1. log[i] \in S /\ log[j] \in S
    BY DEF EventsIn
  <2>2. log[i] = log[j] /\ LedgerOf(log)[log[i]] = 1
    BY <1>2, <2>1 DEF Distinct
  <2> QED BY <2>2, LedgerIs DEF Places
<1> QED BY <1>1, <1>2 DEF OneId

\* With one place to an id, the earlier events are those at earlier places.
LEMMA EarlierIs ==
  ASSUME log \in Seq(Events), OneId, NEW i \in Places
  PROVE  EventsIn(Preceding(i)) = Earlier(log[i], EventsIn(Places))
<1>1. ASSUME NEW j \in Places
      PROVE  Before(j, i) <=> SortsBefore(log[j], 0, log[i], 0)
  <2>1. CASE j = i
    <3>1. log[i] \in Events
      BY DEF Places
    <3> QED BY <2>1, <3>1, PlaceOrder, SortOrder DEF Places
  <2>2. CASE j # i
    BY <2>2, PlaceOrder DEF OneId, Places
  <2> QED BY <2>1, <2>2
<1> QED BY <1>1 DEF EventsIn, Preceding, Earlier

\* An event the loop finds wrong is a defect of the ledger,
LEMMA UnsoundIsDefective ==
  ASSUME log \in Seq(Events), NEW i \in Places, ~ SoundAt(i)
  PROVE  Defective(LedgerOf(log), order)
<1> DEFINE S == EventsIn(Places)
<1>1. Considered(LedgerOf(log), order) = S
  BY LedgerIs
<1>2. CASE ~ OneId
  BY <1>1, <1>2, DistinctIs DEF Defective
<1>3. CASE OneId
  <2>1. ~ Sound(log[i], Earlier(log[i], S), order)
    BY <1>3, EarlierIs DEF SoundAt
  <2>2. log[i] \in S
    BY DEF EventsIn
  <2> QED BY <1>1, <2>1, <2>2 DEF Defective
<1> QED BY <1>2, <1>3

\* and when it finds none, only a missing accepted id is one.
LEMMA SoundIsNotDefective ==
  ASSUME log \in Seq(Events), \A i \in Places : SoundAt(i)
  PROVE  Defective(LedgerOf(log), order) <=>
           ~ (order.accepted \subseteq IdsOf(EventsIn(Places)))
<1> DEFINE S == EventsIn(Places)
<1>1. Considered(LedgerOf(log), order) = S
  BY LedgerIs
<1>2. ASSUME NEW i \in Places, NEW j \in Places, Before(i, j)
      PROVE  log[i].id # log[j].id
  <2>1. ~ Unlinked(log[j], order, IdsOf(EventsIn(Preceding(j))))
    BY DEF SoundAt, Sound
  <2>2. log[i].id \in IdsOf(EventsIn(Preceding(j)))
    BY <1>2 DEF Preceding, EventsIn, IdsOf
  <2> QED BY <2>1, <2>2 DEF Unlinked
<1>3. OneId
  BY <1>2, PlaceOrder DEF OneId, Places
<1>4. \A e \in S : Sound(e, Earlier(e, S), order)
  BY <1>3, EarlierIs DEF EventsIn, SoundAt
<1> QED BY <1>1, <1>3, <1>4, DistinctIs DEF Defective

\* Without "invalid", "conflict" is the strongest status.
LEMMA ConflictDominates ==
  ASSUME NEW S \in SUBSET (StatusCode \ {"invalid"}), "conflict" \in S
  PROVE  dominant_status(S) = "conflict"
<1>1. /\ dominant_status(S) \in S
      /\ STATUS_PRIORITY["conflict"] <= STATUS_PRIORITY[dominant_status(S)]
  BY DominantIsStrongest
<1>2. \A s \in StatusCode \ {"invalid", "conflict"} : STATUS_PRIORITY[s] \in 0..5
  BY DEF StatusCode, STATUS_PRIORITY
<1> QED BY <1>1, <1>2, Priorities

(***************************************************************************)
(* What the loop hands over is what the ledger means.                      *)
(***************************************************************************)
LEMMA ReturnOfMeaning ==
  ASSUME Inv, MeaningInv, running, handled = DOMAIN log
  PROVE  LET d == FoldResult(acc, order).dominant IN
           /\ d = Meaning(LedgerOf(log), order)
           /\ d \in StatusCode \ {"invalid"}
           /\ d # "conflict" => d = dominant_status(StatusesOf(EventsIn(Places), order))
<1>1. /\ log \in Seq(Events) /\ order \in Orders /\ FoldType(acc)
      /\ Judged /\ "invalid" \notin acc.statuses
  BY DEF Inv, TypeOK, MeaningInv
<1> DEFINE absent == Absent(acc, order)
           S == acc.statuses \cup (IF absent = {} THEN {} ELSE {"conflict"})
           d == FoldResult(acc, order).dominant
<1>2. d = dominant_status(S)
  BY DEF FoldResult
<1>3. S \in SUBSET (StatusCode \ {"invalid"}) /\ S # {}
  BY <1>1 DEF FoldType, StatusCode
<1>4. d \in StatusCode \ {"invalid"}
  <2> HIDE DEF S
  <2> QED BY <1>2, <1>3, DominantIsStrongest
<1>5. Handled = Places
  BY DEF Handled, Places
<1>6. CASE \E i \in Handled : ~ SoundAt(i)
  <2>1. "conflict" \in S
    BY <1>1, <1>6 DEF Judged
  <2>2. d = "conflict"
    <3> HIDE DEF S
    <3> QED BY <1>2, <1>3, <2>1, ConflictDominates
  <2>3. Defective(LedgerOf(log), order)
    BY <1>1, <1>5, <1>6, UnsoundIsDefective
  <2> QED BY <1>4, <2>2, <2>3 DEF Meaning
<1>7. CASE \A i \in Handled : SoundAt(i)
  <2>1. Described(acc, EventsIn(Places), order)
    BY <1>1, <1>5, <1>7 DEF Judged
  <2>2. Defective(LedgerOf(log), order) <=> absent # {}
    <3>1. absent = {} <=> order.accepted \subseteq IdsOf(EventsIn(Places))
      BY <2>1 DEF Absent, Described
    <3> QED BY <1>1, <1>5, <1>7, <3>1, SoundIsNotDefective
  <2>3. CASE absent = {}
    <3>1. S = StatusesOf(EventsIn(Places), order)
      BY <2>1, <2>3 DEF Described
    <3>2. Meaning(LedgerOf(log), order)
            = dominant_status(StatusesOf(EventsIn(Places), order))
      BY <1>1, <2>2, <2>3, LedgerIs DEF Meaning
    <3> HIDE DEF S
    <3> QED BY <1>2, <1>4, <3>1, <3>2
  <2>4. CASE absent # {}
    <3>1. "conflict" \in S
      BY <2>4
    <3>2. d = "conflict"
      <4> HIDE DEF S
      <4> QED BY <1>2, <1>3, <3>1, ConflictDominates
    <3> QED BY <1>4, <2>2, <2>4, <3>2 DEF Meaning
  <2> QED BY <2>3, <2>4
<1> QED BY <1>6, <1>7

\* A delivery keeps the invariant: an old verdict is of a part of the log.
LEMMA DeliverMeaning ==
  ASSUME Inv, MeaningInv, Deliver
  PROVE  MeaningInv'
<1>1. PICK e \in Events : log' = Append(log, e)
  BY DEF Deliver
<1>2. ~ running' /\ UNCHANGED <<order, acc, result>> /\ log \in Seq(Events)
  BY DEF Deliver, Inv, TypeOK
<1>3. /\ Len(log') = Len(log) + 1 /\ DOMAIN log' = 1..Len(log')
      /\ DOMAIN log = 1..Len(log) /\ Len(log) \in Nat
      /\ \A i \in 1..Len(log) : log'[i] = log[i]
  BY <1>1, <1>2
<1>4. ASSUME NEW n \in 0..Len(log) PROVE Part(n)' = Part(n)
  <2>1. Places' \cap (1..n) = Places \cap (1..n)
    BY <1>2, <1>3 DEF Places
  <2>2. \A i \in Places \cap (1..n) : log'[i] = log[i]
    BY <1>3 DEF Places
  <2> QED BY <2>1, <2>2 DEF Part, EventsIn
<1>5. 0..Len(log) \subseteq 0..Len(log')
  BY <1>3
<1>6. Earned'
  BY <1>2, <1>4, <1>5 DEF MeaningInv, Earned
<1> QED BY <1>2, <1>6 DEF MeaningInv

\* A call starts with locals that describe no events.
LEMMA StartMeaning ==
  ASSUME Inv, MeaningInv, Start
  PROVE  MeaningInv'
<1>1. /\ handled' = {} /\ acc' = EmptyFold /\ UNCHANGED <<log, order, result>>
  BY DEF Start
<1>2. Described(EmptyFold, {}, order)
  BY DEF Described, EmptyFold, IdsOf, HashesOf, Effective, StatusesOf, Setting,
         Clocked
<1>3. EventsIn(Handled)' = {}
  BY <1>1 DEF EventsIn, Handled
<1>4. Judged'
  BY <1>1, <1>2, <1>3 DEF Judged, Handled
<1>5. Sorted'
  BY <1>1 DEF Sorted
<1>6. "invalid" \notin acc'.statuses
  BY <1>1 DEF EmptyFold
<1>7. Earned'
  BY <1>1, SameLog DEF MeaningInv, Earned
<1> QED BY <1>4, <1>5, <1>6, <1>7 DEF MeaningInv

\* A verdict is of the whole log when it is reached.
LEMMA ReturnMeaning ==
  ASSUME Inv, MeaningInv, Return
  PROVE  MeaningInv'
<1>1. /\ ~ running' /\ UNCHANGED <<log, order, acc>>
      /\ result' = FoldResult(acc, order) /\ log \in Seq(Events)
  BY DEF Return, Inv, TypeOK
<1>2. /\ result'.dominant # "invalid"
      /\ result'.dominant # "conflict" =>
           result'.dominant = dominant_status(StatusesOf(EventsIn(Places), order))
  BY <1>1, ReturnOfMeaning DEF Return
<1>3. Part(Len(log)) = EventsIn(Places) /\ Len(log) \in 0..Len(log)
  <2>1. Places \cap (1..Len(log)) = Places
    BY <1>1 DEF Places
  <2>2. Len(log) \in Nat
    BY <1>1
  <2>3. Len(log) \in 0..Len(log)
    BY <2>2
  <2>4. Part(Len(log)) = EventsIn(Places)
    BY <2>1 DEF Part
  <2> QED BY <2>3, <2>4
<1>4. Part(Len(log))' = Part(Len(log)) /\ Len(log') = Len(log)
  BY <1>1, SameLog
<1>5. Earned'
  BY <1>1, <1>2, <1>3, <1>4 DEF Earned
<1> QED BY <1>1, <1>5 DEF MeaningInv

\* The inductive invariant of the two theorems below: what the locals of the
\* loop hold, and what the last verdict was reached from.
THEOREM MeaningInvariant == Spec => []MeaningInv
<1>1. Init => MeaningInv
  BY DEF Init, MeaningInv, EmptyFold, Earned
<1>2. Inv /\ MeaningInv /\ [Next]_vars => MeaningInv'
  <2> SUFFICES ASSUME Inv, MeaningInv, [Next]_vars PROVE MeaningInv'
    OBVIOUS
  <2>1. CASE Deliver
    BY <2>1, DeliverMeaning
  <2>2. CASE Start
    BY <2>2, StartMeaning
  <2>3. CASE Loop
    BY <2>3, TurnMeaning DEF Loop, Skip, Exclude, Reject, OtherPolicyVersion,
                             Note, Disagree, SetStatus
  <2>4. CASE Return
    BY <2>4, ReturnMeaning
  <2>5. CASE UNCHANGED vars
    <3>1. UNCHANGED <<log, order, running, handled, acc, result>>
      BY <2>5 DEF vars
    <3>2. Sorted' <=> Sorted
      BY <3>1 DEF Sorted, Before
    <3>3. Handled' = Handled /\ EventsIn(Handled)' = EventsIn(Handled)
      BY <3>1, SameLog DEF Handled, EventsIn
    <3>4. Judged' <=> Judged
      BY <3>1, <3>3, SameLog DEF Judged
    <3>5. Earned' <=> Earned
      BY <3>1, SameLog DEF Earned
    <3> QED BY <3>1, <3>2, <3>4, <3>5 DEF MeaningInv
  <2> QED BY <2>1, <2>2, <2>3, <2>4, <2>5 DEF Next
<1> QED BY <1>1, <1>2, FoldInvariant, PTL DEF Spec

(***************************************************************************)
(* More of the log never weakens a decided status.                         *)
(***************************************************************************)
LEMMA StrongerOfMore ==
  ASSUME NEW S \in SUBSET Events, NEW T \in SUBSET S, NEW o
  PROVE  STATUS_PRIORITY[dominant_status(StatusesOf(T, o))]
           <= STATUS_PRIORITY[dominant_status(StatusesOf(S, o))]
<1>1. Setting(T, o) \subseteq Setting(S, o) /\ T \ Effective(T, o) \subseteq S \ Effective(S, o)
  BY DEF Setting, Effective
<1>2. StatusesOf(T, o) \subseteq StatusesOf(S, o)
  BY <1>1 DEF StatusesOf
<1>3. StatusesOf(S, o) \subseteq StatusCode /\ "active" \in StatusesOf(T, o)
  <2>1. \A f \in Setting(S, o) : EVENT_TO_STATUS[f.kind] \in StatusCode
    BY Tables DEF Setting
  <2> QED BY <2>1 DEF StatusesOf, StatusCode
<1> HIDE DEF StatusesOf
<1>4. /\ dominant_status(StatusesOf(T, o)) \in StatusesOf(T, o)
      /\ \A t \in StatusesOf(S, o) :
           STATUS_PRIORITY[t] <= STATUS_PRIORITY[dominant_status(StatusesOf(S, o))]
  BY <1>2, <1>3, DominantIsStrongest
<1> QED BY <1>2, <1>4

\* No step weakens a verdict short of "conflict".
LEMMA StepRatchets ==
  ASSUME Inv, MeaningInv, [Next]_vars,
         result # None, result.dominant # "conflict", result' # result
  PROVE  STATUS_PRIORITY[result'.dominant] >= STATUS_PRIORITY[result.dominant]
<1>1. Return
  BY DEF Next, vars, Loop, Skip, Exclude, Reject, OtherPolicyVersion, Note,
         Disagree, SetStatus, Turn, Deliver, Start
<1>2. result' = FoldResult(acc, order) /\ log \in Seq(Events)
  BY <1>1 DEF Return, Inv, TypeOK
<1> DEFINE d == result'.dominant
<1>3. /\ d \in StatusCode \ {"invalid"}
      /\ d # "conflict" => d = dominant_status(StatusesOf(EventsIn(Places), order))
  BY <1>1, <1>2, ReturnOfMeaning DEF Return
<1>4. PICK n \in 0..Len(log) :
        result.dominant = dominant_status(StatusesOf(Part(n), order))
  BY DEF MeaningInv, Earned
<1>5. result.dominant \in StatusCode \ {"invalid"}
  BY DEF Inv, TypeOK, MeaningInv, Earned
<1>6. CASE d = "conflict"
  BY <1>5, <1>6, Priorities DEF StatusCode, STATUS_PRIORITY
<1>7. CASE d # "conflict"
  <2>1. EventsIn(Places) \in SUBSET Events /\ Part(n) \in SUBSET EventsIn(Places)
    BY <1>2 DEF EventsIn, Places, Part
  <2>2. STATUS_PRIORITY[dominant_status(StatusesOf(Part(n), order))]
          <= STATUS_PRIORITY[dominant_status(StatusesOf(EventsIn(Places), order))]
    BY <2>1, StrongerOfMore
  <2>4. /\ STATUS_PRIORITY[result'.dominant] \in 0..7
        /\ STATUS_PRIORITY[result.dominant] \in 0..7
    BY <1>3, <1>5, Priorities
  <2> QED BY <1>3, <1>4, <1>7, <2>2, <2>4
<1> QED BY <1>6, <1>7

\* Delivering more of the log never weakens a decided status, for every set of
\* events, order and log length (fold_status is replayed on a growing log).
THEOREM MoreLogIsStronger == Spec => Ratchet
<1>1. Inv /\ MeaningInv /\ [Next]_vars
        => [result # None /\ result.dominant # "conflict" =>
              STATUS_PRIORITY[result'.dominant]
                >= STATUS_PRIORITY[result.dominant]]_result
  BY StepRatchets
<1> QED BY <1>1, FoldInvariant, MeaningInvariant, PTL DEF Spec, Ratchet

(***************************************************************************)
(* The loop implements the meaning.                                        *)
(***************************************************************************)
LEMMA SameMeaning ==
  ASSUME NEW ledger
  PROVE  Abstract!Meaning(ledger, order) = Meaning(ledger, order)
BY DEF Abstract!Meaning, Meaning, Abstract!Defective, Defective,
       Abstract!Considered, Considered, Abstract!Distinct, Distinct,
       Abstract!IdsOf, IdsOf, Abstract!Sound, Sound, Abstract!Earlier,
       Earlier, Abstract!StatusesOf, StatusesOf, Abstract!Setting, Setting,
       Abstract!Effective, Effective, Abstract!HashesOf, HashesOf,
       Abstract!Agrees, Agrees, Abstract!Rival, Rival, Abstract!Relevant,
       Relevant, Abstract!OutsideTrace, OutsideTrace, Abstract!Unlinked,
       Unlinked, Abstract!MissingAncestry, MissingAncestry,
       Abstract!confluence_proof_covers, confluence_proof_covers,
       Abstract!accepted_proof_evidence, accepted_proof_evidence,
       Abstract!Unsigned, Unsigned, Abstract!signature_result,
       signature_result, Abstract!Uncommitted, Uncommitted,
       Abstract!event_commitment, event_commitment, Abstract!OtherPolicy,
       OtherPolicy, Abstract!OffLog, OffLog, Abstract!Disagrees, Disagrees,
       Abstract!SortsBefore, SortsBefore, Abstract!dominant_status,
       dominant_status, Abstract!StatusKind, StatusKind,
       Abstract!EVENT_TO_STATUS, EVENT_TO_STATUS, Abstract!StatusCode,
       StatusCode, Abstract!STATUS_PRIORITY, STATUS_PRIORITY

\* No delivery, no conclusion.
LEMMA EmptyIsReceived ==
  ASSUME Init
  PROVE  Abstract!AInit
<1>1. LedgerOf(log) = [e \in {} |-> 1]
  BY DEF Init, LedgerOf
<1> QED BY <1>1 DEF Init, Abstract!AInit, Abstract!EmptyBag, Abstract!SetToBag

\* A delivery adds one copy of its event to the ledger, wherever it is sorted.
LEMMA DeliveryIsReceived ==
  ASSUME Inv, Deliver
  PROVE  Abstract!Receive
<1>1. PICK e \in Events : log' = Append(log, e)
  BY DEF Deliver
<1>2. log \in Seq(Events) /\ UNCHANGED <<order, result>>
  BY DEF Deliver, Inv, TypeOK
<1>3. /\ DOMAIN log = 1..Len(log) /\ Len(log) \in Nat
      /\ DOMAIN log' = DOMAIN log \cup {Len(log) + 1}
      /\ Len(log) + 1 \notin DOMAIN log
      /\ log'[Len(log) + 1] = e
      /\ \A i \in DOMAIN log : log'[i] = log[i]
  BY <1>1, <1>2
<1> DEFINE T(x) == {i \in DOMAIN log : log[i] = x}
           U(x) == {i \in DOMAIN log' : log'[i] = x}
           old == {log[i] : i \in DOMAIN log}
           B == LedgerOf(log)
<1>4. ASSUME NEW x PROVE IsFiniteSet(T(x)) /\ Cardinality(T(x)) \in Nat
  <2>1. IsFiniteSet(1..Len(log))
    BY <1>3, FS_Interval
  <2>2. IsFiniteSet(T(x))
    BY <1>3, <2>1, FS_Subset
  <2> QED BY <2>2, FS_CardinalityType
<1>5. ASSUME NEW x PROVE U(x) = IF x = e THEN T(x) \cup {Len(log) + 1} ELSE T(x)
  BY <1>3
<1>6. ASSUME NEW x
      PROVE  Cardinality(U(x)) = Cardinality(T(x)) + (IF x = e THEN 1 ELSE 0)
  <2>1. CASE x = e
    <3>1. U(x) = T(x) \cup {Len(log) + 1} /\ Len(log) + 1 \notin T(x)
      BY <1>3, <1>5, <2>1
    <3> HIDE DEF T, U
    <3> QED BY <1>4, <2>1, <3>1, FS_AddElement
  <2>2. CASE x # e
    <3>1. U(x) = T(x)
      BY <1>5, <2>2
    <3> HIDE DEF T, U
    <3> QED BY <1>4, <2>2, <3>1
  <2> QED BY <2>1, <2>2
<1>7. ASSUME NEW x, x \notin old PROVE Cardinality(T(x)) = 0
  <2>1. T(x) = {}
    BY <1>7
  <2> QED BY <2>1, FS_EmptySet
<1>8. {log'[i] : i \in DOMAIN log'} = old \cup {e}
  BY <1>3
<1>9. LedgerOf(log)' = [x \in old \cup {e} |-> Cardinality(U(x))]
  BY <1>8 DEF LedgerOf
<1>10. B = [x \in old |-> Cardinality(T(x))]
  BY DEF LedgerOf
<1> DEFINE C == Abstract!SetToBag({e})
<1>11. C = [x \in {e} |-> 1]
  BY DEF Abstract!SetToBag
<1>12. Abstract!(+)(B, C) =
         [x \in old \cup {e} |->
            (IF x \in old THEN B[x] ELSE 0) + (IF x \in {e} THEN C[x] ELSE 0)]
  BY <1>10, <1>11 DEF Abstract!(+)
<1>13. LedgerOf(log)' = Abstract!(+)(B, C)
  <2>1. ASSUME NEW x \in old \cup {e}
        PROVE  Cardinality(U(x)) =
                 (IF x \in old THEN B[x] ELSE 0) + (IF x \in {e} THEN C[x] ELSE 0)
    <3> HIDE DEF T, U, old, B, C
    <3> QED BY <1>4, <1>6, <1>7, <1>10, <1>11
  <2> HIDE DEF U, old, B, C
  <2> QED BY <1>9, <1>12, <2>1
<1> QED BY <1>2, <1>13 DEF Abstract!Receive

\* A return concludes the ledger.
LEMMA ReturnIsConcluded ==
  ASSUME Inv, MeaningInv, Return
  PROVE  Abstract!Conclude
<1>1. /\ UNCHANGED <<order, log>> /\ result' = FoldResult(acc, order)
      /\ log \in Seq(Events)
  BY DEF Return, Inv, TypeOK
<1>2. result'.dominant = Meaning(LedgerOf(log), order)
  BY <1>1, ReturnOfMeaning DEF Return
<1>3. LedgerOf(log)' = LedgerOf(log)
  BY <1>1, SameLog
<1>4. result' # None
  <2>1. /\ result'.dominant \in StatusCode
        /\ result'.blocks \subseteq FailureCode \X EventId
        /\ result'.coordinates \subseteq StatusKind \X StatusCode \X EventId
    BY <1>1, ReturnOfLoop DEF Inv, TypeOK, LoopInv
  <2>2. result' \in Results
    BY <1>1, <2>1 DEF FoldResult, Results
  <2> QED BY <2>2, NoneAssumption
<1> QED BY <1>1, <1>2, <1>3, <1>4, SameMeaning DEF Abstract!Conclude

\* The loop of fold_status implements the abstract ledger: whatever the order
\* of delivery, a replay returns what the delivered events mean.
THEOREM ImplementsTheMeaning == Spec => ImplementsMeaning
<1>1. Init => Abstract!AInit
  BY EmptyIsReceived
<1>2. Inv /\ MeaningInv /\ [Next]_vars => [Abstract!ANext]_(Abstract!avars)
  <2> SUFFICES ASSUME Inv, MeaningInv, [Next]_vars
               PROVE  [Abstract!ANext]_(Abstract!avars)
    OBVIOUS
  <2>1. CASE Deliver
    BY <2>1, DeliveryIsReceived DEF Abstract!ANext
  <2>2. CASE Start \/ Loop \/ UNCHANGED vars
    <3>1. UNCHANGED <<order, log, result>>
      BY <2>2 DEF Start, Loop, Skip, Exclude, Reject, OtherPolicyVersion, Note,
                  Disagree, SetStatus, Turn, vars
    <3>2. LedgerOf(log)' = LedgerOf(log)
      BY <3>1 DEF LedgerOf
    <3> QED BY <3>1, <3>2 DEF Abstract!avars
  <2>3. CASE Return
    BY <2>3, ReturnIsConcluded DEF Abstract!ANext
  <2> QED BY <2>1, <2>2, <2>3 DEF Next
<1> QED
  BY <1>1, <1>2, FoldInvariant, MeaningInvariant, PTL
  DEF Spec, ImplementsMeaning, Abstract!ASpec
=============================================================================
