---------------------------- MODULE LifecycleFold ----------------------------
(***************************************************************************)
(* dfcc.lifecycle.fold_status as a state machine.  Events are delivered to *)
(* a log in any order, with duplicates and gaps (Deliver); fold_status is  *)
(* called on the log at any time (Start), takes one turn of its loop per   *)
(* step, in sorted order, and returns (Return).  A caller replays a log    *)
(* that has grown since: the fold keeps nothing between calls but the      *)
(* result it returned.                                                     *)
(***************************************************************************)
EXTENDS LifecycleMeaning

CONSTANTS
  Events,         \* the events that may be delivered
  Orders,         \* the EventOrders a caller may pass
  MaxLog          \* bound: length of the log

ASSUME EventsAssumption ==
  /\ EventId \subseteq Nat
  /\ \A e \in Events :
       /\ e.id \in EventId
       /\ e.kind \in EventKind
       /\ e.clock \in Nat
       /\ e.time \in Nat

ASSUME OrdersAssumption == \A o \in Orders : o.accepted \subseteq EventId

ASSUME MaxLogAssumption == MaxLog \in Nat

\* The FoldResults fold_status can return.
Results == [dominant : StatusCode,
            blocks : SUBSET (FailureCode \X EventId),
            coordinates : SUBSET (StatusKind \X StatusCode \X EventId)]

ASSUME NoneAssumption == None \notin Results

VARIABLES
  order,          \* the event_order argument and the policy_version
  log,            \* the event_log argument, in order of delivery
  running,        \* is a call of fold_status in progress?
  handled,        \* places of the log the loop has been through
  acc,            \* the locals of the loop
  result          \* the FoldResult of the last call, or None

vars == <<order, log, running, handled, acc, result>>

-----------------------------------------------------------------------------
\* A variant: the log is read as it was delivered.
IsNextDelivered(i) ==
  i \in DOMAIN log \ handled /\ \A j \in DOMAIN log \ handled : i <= j

\* the next place of sorted(event_log)
IsNext(i) ==
  /\ i \in DOMAIN log \ handled
  /\ \A j \in DOMAIN log \ handled : j # i => SortsBefore(log[i], i, log[j], j)

Init ==
  /\ order \in Orders
  /\ log = << >>
  /\ running = FALSE
  /\ handled = {}
  /\ acc = EmptyFold
  /\ result = None

Deliver ==
  /\ ~ running
  /\ Len(log) < MaxLog
  /\ \E e \in Events : log' = Append(log, e)
  /\ UNCHANGED <<order, running, handled, acc, result>>

Start ==
  /\ ~ running
  /\ running' = TRUE
  /\ handled' = {}
  /\ acc' = EmptyFold
  /\ UNCHANGED <<order, log, result>>

\* A turn of the loop that takes the given branch.
Turn(branch) ==
  /\ running
  /\ \E i \in DOMAIN log :
       /\ IsNext(i)
       /\ Branch(acc, log[i], order) = branch
       /\ handled' = handled \cup {i}
       /\ acc' = FoldEvent(acc, log[i], order)
  /\ UNCHANGED <<order, log, running, result>>

Skip        == Turn("skip")
Exclude     == Turn("exclude")
Reject      == Turn("reject")
OtherPolicyVersion == Turn("other_policy")
Note        == Turn("note")
Disagree    == Turn("disagree")
SetStatus   == Turn("apply")

Return ==
  /\ running
  /\ handled = DOMAIN log
  /\ running' = FALSE
  /\ result' = FoldResult(acc, order)
  /\ UNCHANGED <<order, log, handled, acc>>

Loop ==
  \/ Skip \/ Exclude \/ Reject \/ OtherPolicyVersion
  \/ Note \/ Disagree \/ SetStatus

Next == Deliver \/ Start \/ Loop \/ Return

Spec == Init /\ [][Next]_vars

-----------------------------------------------------------------------------
(***************************************************************************)
(* Type invariant.  The locals hold ids of events, statuses and codes of   *)
(* the protocol; "active" is never withdrawn.                              *)
(***************************************************************************)
Locals == {"seenIds", "seenHashes", "clocks", "statuses", "coordinates",
           "blocks", "acceptedSeen"}

HasShape(f) == f = [x \in Locals |-> f[x]]

FoldType(f) ==
  /\ HasShape(f)
  /\ f.seenIds \subseteq EventId
  /\ f.acceptedSeen \subseteq EventId
  /\ f.statuses \subseteq StatusCode
  /\ "active" \in f.statuses
  /\ f.blocks \subseteq FailureCode \X EventId
  /\ f.coordinates \subseteq StatusKind \X StatusCode \X EventId
  /\ \A c \in DOMAIN f.clocks :
       f.clocks[c].id \in EventId /\ f.clocks[c].status \in StatusCode

TypeOK ==
  /\ order \in Orders
  /\ log \in Seq(Events)
  /\ running \in BOOLEAN
  /\ handled \subseteq DOMAIN log
  /\ FoldType(acc)
  /\ result # None =>
       /\ result.dominant \in StatusCode
       /\ result.blocks \subseteq FailureCode \X EventId
       /\ result.coordinates \subseteq StatusKind \X StatusCode \X EventId

(***************************************************************************)
(* A replay reports "active" exactly when it recorded no blocking record:  *)
(* every one of the fold's many exits keeps its two lists, statuses and    *)
(* blocks, in step.  authority.py relies on it when it goes on after       *)
(* looking at dominant_status alone.                                       *)
(***************************************************************************)
ActiveIffUnblocked ==
  result # None => (result.dominant = "active" <=> result.blocks = {})

\* The result is of the whole log, not of a shorter one.
Current == ~ running /\ result # None /\ handled = DOMAIN log

(***************************************************************************)
(* No status event of the certificate is lost.  Whatever rejects it and    *)
(* whatever the order of delivery, the replay ends at least as strong as   *)
(* the status the event sets; an event admitted under another policy       *)
(* version still forbids "active".                                         *)
(***************************************************************************)
Floor(e, o) ==
  IF OtherPolicy(e, o) THEN STATUS_PRIORITY["unknown"]
  ELSE STATUS_PRIORITY[EVENT_TO_STATUS[e.kind]]

NothingLost ==
  Current =>
    \A i \in DOMAIN log :
      Relevant(log[i], order) /\ log[i].kind \in StatusKind =>
        STATUS_PRIORITY[result.dominant] >= Floor(log[i], order)

(***************************************************************************)
(* Delivering more of the log never weakens a decided status: a replay     *)
(* that ended short of "conflict" is followed only by stronger ones, even  *)
(* when the new events sort before the old.  (A conflict may be resolved   *)
(* by the delivery of the parent it was waiting for.)                      *)
(***************************************************************************)
Ratchet ==
  [][result # None /\ result.dominant # "conflict" =>
       STATUS_PRIORITY[result'.dominant] >= STATUS_PRIORITY[result.dominant]
    ]_result

-----------------------------------------------------------------------------
(***************************************************************************)
(* The loop computes the meaning of the log: the ledger is the log without *)
(* its order, and a return is a conclusion.                                *)
(***************************************************************************)
Abstract == INSTANCE LifecycleLedger
              WITH ledger <- LedgerOf(log),
                   verdict <- IF result = None THEN None ELSE result.dominant

(***************************************************************************)
(* A replay returns what the set of delivered events means, whatever the   *)
(* order in which they were delivered and logged.                          *)
(***************************************************************************)
ImplementsMeaning == Abstract!ASpec
=============================================================================
