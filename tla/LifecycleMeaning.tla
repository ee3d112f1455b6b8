-------------------------- MODULE LifecycleMeaning --------------------------
(***************************************************************************)
(* What a lifecycle log means, without a loop and without an order of      *)
(* delivery: a log with any defect means "conflict"; a log with none means *)
(* the strongest of the statuses its events set.  A log is a ledger here:  *)
(* how often each event was delivered.                                     *)
(***************************************************************************)
EXTENDS LifecycleRules, Sequences

LedgerOf(log) ==
  [e \in {log[i] : i \in DOMAIN log} |->
     Cardinality({i \in DOMAIN log : log[i] = e})]

Considered(ledger, order) == {e \in DOMAIN ledger : Relevant(e, order)}

\* Every other considered event is "earlier" or "later", ids being distinct.
Earlier(e, S) == {f \in S : SortsBefore(f, 0, e, 0)}

IdsOf(S) == {f.id : f \in S}

\* Effective events: those not admitted under another policy version.
Effective(S, order) == {f \in S : ~ OtherPolicy(f, order)}

\* The effective events that set a status.
Setting(S, order) == {f \in Effective(S, order) : f.kind \in StatusKind}

HashesOf(S) == {event_commitment(f) : f \in S} \cup UNION {f.hashes : f \in S}

Distinct(ledger, S) ==
  /\ \A e \in S : ledger[e] = 1
  /\ \A e, f \in S : e.id = f.id => e = f

\* The latest event of E that set a status at e's clock.
Rival(e, E, order) ==
  LET peers == {f \in Setting(E, order) : f.clock = e.clock}
  IN {f \in peers : \A g \in peers : ~ SortsBefore(f, 0, g, 0)}

Agrees(e, E, order) ==
  \A f \in Rival(e, E, order) :
    ~ Disagrees(e, order,
                [c \in {e.clock} |->
                   [id |-> f.id, status |-> EVENT_TO_STATUS[f.kind]]])

\* Nothing is wrong with e, E being the events before it.
Sound(e, E, order) ==
  /\ ~ OutsideTrace(e, order)
  /\ ~ Unlinked(e, order, IdsOf(E))
  /\ ~ Unsigned(e)
  /\ ~ Uncommitted(e, HashesOf(Effective(E, order)))
  /\ ~ OtherPolicy(e, order) =>
       /\ ~ OffLog(e, order)
       /\ e.kind \in StatusKind => Agrees(e, E, order)

Defective(ledger, order) ==
  LET S == Considered(ledger, order) IN
  \/ ~ Distinct(ledger, S)
  \/ ~ (order.accepted \subseteq IdsOf(S))
  \/ \E e \in S : ~ Sound(e, Earlier(e, S), order)

StatusesOf(S, order) ==
  {"active"} \cup {EVENT_TO_STATUS[f.kind] : f \in Setting(S, order)}
    \cup {"unknown" : f \in S \ Effective(S, order)}

Meaning(ledger, order) ==
  IF Defective(ledger, order) THEN "conflict"
  ELSE dominant_status(StatusesOf(Considered(ledger, order), order))
=============================================================================
