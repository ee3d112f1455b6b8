--------------------------- MODULE LifecycleLedger ---------------------------
(***************************************************************************)
(* The abstract specification of fold_status.  Events reach a ledger in no *)
(* particular order, and from time to time the ledger is concluded.  The   *)
(* verdict depends on what was delivered only, not on the order of         *)
(* delivery.                                                               *)
(***************************************************************************)
EXTENDS LifecycleMeaning, Bags

CONSTANTS
  Events          \* the events that may be delivered

VARIABLES
  order,          \* the EventOrder and policy version of the caller, fixed
  ledger,         \* bag of the events delivered so far
  verdict         \* dominant status of the last conclusion, or None

avars == <<order, ledger, verdict>>

AInit ==
  /\ ledger = EmptyBag
  /\ verdict = None

Receive ==
  \E e \in Events :
    /\ ledger' = ledger (+) SetToBag({e})
    /\ UNCHANGED <<order, verdict>>

Conclude ==
  /\ verdict' = Meaning(ledger, order)
  /\ UNCHANGED <<order, ledger>>

ANext == Receive \/ Conclude

ASpec == AInit /\ [][ANext]_avars
=============================================================================
