----------------------------- MODULE StatusClock -----------------------------
(***************************************************************************)
(* dfcc.time: a status time with an uncertainty, read against the anchors  *)
(* of a certificate's horizon.  Instants are integers (microseconds).      *)
(* The state machine asks for the clock of one certificate at later and    *)
(* later status times.                                                     *)
(***************************************************************************)
EXTENDS Integers

CONSTANTS
  MaxHorizon,     \* bound: the largest horizon, HorizonAnchor.horizon
  Instants,       \* the instants at which anchors are placed
  Uncertainties,  \* TimeBasis.uncertainty_seconds
  StatusTimes     \* the status times asked for

ASSUME ClockAssumption ==
  /\ MaxHorizon \in Nat
  /\ Instants \subseteq Int
  /\ Uncertainties \subseteq Nat
  /\ StatusTimes \subseteq Int

VARIABLES anchors, uncertainty, status_time, clock

clock_vars == <<anchors, uncertainty, status_time, clock>>

\* HorizonAnchor.from_times: nonempty and strictly increasing; the horizon
\* is the index of the last anchor.
HorizonAnchors ==
  UNION {{a \in [0..n -> Instants] : \A i \in 1..n : a[i - 1] < a[i]} :
           n \in 0..MaxHorizon}

Horizon(a) == CHOOSE n \in 0..MaxHorizon : DOMAIN a = 0..n

-----------------------------------------------------------------------------
\* A variant: an anchor counts as completed only after it.
completed_late(a, point) ==
  CHOOSE i \in 0..Horizon(a) :
    /\ \A j \in 1..i : a[j] < point
    /\ i < Horizon(a) => point <= a[i + 1]

\* A variant: how many anchors are completed, not which is the last.
completed_count(a, point) ==
  CHOOSE i \in 0..Horizon(a) + 1 :
    /\ \A j \in 0..(i - 1) : a[j] <= point
    /\ i <= Horizon(a) => point < a[i]

\* The loop over the anchors: the last one not after the point, and 0 for a
\* point before the first.
completed(a, point) ==
  CHOOSE i \in 0..Horizon(a) :
    /\ \A j \in 1..i : a[j] <= point
    /\ i < Horizon(a) => point < a[i + 1]

\* A variant: the margin around the horizon's end is taken from the centre.
status_clock_widening(t, u, a) ==
  IF t + u < a[0] THEN [status |-> "not_effective", index |-> -1]
  ELSE IF t + u > a[Horizon(a)] THEN [status |-> "expired", index |-> -1]
  ELSE [status |-> "active", index |-> completed(a, t + u) - completed(a, t - u)]

\* index is -1 where the code has None.
status_clock(t, u, a) ==
  LET lower == t - u
      upper == t + u
  IN IF upper < a[0] THEN [status |-> "not_effective", index |-> -1]
     ELSE IF lower > a[Horizon(a)] THEN [status |-> "expired", index |-> -1]
     ELSE IF completed(a, lower) # completed(a, upper)
       THEN [status |-> "boundary_unknown", index |-> -1]
     ELSE [status |-> "active", index |-> completed(a, lower)]

ClockInit ==
  /\ anchors \in HorizonAnchors
  /\ uncertainty \in Uncertainties
  /\ status_time \in StatusTimes
  /\ clock = status_clock(status_time, uncertainty, anchors)

AskLater ==
  /\ \E t \in StatusTimes :
       /\ t > status_time
       /\ status_time' = t
       /\ clock' = status_clock(t, uncertainty, anchors)
  /\ UNCHANGED <<anchors, uncertainty>>

ClockNext == AskLater

ClockSpec == ClockInit /\ [][ClockNext]_clock_vars

-----------------------------------------------------------------------------
lower == status_time - uncertainty
upper == status_time + uncertainty

(***************************************************************************)
(* Type invariant: the clock has an index exactly when it is active, and   *)
(* the index is one of the anchors'.                                       *)
(***************************************************************************)
ClockTypeOK ==
  /\ anchors \in HorizonAnchors
  /\ uncertainty \in Uncertainties
  /\ status_time \in StatusTimes
  /\ clock.status \in {"active", "not_effective", "expired", "boundary_unknown"}
  /\ clock.index \in -1..MaxHorizon
  /\ clock.index \in DOMAIN anchors <=> clock.status = "active"

(***************************************************************************)
(* An active clock is never in doubt about a step of the horizon: no       *)
(* anchor after the first lies inside the uncertainty interval, and the    *)
(* index is right for every instant of it, not for its ends only.          *)
(***************************************************************************)
IndexNotInDoubt ==
  clock.status = "active" =>
    \A i \in DOMAIN anchors \ {0} :
      /\ ~ (lower < anchors[i] /\ anchors[i] <= upper)
      /\ i <= clock.index <=> anchors[i] <= lower

(***************************************************************************)
(* Status time only moves a certificate forward: the index never falls,    *)
(* an expired certificate stays expired, and one that has become effective *)
(* is never again not effective.                                           *)
(***************************************************************************)
Place(c) ==
  CASE c.status = "not_effective" -> -1
    [] c.status = "expired" -> MaxHorizon + 1
    [] OTHER -> c.index

OneWay ==
  [][/\ clock.status # "boundary_unknown" /\ clock'.status # "boundary_unknown"
          => Place(clock) <= Place(clock')
     /\ clock.status = "boundary_unknown" => clock'.status # "not_effective"
     /\ clock.status = "expired" => clock'.status = "expired"]_clock_vars
=============================================================================
