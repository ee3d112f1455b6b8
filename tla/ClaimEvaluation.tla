--------------------------- MODULE ClaimEvaluation ---------------------------
(***************************************************************************)
(* dfcc.claims: compilation of a bounded formula and its evaluation on a   *)
(* trajectory, as ClaimRecord.satisfies does it.  A claim source is the    *)
(* sequence of the nodes of its JSON tree, children before parents and the *)
(* root last; a node names its children by their places.  A trajectory is  *)
(* a sequence of states; indices count from 0.  The answers are "yes",     *)
(* "no" and "raise", for an exception.                                     *)
(***************************************************************************)
EXTENDS Integers, Sequences, SequencesExt

CONSTANTS
  State,      \* represented states
  Predicate,  \* the predicates of the registry: name |-> set of states
  Horizon,    \* ClaimRecord.horizon
  Formulas    \* the claim sources, those that do not compile included

Operator == {"atom", "not", "and", "or", "G", "F", "U"}

Node ==
  [op : {"atom"}, name : STRING]
    \cup [op : {"not"}, child : Nat]
    \cup [op : {"and", "or"}, children : Seq(Nat)]
    \cup [op : {"G", "F"}, a : Int, b : Int, child : Nat]
    \cup [op : {"U"}, a : Int, b : Int, left : Nat, right : Nat]
    \cup [op : STRING \ Operator]

Children(n) ==
  CASE n.op \in {"not", "G", "F"} -> {n.child}
    [] n.op \in {"and", "or"} -> {n.children[j] : j \in DOMAIN n.children}
    [] n.op = "U" -> {n.left, n.right}
    [] OTHER -> {}

ASSUME ClaimAssumption ==
  /\ Horizon \in Nat
  /\ \A f \in Formulas :
       /\ f \in Seq(Node) /\ f # <<>>
       /\ \A k \in DOMAIN f : Children(f[k]) \subseteq 1..(k - 1)

VARIABLES formula, claim, trajectory, answer

vars == <<formula, claim, trajectory, answer>>

-----------------------------------------------------------------------------
(* validate_formula: whether each node is valid, given that of its          *)
(* children                                                                 *)

\* _require_interval
require_interval(n) == 0 <= n.a /\ n.a <= n.b /\ n.b <= Horizon

validate_node(n, valid) ==
  CASE n.op = "atom" -> n.name \in DOMAIN Predicate
    [] n.op = "not" -> valid[n.child]
    [] n.op \in {"and", "or"} ->
         n.children # <<>> /\ \A j \in DOMAIN n.children : valid[n.children[j]]
    [] n.op \in {"G", "F"} -> require_interval(n) /\ valid[n.child]
    [] n.op = "U" -> require_interval(n) /\ valid[n.left] /\ valid[n.right]
    [] OTHER -> FALSE

Valid(f) ==
  LET valid[k \in DOMAIN f] == validate_node(f[k], valid) IN valid

validate_formula(f) == Valid(f)[Len(f)]

-----------------------------------------------------------------------------
(* evaluate_formula: the answers of each node at every index, given those   *)
(* of its children                                                          *)

\* Python's loops over answers that come one after another: the first that
\* settles the matter, be it an exception, ends the loop.
FirstOther(answers, x) ==
  LET k == SelectInSeq(answers, LAMBDA y : y # x)
  IN IF k = 0 THEN x ELSE answers[k]

AllOf(answers) == FirstOther(answers, "yes")
AnyOf(answers) == FirstOther(answers, "no")

AndThen(x, y) == IF x = "yes" THEN y ELSE x

Not(x) == CASE x = "yes" -> "no" [] x = "no" -> "yes" [] OTHER -> x

\* A variant: the end of the range belongs to it.
Steps_closed(m, n) == [k \in 1..(n - m + 1) |-> m + k - 1]

\* range(m, n)
Steps(m, n) == [k \in 1..(n - m) |-> m + k - 1]

\* A variant: the left side of U has to hold from the start of the interval.
LeftSteps_late(index, start, pivot) == Steps(index + start, pivot)

\* Where the left side of U has to hold.
LeftSteps(index, start, pivot) == Steps(index, pivot)

\* The answers of a subformula at some indices.
Along(answers, steps) == [k \in DOMAIN steps |-> answers[steps[k]]]

\* The answers of some subformulas at one index.
Across(answers, children, index) ==
  [j \in DOMAIN children |-> answers[children[j]][index]]

evaluate_atom(n, t, index) ==
  IF n.name \notin DOMAIN Predicate \/ index >= Len(t) THEN "raise"
  ELSE IF t[index + 1] \in Predicate[n.name] THEN "yes" ELSE "no"

evaluate_temporal(n, answers, index) ==
  LET pivots == Steps(index + n.a, index + n.b + 1)
  IN CASE ~ require_interval(n) -> "raise"
       [] require_interval(n) /\ n.op = "G" ->
            AllOf(Along(answers[n.child], pivots))
       [] require_interval(n) /\ n.op = "F" ->
            AnyOf(Along(answers[n.child], pivots))
       [] require_interval(n) /\ n.op = "U" ->
            AnyOf([k \in DOMAIN pivots |->
                     AndThen(answers[n.right][pivots[k]],
                          AllOf(Along(answers[n.left],
                                      LeftSteps(index, n.a, pivots[k]))))])

evaluate_node(n, t, answers) ==
  [index \in Nat |->
     CASE n.op = "atom" -> evaluate_atom(n, t, index)
       [] n.op = "not" -> Not(answers[n.child][index])
       [] n.op = "and" -> AllOf(Across(answers, n.children, index))
       [] n.op = "or" -> AnyOf(Across(answers, n.children, index))
       [] n.op \in {"G", "F", "U"} -> evaluate_temporal(n, answers, index)
       [] OTHER -> "raise"]

Answers(f, t) ==
  LET answers[k \in DOMAIN f] == evaluate_node(f[k], t, answers) IN answers

evaluate_formula(f, t, index) == Answers(f, t)[Len(f)][index]

\* ClaimRecord.satisfies
satisfies(f, t) ==
  IF Len(t) # Horizon + 1 THEN "no" ELSE evaluate_formula(f, t, 0)

-----------------------------------------------------------------------------
Init ==
  /\ formula \in Formulas
  /\ claim = "source"
  /\ trajectory = <<>>
  /\ answer = "none"

\* compile_claim, or the ClaimCompileError it raises.
Compile ==
  /\ claim = "source"
  /\ claim' = IF validate_formula(formula) THEN "compiled" ELSE "refused"
  /\ UNCHANGED <<formula, trajectory, answer>>

Unfinished == Len(trajectory) <= Horizon

\* A trajectory of the bundle gets its next state.
Extend ==
  /\ claim = "compiled"
  /\ Unfinished
  /\ \E s \in State : trajectory' = Append(trajectory, s)
  /\ answer' = "none"
  /\ UNCHANGED <<formula, claim>>

Evaluate ==
  /\ claim = "compiled"
  /\ answer = "none"
  /\ answer' = satisfies(formula, trajectory)
  /\ UNCHANGED <<formula, claim, trajectory>>

Next == Compile \/ Extend \/ Evaluate

Spec == Init /\ [][Next]_vars

-----------------------------------------------------------------------------
(* Reference: the meaning of a formula on a word that is long enough, a     *)
(* temporal operator quantifying over its interval                          *)

Word(t, more) ==
  [i \in Nat |-> IF i < Len(t) THEN t[i + 1] ELSE more[i + 1 - Len(t)]]

hold_node(n, w, holds) ==
  [i \in Nat |->
     CASE n.op = "atom" -> w[i] \in Predicate[n.name]
       [] n.op = "not" -> ~ holds[n.child][i]
       [] n.op = "and" -> \A j \in DOMAIN n.children : holds[n.children[j]][i]
       [] n.op = "or" -> \E j \in DOMAIN n.children : holds[n.children[j]][i]
       [] n.op = "G" -> \A p \in (i + n.a)..(i + n.b) : holds[n.child][p]
       [] n.op = "F" -> \E p \in (i + n.a)..(i + n.b) : holds[n.child][p]
       [] n.op = "U" -> \E p \in (i + n.a)..(i + n.b) :
                          /\ holds[n.right][p]
                          /\ \A q \in i..(p - 1) : holds[n.left][q]
       [] OTHER -> FALSE]

Meaning(f, w) ==
  LET holds[k \in DOMAIN f] == hold_node(f[k], w, holds) IN holds

Holds(f, w, i) == Meaning(f, w)[Len(f)][i]

\* How far ahead a formula looks.
Furthest(S) == CHOOSE m \in S : \A i \in S : i <= m

reach_node(n, reaches) ==
  LET inside == Furthest({0} \cup {reaches[c] : c \in Children(n)})
  IN IF n.op \in {"G", "F", "U"} THEN n.b + inside ELSE inside

Reaches(f) ==
  LET reaches[k \in DOMAIN f] == reach_node(f[k], reaches) IN reaches

Reach(f) == Reaches(f)[Len(f)]

Evaluated == answer # "none" /\ Len(trajectory) = Horizon + 1

-----------------------------------------------------------------------------
\* An answer on a trajectory of the horizon's length is final: it is the
\* meaning of the formula on the trajectory however it might go on, although
\* the evaluation stops early, may skip what it cannot see and never looks
\* past the end (claims.py:189-241).
AnswerIsFinal ==
  Evaluated /\ answer # "raise" =>
    \A more \in [1..Reach(formula) -> State] :
      (answer = "yes") <=> Holds(formula, Word(trajectory, more), 0)

\* A formula whose nested intervals add up to no more than the horizon is
\* evaluated without an exception.
WithinHorizonEvaluates ==
  Evaluated /\ Reach(formula) <= Horizon => answer # "raise"

\* claims.py:3-4: "The kernel requires a bounded language whose compiler
\* produces satisfaction sets over finite represented trajectories."  Every
\* formula that compiles has an answer on every trajectory.
CompiledClaimsEvaluate ==
  Evaluated => answer # "raise"
=============================================================================
