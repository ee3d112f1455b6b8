-------------------------- MODULE MCClaimEvaluation --------------------------
(***************************************************************************)
(* An instance of ClaimEvaluation: formulas of temporal depth two over one *)
(* predicate and a horizon of two steps.                                   *)
(***************************************************************************)
EXTENDS ClaimEvaluation

CONSTANTS off, on

MCState == {off, on}

MCPredicate == [is_on |-> {on}, true |-> {off, on}]

\* A source moved d places on.
Moved(f, d) ==
  [k \in DOMAIN f |->
     LET n == f[k]
     IN CASE n.op \in {"not", "G", "F"} -> [n EXCEPT !.child = @ + d]
          [] n.op \in {"and", "or"} ->
               [n EXCEPT !.children = [j \in DOMAIN n.children |-> n.children[j] + d]]
          [] n.op = "U" -> [n EXCEPT !.left = @ + d, !.right = @ + d]
          [] OTHER -> n]

\* Two sources and a root above them, and a root above one.
Above(f, g, root) == f \o Moved(g, Len(f)) \o <<root>>

Atom(n) == <<[op |-> "atom", name |-> n]>>
Negated(f) == Append(f, [op |-> "not", child |-> Len(f)])
Joined(op, f, g) ==
  Above(f, g, [op |-> op, children |-> <<Len(f), Len(f) + Len(g)>>])
Bounded(op, a, b, f) ==
  Append(f, [op |-> op, a |-> a, b |-> b, child |-> Len(f)])
Until(a, b, f, g) ==
  Above(f, g, [op |-> "U", a |-> a, b |-> b, left |-> Len(f),
               right |-> Len(f) + Len(g)])

Intervals == {i \in (0..2) \X (0..2) : i[1] <= i[2]}

Literals == {Atom("is_on"), Negated(Atom("is_on"))}

Timed == {Bounded(op, i[1], i[2], Atom("is_on")) : op \in {"G", "F"}, i \in Intervals}
         \cup {Until(i[1], i[2], f, g) : i \in Intervals, f \in Literals, g \in Literals}

Nested ==
  {Bounded(op, i[1], i[2], f) : op \in {"G", "F"}, i \in Intervals, f \in Timed}
  \cup {Until(i[1], i[2], f, g) : i \in {<<0, 1>>, <<1, 2>>}, f \in Timed, g \in Literals}
  \cup {Until(i[1], i[2], f, g) : i \in {<<0, 1>>, <<1, 2>>}, f \in Literals, g \in Timed}

\* Conjunctions and disjunctions with a part that may look too far, in
\* either order.
Both ==
  {Joined(op, f, g) : op \in {"and", "or"}, f \in Literals,
                      g \in {Bounded("F", 1, 1, h) : h \in Timed}}
  \cup {Joined(op, g, f) : op \in {"and", "or"}, f \in Literals,
                           g \in {Bounded("F", 1, 1, h) : h \in Timed}}

Malformed ==
  {Atom("unregistered"), Negated(Atom("unregistered")), <<[op |-> "X"]>>,
   <<[op |-> "and", children |-> <<>>]>>, Bounded("G", 0, 3, Atom("is_on")),
   Bounded("F", 1, 0, Atom("is_on")), Bounded("F", -1, 0, Atom("is_on")),
   Until(0, 1, Atom("true"), Atom("unregistered")),
   Joined("or", Atom("is_on"), Bounded("G", 2, 3, Atom("true")))}

MCFormulas == Literals \cup Timed \cup {Negated(f) : f \in Timed} \cup Nested
              \cup Both \cup Malformed
=============================================================================
