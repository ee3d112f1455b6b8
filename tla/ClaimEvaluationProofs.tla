------------------------ MODULE ClaimEvaluationProofs ------------------------
(***************************************************************************)
(* Proofs about ClaimEvaluation, for every set of states, registry and     *)
(* horizon, and for claim sources of any depth.                            *)
(***************************************************************************)
EXTENDS ClaimEvaluation, WellFoundedInduction, TLAPS

(***************************************************************************)
(* Induction, as the existence of a least counterexample.                  *)
(***************************************************************************)
LEMMA HasLeast ==
  ASSUME NEW T, T \subseteq Nat, T # {}
  PROVE  \E m \in T : \A k \in T : m <= k
<1> DEFINE R == {ss \in Nat \X Nat : ss[1] < ss[2]}
<1>1. IsWellFoundedOn(R, Nat)
  BY NatLessThanWellFounded DEF OpToRel
<1> HIDE DEF R
<1>2. PICK m \in T : \A k \in T : <<k, m>> \notin R
  BY <1>1, WFMin
<1>3. ASSUME NEW k \in T PROVE m <= k
  <2>1. <<k, m>> \in Nat \X Nat /\ <<k, m>>[1] = k /\ <<k, m>>[2] = m
    OBVIOUS
  <2>2. ~ (k < m)
    BY <1>2, <2>1 DEF R
  <2> QED BY <2>2
<1> QED BY <1>3

(***************************************************************************)
(* Recursion over the nodes of a source.  R computes a table of values     *)
(* from a table; if the value at a place depends on the places before it   *)
(* only, then some table is what R computes from it.                       *)
(***************************************************************************)
Causal(R, n, T) ==
  /\ R \in [[1..n -> T] -> [1..n -> T]]
  /\ \A g, h \in [1..n -> T] : \A k \in 1..n :
       (\A j \in 1..(k - 1) : g[j] = h[j]) => R[g][k] = R[h][k]

LEMMA TableExists ==
  ASSUME NEW n \in Nat, NEW T, T # {}, NEW R, Causal(R, n, T)
  PROVE  \E g \in [1..n -> T] : R[g] = g
<1> DEFINE Good(m) == \E g \in [1..n -> T] : \A k \in 1..m : R[g][k] = g[k]
           Bad == {m \in 0..n : ~ Good(m)}
<1>1. Good(0)
  <2>1. PICK x \in T : TRUE
    OBVIOUS
  <2>2. [k \in 1..n |-> x] \in [1..n -> T]
    BY <2>1
  <2>3. 1..0 = {}
    OBVIOUS
  <2> QED BY <2>2, <2>3, Zenon
<1>2. ASSUME NEW m \in 1..n, Good(m - 1) PROVE Good(m)
  <2>1. PICK g \in [1..n -> T] : \A k \in 1..(m - 1) : R[g][k] = g[k]
    BY <1>2, Zenon
  <2>2. R[g] \in [1..n -> T]
    BY DEF Causal
  <2>3. ASSUME NEW k \in 1..m PROVE R[R[g]][k] = R[g][k]
    <3>1. k \in 1..n
      OBVIOUS
    <3>2. \A j \in 1..(k - 1) : R[g][j] = g[j]
      BY <2>1
    <3> HIDE DEF Good
    <3> QED BY <2>2, <3>1, <3>2 DEF Causal
  <2> QED BY <2>2, <2>3, Zenon
<1> HIDE DEF Good
<1>3. Bad = {}
  <2> SUFFICES ASSUME Bad # {} PROVE FALSE
    OBVIOUS
  <2>1. Bad \subseteq Nat
    OBVIOUS
  <2>2. PICK m \in Bad : \A k \in Bad : m <= k
    BY <2>1, HasLeast, Zenon
  <2>3. m \in 0..n /\ ~ Good(m)
    BY <2>2
  <2>4. m \in 1..n /\ m - 1 \in 0..n
    BY <1>1, <2>3
  <2>5. m - 1 \notin Bad
    BY <2>2, <2>4
  <2>6. Good(m - 1)
    BY <2>4, <2>5
  <2> QED BY <1>2, <2>3, <2>4, <2>6
<1>4. Good(n)
  BY <1>3
<1>5. PICK g \in [1..n -> T] : \A k \in 1..n : R[g][k] = g[k]
  BY <1>4 DEF Good
<1>6. R[g] \in [1..n -> T]
  BY DEF Causal
<1>7. R[g] = g
  BY <1>5, <1>6
<1> QED BY <1>7

\* What is computed from values of a type has that type.
LEMMA TableTyped ==
  ASSUME NEW n \in Nat, NEW T, NEW V, V = [k \in 1..n |-> V[k]],
         \A k \in 1..n : (\A j \in 1..(k - 1) : V[j] \in T) => V[k] \in T
  PROVE  V \in [1..n -> T]
<1> DEFINE Bad == {k \in 1..n : V[k] \notin T}
<1>1. Bad = {}
  <2> SUFFICES ASSUME Bad # {} PROVE FALSE
    OBVIOUS
  <2>1. PICK m \in Bad : \A k \in Bad : m <= k
    <3>1. Bad \subseteq Nat
      OBVIOUS
    <3> QED BY <3>1, HasLeast, Zenon
  <2>2. ASSUME NEW j \in 1..(m - 1) PROVE V[j] \in T
    <3>1. j \in 1..n /\ ~ (m <= j)
      OBVIOUS
    <3> QED BY <2>1, <3>1
  <2> QED BY <2>1, <2>2
<1> QED BY <1>1

-----------------------------------------------------------------------------
(* Claim sources.                                                          *)

Source == {f \in Seq(Node) :
             /\ f # <<>>
             /\ \A k \in DOMAIN f : Children(f[k]) \subseteq 1..(k - 1)}

LEMMA SourceIs ==
  ASSUME NEW f \in Source
  PROVE  /\ Len(f) \in Nat /\ Len(f) \in 1..Len(f) /\ DOMAIN f = 1..Len(f)
         /\ \A k \in 1..Len(f) :
              f[k] \in Node /\ Children(f[k]) \subseteq 1..(k - 1)
<1>1. f \in Seq(Node) /\ f # <<>>
  BY DEF Source
<1>2. Len(f) \in Nat /\ DOMAIN f = 1..Len(f) /\ Len(f) # 0
  BY <1>1
<1> QED BY <1>1, <1>2 DEF Source

\* What the nodes with an operator are.
LEMMA NodeIs ==
  ASSUME NEW n \in Node
  PROVE  /\ n.op = "atom" => n.name \in STRING
         /\ n.op \in {"and", "or"} => n.children \in Seq(Nat)
         /\ n.op \in {"G", "F", "U"} => n.a \in Int /\ n.b \in Int
<1>1. CASE n \in [op : {"atom"}, name : STRING]
  BY <1>1
<1>2. CASE n \in [op : {"not"}, child : Nat]
  BY <1>2
<1>3. CASE n \in [op : {"and", "or"}, children : Seq(Nat)]
  BY <1>3
<1>4. CASE n \in [op : {"G", "F"}, a : Int, b : Int, child : Nat]
  BY <1>4
<1>5. CASE n \in [op : {"U"}, a : Int, b : Int, left : Nat, right : Nat]
  BY <1>5
<1>6. CASE n \in [op : STRING \ Operator]
  <2>1. n.op \notin Operator
    BY <1>6
  <2> QED BY <2>1 DEF Operator
<1>7. \/ n \in [op : {"atom"}, name : STRING]
      \/ n \in [op : {"not"}, child : Nat]
      \/ n \in [op : {"and", "or"}, children : Seq(Nat)]
      \/ n \in [op : {"G", "F"}, a : Int, b : Int, child : Nat]
      \/ n \in [op : {"U"}, a : Int, b : Int, left : Nat, right : Nat]
      \/ n \in [op : STRING \ Operator]
  BY Zenon DEF Node
<1> QED BY <1>1, <1>2, <1>3, <1>4, <1>5, <1>6, <1>7, Zenon

(***************************************************************************)
(* The tables exist and are what their definitions say.                    *)
(***************************************************************************)
LEMMA ValidateNode ==
  ASSUME NEW n, NEW g, \A c \in Children(n) : g[c] \in BOOLEAN
  PROVE  /\ validate_node(n, g) \in BOOLEAN
         /\ \A h : (\A c \in Children(n) : g[c] = h[c]) =>
              validate_node(n, g) = validate_node(n, h)
<1>1. CASE n.op = "atom"
  BY <1>1 DEF validate_node
<1>2. CASE n.op = "not"
  BY <1>2 DEF validate_node, Children
<1>3. CASE n.op \in {"and", "or"}
  <2>1. \A j \in DOMAIN n.children : n.children[j] \in Children(n)
    BY <1>3 DEF Children
  <2>2. \A h : validate_node(n, h) =
          (n.children # <<>> /\ \A j \in DOMAIN n.children : h[n.children[j]])
    BY <1>3 DEF validate_node
  <2> QED BY <2>1, <2>2
<1>4. CASE n.op \in {"G", "F"}
  BY <1>4 DEF validate_node, Children, require_interval
<1>5. CASE n.op = "U"
  BY <1>5 DEF validate_node, Children, require_interval
<1>6. CASE n.op \notin Operator
  BY <1>6 DEF validate_node, Operator
<1> QED BY <1>1, <1>2, <1>3, <1>4, <1>5, <1>6 DEF Operator

\* A name for the set of truth values, for the provers to match.
Truth == BOOLEAN

LEMMA ValidIs ==
  ASSUME NEW f \in Source
  PROVE  /\ Valid(f) \in [1..Len(f) -> BOOLEAN]
         /\ \A k \in 1..Len(f) : Valid(f)[k] = validate_node(f[k], Valid(f))
<1> DEFINE n == Len(f)
           R == [g \in [1..n -> BOOLEAN] |->
                   [k \in 1..n |-> validate_node(f[k], g)]]
<1>1. n \in Nat /\ DOMAIN f = 1..n
  BY SourceIs
<1>2. ASSUME NEW g \in [1..n -> BOOLEAN], NEW k \in 1..n
      PROVE  /\ validate_node(f[k], g) \in BOOLEAN
             /\ \A h : (\A j \in 1..(k - 1) : g[j] = h[j]) =>
                  validate_node(f[k], g) = validate_node(f[k], h)
  <2>1. Children(f[k]) \subseteq 1..(k - 1) /\ 1..(k - 1) \subseteq 1..n
    BY <1>1, SourceIs
  <2>2. \A c \in Children(f[k]) : g[c] \in BOOLEAN
    BY <2>1
  <2> QED BY <2>1, <2>2, ValidateNode, Zenon
<1> HIDE DEF n
<1>3. Truth # {} /\ Causal(R, n, Truth)
  BY <1>2 DEF Causal, Truth
<1>4. \E g \in [1..n -> Truth] : R[g] = g
  <2> HIDE DEF R
  <2> QED BY <1>1, <1>3, TableExists, SMT
<1>5. PICK g \in [1..n -> BOOLEAN] : R[g] = g
  BY <1>4 DEF Truth
<1>6. g = [k \in DOMAIN f |-> validate_node(f[k], g)]
  BY <1>1, <1>5
<1>7. Valid(f) = CHOOSE v : v = [k \in DOMAIN f |-> validate_node(f[k], v)]
  BY DEF Valid
<1>8. Valid(f) = [k \in DOMAIN f |-> validate_node(f[k], Valid(f))]
  BY <1>6, <1>7, Zenon
<1> HIDE DEF R
<1>9. Valid(f) = [k \in 1..n |-> validate_node(f[k], Valid(f))]
  BY <1>1, <1>8
<1>10. \A k \in 1..n : Valid(f)[k] = validate_node(f[k], Valid(f))
  BY <1>9, Zenon
<1>11. Valid(f) = [k \in 1..n |-> Valid(f)[k]]
  BY <1>9, <1>10
<1>12. ASSUME NEW k \in 1..n, \A j \in 1..(k - 1) : Valid(f)[j] \in BOOLEAN
       PROVE  Valid(f)[k] \in BOOLEAN
  <2>1. Children(f[k]) \subseteq 1..(k - 1)
    BY <1>1, SourceIs DEF n
  <2>2. validate_node(f[k], Valid(f)) \in BOOLEAN
    BY <1>12, <2>1, ValidateNode
  <2> QED BY <1>10, <2>2
<1>13. Valid(f) \in [1..n -> BOOLEAN]
  BY <1>1, <1>11, <1>12, TableTyped
<1> QED BY <1>10, <1>13 DEF n

-----------------------------------------------------------------------------
(* The loops over answers.                                                 *)

Answer == {"yes", "no", "raise"}

LEMMA FirstOtherIs ==
  ASSUME NEW s \in Seq(Answer), NEW x \in Answer
  PROVE  /\ FirstOther(s, x) \in Answer
         /\ FirstOther(s, x) = x <=> \A k \in DOMAIN s : s[k] = x
         /\ FirstOther(s, x) # x => \E k \in DOMAIN s : s[k] = FirstOther(s, x)
<1> DEFINE I == {k \in 1..Len(s) : s[k] # x}
<1>1. Len(s) \in Nat /\ DOMAIN s = 1..Len(s) /\ \A k \in 1..Len(s) : s[k] \in Answer
  OBVIOUS
<1>2. FirstOther(s, x) = LET k == IF I # {} THEN Min(I) ELSE 0
                         IN  IF k = 0 THEN x ELSE s[k]
  BY DEF FirstOther, SelectInSeq
<1>3. CASE I = {}
  BY <1>1, <1>2, <1>3
<1>4. CASE I # {}
  <2>1. I \subseteq Nat
    BY <1>1
  <2>2. \E m \in I : \A k \in I : m <= k
    <3> HIDE DEF I
    <3> QED BY <1>4, <2>1, HasLeast
  <2>3. Min(I) \in I
    BY <2>2 DEF Min
  <2>4. Min(I) \in 1..Len(s) /\ s[Min(I)] # x
    BY <2>3
  <2>5. FirstOther(s, x) = s[Min(I)]
    BY <1>1, <1>2, <1>4, <2>4
  <2> HIDE DEF I
  <2> QED BY <1>1, <2>4, <2>5
<1> QED BY <1>3, <1>4

\* What a loop over a range of indices finds.
LEMMA AlongIs ==
  ASSUME NEW m \in Nat, NEW l \in Nat, m <= l, NEW v, NEW x \in Answer,
         \A p \in m..(l - 1) : v[p] \in Answer
  PROVE  LET y == FirstOther(Along(v, Steps(m, l)), x)
         IN  /\ y \in Answer
             /\ y = x <=> \A p \in m..(l - 1) : v[p] = x
             /\ y # x => \E p \in m..(l - 1) : v[p] = y
<1> DEFINE s == Along(v, Steps(m, l))
           y == FirstOther(s, x)
<1>1. s = [k \in 1..(l - m) |-> v[m + k - 1]]
  BY DEF Along, Steps
<1>2. DOMAIN s = 1..(l - m) /\ \A k \in 1..(l - m) : s[k] = v[m + k - 1]
  BY <1>1
<1>3. \A k \in 1..(l - m) : m + k - 1 \in m..(l - 1)
  OBVIOUS
<1>4. ASSUME NEW p \in m..(l - 1)
      PROVE  p - m + 1 \in 1..(l - m) /\ s[p - m + 1] = v[p]
  <2>1. p - m + 1 \in 1..(l - m) /\ m + (p - m + 1) - 1 = p
    OBVIOUS
  <2> HIDE DEF s
  <2> QED BY <1>2, <2>1
<1>5. s \in Seq(Answer)
  <2>1. l - m \in Nat /\ \A k \in 1..(l - m) : v[m + k - 1] \in Answer
    BY <1>3
  <2>2. s \in [1..(l - m) -> Answer]
    BY <1>1, <2>1
  <2> QED BY <2>1, <2>2
<1> HIDE DEF s
<1>6. /\ y \in Answer
      /\ y = x <=> \A k \in DOMAIN s : s[k] = x
      /\ y # x => \E k \in DOMAIN s : s[k] = y
  BY <1>5, FirstOtherIs
<1> HIDE DEF y
<1>7. (\A k \in DOMAIN s : s[k] = x) <=> \A p \in m..(l - 1) : v[p] = x
  BY <1>2, <1>3, <1>4
<1>8. (\E k \in DOMAIN s : s[k] = y) => \E p \in m..(l - 1) : v[p] = y
  BY <1>2, <1>3
<1>9. /\ y \in Answer
      /\ y = x <=> \A p \in m..(l - 1) : v[p] = x
      /\ y # x => \E p \in m..(l - 1) : v[p] = y
  BY <1>6, <1>7, <1>8
<1> QED BY <1>9 DEF y, s

\* What a loop over the children of a node finds.
LEMMA AcrossIs ==
  ASSUME NEW children \in Seq(Nat), NEW v, NEW i, NEW x \in Answer,
         \A j \in DOMAIN children : v[children[j]][i] \in Answer
  PROVE  LET y == FirstOther(Across(v, children, i), x)
         IN  /\ y \in Answer
             /\ y = x <=> \A j \in DOMAIN children : v[children[j]][i] = x
             /\ y # x => \E j \in DOMAIN children : v[children[j]][i] = y
<1> DEFINE s == Across(v, children, i)
           y == FirstOther(s, x)
<1>1. /\ DOMAIN s = DOMAIN children
      /\ \A j \in DOMAIN children : s[j] = v[children[j]][i]
  BY DEF Across
<1>2. s \in Seq(Answer)
  <2>1. Len(children) \in Nat /\ DOMAIN children = 1..Len(children)
    OBVIOUS
  <2>2. s \in [1..Len(children) -> Answer]
    BY <2>1 DEF Across
  <2> QED BY <2>1, <2>2
<1> HIDE DEF s
<1>3. /\ y \in Answer
      /\ y = x <=> \A k \in DOMAIN s : s[k] = x
      /\ y # x => \E k \in DOMAIN s : s[k] = y
  BY <1>2, FirstOtherIs
<1>4. /\ y \in Answer
      /\ y = x <=> \A j \in DOMAIN children : v[children[j]][i] = x
      /\ y # x => \E j \in DOMAIN children : v[children[j]][i] = y
  BY <1>1, <1>3
<1> QED BY <1>4 DEF y, s

\* What the loop of an until finds at a pivot.
AtPivot(left, right, i, p) ==
  AndThen(right[p], AllOf(Along(left, Steps(i, p))))

LEMMA AtPivotIs ==
  ASSUME NEW left \in [Nat -> Answer], NEW right \in [Nat -> Answer],
         NEW i \in Nat, NEW p \in Nat, i <= p
  PROVE  LET y == AtPivot(left, right, i, p)
         IN  /\ y \in Answer
             /\ y = "yes" <=>
                  right[p] = "yes" /\ \A q \in i..(p - 1) : left[q] = "yes"
             /\ y # "yes" => right[p] = y \/ \E q \in i..(p - 1) : left[q] = y
<1> DEFINE z == AllOf(Along(left, Steps(i, p)))
<1>1. /\ z \in Answer
      /\ z = "yes" <=> \A q \in i..(p - 1) : left[q] = "yes"
      /\ z # "yes" => \E q \in i..(p - 1) : left[q] = z
  <2>1. \A q \in i..(p - 1) : left[q] \in Answer
    OBVIOUS
  <2>2. "yes" \in Answer
    BY DEF Answer
  <2> QED BY <2>1, <2>2, AlongIs DEF AllOf
<1> HIDE DEF z
<1>2. AtPivot(left, right, i, p) = IF right[p] = "yes" THEN z ELSE right[p]
  BY DEF AtPivot, AndThen, z
<1>3. right[p] \in Answer
  OBVIOUS
<1> QED BY <1>1, <1>2, <1>3

\* What the loop of an until finds.
UntilLoop(left, right, i, pivots) ==
  AnyOf([k \in DOMAIN pivots |-> AtPivot(left, right, i, pivots[k])])

LEMMA UntilIs ==
  ASSUME NEW left \in [Nat -> Answer], NEW right \in [Nat -> Answer],
         NEW i \in Nat, NEW m \in Nat, NEW l \in Nat, i <= m, m <= l
  PROVE  LET y == UntilLoop(left, right, i, Steps(m, l))
         IN  /\ y \in Answer
             /\ y = "no" <=> \A p \in m..(l - 1) : AtPivot(left, right, i, p) = "no"
             /\ y # "no" => \E p \in m..(l - 1) : AtPivot(left, right, i, p) = y
<1> DEFINE pivots == Steps(m, l)
           v == [p \in Nat |-> AtPivot(left, right, i, p)]
           s == [k \in DOMAIN pivots |-> AtPivot(left, right, i, pivots[k])]
<1>1. DOMAIN pivots = 1..(l - m) /\ \A k \in DOMAIN pivots : pivots[k] \in Nat
  BY DEF Steps
<1>2. s = Along(v, pivots)
  <2> HIDE DEF pivots
  <2> QED BY <1>1 DEF Along
<1>3. \A p \in m..(l - 1) : p \in Nat /\ i <= p
  OBVIOUS
<1>4. \A p \in m..(l - 1) :
        v[p] = AtPivot(left, right, i, p) /\ AtPivot(left, right, i, p) \in Answer
  BY <1>3, AtPivotIs
<1> HIDE DEF v
<1>5. "no" \in Answer
  BY DEF Answer
<1>6. LET y == FirstOther(Along(v, Steps(m, l)), "no")
      IN  /\ y \in Answer
          /\ y = "no" <=> \A p \in m..(l - 1) : v[p] = "no"
          /\ y # "no" => \E p \in m..(l - 1) : v[p] = y
  BY <1>4, <1>5, AlongIs
<1> QED BY <1>2, <1>4, <1>6 DEF UntilLoop, AnyOf

LEMMA TemporalIs ==
  ASSUME NEW n \in Node, n.op \in {"G", "F", "U"}, require_interval(n),
         NEW g, \A c \in Children(n) : g[c] \in [Nat -> Answer],
         NEW i \in Nat
  PROVE  LET y == evaluate_temporal(n, g, i)
             P == (i + n.a)..(i + n.b)
         IN  /\ y \in Answer
             /\ n.op = "G" =>
                  /\ y = "yes" <=> \A p \in P : g[n.child][p] = "yes"
                  /\ y # "yes" => \E p \in P : g[n.child][p] = y
             /\ n.op = "F" =>
                  /\ y = "no" <=> \A p \in P : g[n.child][p] = "no"
                  /\ y # "no" => \E p \in P : g[n.child][p] = y
             /\ n.op = "U" =>
                  /\ y = "no" <=>
                       \A p \in P : AtPivot(g[n.left], g[n.right], i, p) = "no"
                  /\ y # "no" =>
                       \E p \in P : AtPivot(g[n.left], g[n.right], i, p) = y
<1> DEFINE m == i + n.a
           l == i + n.b + 1
           y == evaluate_temporal(n, g, i)
<1>1. n.a \in Int /\ n.b \in Int /\ 0 <= n.a /\ n.a <= n.b
  BY NodeIs DEF require_interval
<1>2. m \in Nat /\ l \in Nat /\ i <= m /\ m <= l /\ l - 1 = i + n.b
  BY <1>1
<1>3. \A p \in m..(l - 1) : p \in Nat
  BY <1>2
<1>4. "yes" \in Answer /\ "no" \in Answer
  BY DEF Answer
<1>5. CASE n.op = "G"
  <2>1. y = FirstOther(Along(g[n.child], Steps(m, l)), "yes")
    BY <1>5 DEF evaluate_temporal, AllOf
  <2>2. g[n.child] \in [Nat -> Answer]
    BY <1>5 DEF Children
  <2> HIDE DEF y, m, l
  <2>3. \A p \in m..(l - 1) : g[n.child][p] \in Answer
    BY <1>3, <2>2
  <2>4. /\ y \in Answer
        /\ y = "yes" <=> \A p \in m..(l - 1) : g[n.child][p] = "yes"
        /\ y # "yes" => \E p \in m..(l - 1) : g[n.child][p] = y
    BY <1>2, <1>4, <2>1, <2>3, AlongIs
  <2> QED BY <1>2, <1>5, <2>4 DEF y, m
<1>6. CASE n.op = "F"
  <2>1. y = FirstOther(Along(g[n.child], Steps(m, l)), "no")
    BY <1>6 DEF evaluate_temporal, AnyOf
  <2>2. g[n.child] \in [Nat -> Answer]
    BY <1>6 DEF Children
  <2> HIDE DEF y, m, l
  <2>3. \A p \in m..(l - 1) : g[n.child][p] \in Answer
    BY <1>3, <2>2
  <2>4. /\ y \in Answer
        /\ y = "no" <=> \A p \in m..(l - 1) : g[n.child][p] = "no"
        /\ y # "no" => \E p \in m..(l - 1) : g[n.child][p] = y
    BY <1>2, <1>4, <2>1, <2>3, AlongIs
  <2> QED BY <1>2, <1>6, <2>4 DEF y, m
<1>7. CASE n.op = "U"
  <2> DEFINE left == g[n.left]
             right == g[n.right]
  <2>1. y = UntilLoop(left, right, i, Steps(m, l))
    BY <1>7 DEF evaluate_temporal, UntilLoop, AtPivot, LeftSteps
  <2>2. left \in [Nat -> Answer] /\ right \in [Nat -> Answer]
    BY <1>7 DEF Children
  <2> HIDE DEF y, m, l, left, right
  <2>3. /\ y \in Answer
        /\ y = "no" <=> \A p \in m..(l - 1) : AtPivot(left, right, i, p) = "no"
        /\ y # "no" => \E p \in m..(l - 1) : AtPivot(left, right, i, p) = y
    BY <1>2, <2>1, <2>2, UntilIs
  <2> QED BY <1>2, <1>7, <2>3 DEF y, m, left, right
<1> QED BY <1>5, <1>6, <1>7

LEMMA JunctionIs ==
  ASSUME NEW n \in Node, n.op \in {"and", "or"}, NEW t,
         NEW g, \A c \in Children(n) : g[c] \in [Nat -> Answer],
         NEW i \in Nat
  PROVE  LET y == evaluate_node(n, t, g)[i]
             J == DOMAIN n.children
         IN  /\ \A j \in J : n.children[j] \in Children(n)
             /\ n.op = "and" =>
                  /\ y = "yes" <=> \A j \in J : g[n.children[j]][i] = "yes"
                  /\ y # "yes" => \E j \in J : g[n.children[j]][i] = y
             /\ n.op = "or" =>
                  /\ y = "no" <=> \A j \in J : g[n.children[j]][i] = "no"
                  /\ y # "no" => \E j \in J : g[n.children[j]][i] = y
<1> DEFINE children == n.children
           J == DOMAIN children
           y == evaluate_node(n, t, g)[i]
<1>1. children \in Seq(Nat)
  BY NodeIs
<1>2. \A j \in J : children[j] \in Children(n)
  BY DEF Children
<1>3. \A j \in J : g[children[j]][i] \in Answer
  <2> HIDE DEF children
  <2> QED BY <1>2
<1>4. "yes" \in Answer /\ "no" \in Answer
  BY DEF Answer
<1>5. y = IF n.op = "and" THEN FirstOther(Across(g, children, i), "yes")
          ELSE FirstOther(Across(g, children, i), "no")
  BY DEF evaluate_node, AllOf, AnyOf
<1> HIDE DEF children, y
<1>6. CASE n.op = "and"
  <2>1. /\ y = "yes" <=> \A j \in J : g[children[j]][i] = "yes"
        /\ y # "yes" => \E j \in J : g[children[j]][i] = y
    BY <1>1, <1>3, <1>4, <1>5, <1>6, AcrossIs
  <2> QED BY <1>2, <1>6, <2>1 DEF children, y
<1>7. CASE n.op = "or"
  <2>1. /\ y = "no" <=> \A j \in J : g[children[j]][i] = "no"
        /\ y # "no" => \E j \in J : g[children[j]][i] = y
    BY <1>1, <1>3, <1>4, <1>5, <1>7, AcrossIs
  <2> QED BY <1>2, <1>7, <2>1 DEF children, y
<1> QED BY <1>6, <1>7

\* The answers of a node are answers, and depend on those of its children.
LEMMA EvaluateNode ==
  ASSUME NEW n \in Node, NEW t,
         NEW g, \A c \in Children(n) : g[c] \in [Nat -> Answer]
  PROVE  /\ evaluate_node(n, t, g) \in [Nat -> Answer]
         /\ \A h : (\A c \in Children(n) : g[c] = h[c]) =>
              evaluate_node(n, t, g) = evaluate_node(n, t, h)
<1> DEFINE Local(i) == \A h : (\A c \in Children(n) : g[c] = h[c]) =>
                         evaluate_node(n, t, g)[i] = evaluate_node(n, t, h)[i]
<1>1. SUFFICES ASSUME NEW i \in Nat
               PROVE  evaluate_node(n, t, g)[i] \in Answer /\ Local(i)
  <2>1. \A h : evaluate_node(n, t, h) = [i \in Nat |-> evaluate_node(n, t, h)[i]]
    BY DEF evaluate_node
  <2>2. \A i \in Nat : evaluate_node(n, t, g)[i] \in Answer /\ Local(i)
    BY <1>1
  <2>3. evaluate_node(n, t, g) \in [Nat -> Answer]
    BY <2>1, <2>2
  <2>4. ASSUME NEW h, \A c \in Children(n) : g[c] = h[c]
        PROVE  evaluate_node(n, t, g) = evaluate_node(n, t, h)
    BY <2>1, <2>2, <2>4
  <2> QED BY <2>3, <2>4
<1>2. CASE n.op = "atom"
  BY <1>2 DEF evaluate_node, evaluate_atom, Answer
<1>3. CASE n.op = "not"
  BY <1>3 DEF evaluate_node, Not, Children, Answer
<1>4. CASE n.op \in {"and", "or"}
  <2>1. n.children \in Seq(Nat)
    BY <1>4, NodeIs
  <2>2. \A j \in DOMAIN n.children : n.children[j] \in Children(n)
    BY <1>4 DEF Children
  <2>3. \A j \in DOMAIN n.children : g[n.children[j]][i] \in Answer
    BY <2>2
  <2>4. "yes" \in Answer /\ "no" \in Answer
    BY DEF Answer
  <2>5. /\ AllOf(Across(g, n.children, i)) \in Answer
        /\ AnyOf(Across(g, n.children, i)) \in Answer
    BY <2>1, <2>3, <2>4, AcrossIs DEF AllOf, AnyOf
  <2>6. \A h : (\A c \in Children(n) : g[c] = h[c]) =>
          Across(g, n.children, i) = Across(h, n.children, i)
    BY <2>2 DEF Across
  <2>7. \A h : evaluate_node(n, t, h)[i] =
          IF n.op = "and" THEN AllOf(Across(h, n.children, i))
          ELSE AnyOf(Across(h, n.children, i))
    BY <1>4 DEF evaluate_node
  <2> QED BY <2>5, <2>6, <2>7
<1>5. CASE n.op \in {"G", "F", "U"}
  <2>1. \A h : evaluate_node(n, t, h)[i] = evaluate_temporal(n, h, i)
    BY <1>5 DEF evaluate_node
  <2>2. evaluate_temporal(n, g, i) \in Answer
    <3>1. CASE require_interval(n)
      BY <1>5, <3>1, TemporalIs
    <3>2. CASE ~ require_interval(n)
      BY <3>2 DEF evaluate_temporal, Answer
    <3> QED BY <3>1, <3>2
  <2>3. Local(i)
    <3>1. CASE n.op \in {"G", "F"}
      <4> DEFINE pivots == Steps(i + n.a, i + n.b + 1)
      <4>1. \A h : evaluate_temporal(n, h, i) =
              IF ~ require_interval(n) THEN "raise"
              ELSE IF n.op = "G" THEN AllOf(Along(h[n.child], pivots))
              ELSE AnyOf(Along(h[n.child], pivots))
        BY <3>1 DEF evaluate_temporal
      <4>2. n.child \in Children(n)
        BY <3>1 DEF Children
      <4> HIDE DEF pivots
      <4> QED BY <2>1, <4>1, <4>2
    <3>2. CASE n.op = "U"
      BY <1>5, <2>1, <3>2 DEF evaluate_temporal, Children
    <3> QED BY <1>5, <3>1, <3>2
  <2> QED BY <2>1, <2>2, <2>3
<1>6. CASE n.op \notin Operator
  BY <1>6 DEF evaluate_node, Operator, Answer
<1> QED BY <1>2, <1>3, <1>4, <1>5, <1>6 DEF Operator

LEMMA AnswersIs ==
  ASSUME NEW f \in Source, NEW t
  PROVE  /\ Answers(f, t) \in [1..Len(f) -> [Nat -> Answer]]
         /\ \A k \in 1..Len(f) :
              Answers(f, t)[k] = evaluate_node(f[k], t, Answers(f, t))
<1> DEFINE n == Len(f)
           T == [Nat -> Answer]
           R == [g \in [1..n -> T] |-> [k \in 1..n |-> evaluate_node(f[k], t, g)]]
<1>1. n \in Nat /\ DOMAIN f = 1..n
  BY SourceIs
<1>2. ASSUME NEW g \in [1..n -> T], NEW k \in 1..n
      PROVE  /\ evaluate_node(f[k], t, g) \in T
             /\ \A h : (\A j \in 1..(k - 1) : g[j] = h[j]) =>
                  evaluate_node(f[k], t, g) = evaluate_node(f[k], t, h)
  <2>1. /\ f[k] \in Node
        /\ Children(f[k]) \subseteq 1..(k - 1)
        /\ 1..(k - 1) \subseteq 1..n
    BY <1>1, SourceIs
  <2>2. \A c \in Children(f[k]) : g[c] \in T
    BY <2>1
  <2> QED BY <2>1, <2>2, EvaluateNode, Zenon
<1> HIDE DEF n
<1>3. T # {}
  <2>1. [i \in Nat |-> "no"] \in T
    BY DEF Answer
  <2> QED BY <2>1
<1> HIDE DEF T
<1>4. Causal(R, n, T)
  BY <1>2 DEF Causal
<1>5. PICK g \in [1..n -> T] : R[g] = g
  <2> HIDE DEF R
  <2> QED BY <1>1, <1>3, <1>4, TableExists
<1>6. g = [k \in DOMAIN f |-> evaluate_node(f[k], t, g)]
  BY <1>1, <1>5
<1>7. Answers(f, t) = CHOOSE v : v = [k \in DOMAIN f |-> evaluate_node(f[k], t, v)]
  BY DEF Answers
<1>8. Answers(f, t) = [k \in DOMAIN f |-> evaluate_node(f[k], t, Answers(f, t))]
  BY <1>6, <1>7, Zenon
<1> HIDE DEF R
<1>9. Answers(f, t) = [k \in 1..n |-> evaluate_node(f[k], t, Answers(f, t))]
  BY <1>1, <1>8
<1>10. \A k \in 1..n : Answers(f, t)[k] = evaluate_node(f[k], t, Answers(f, t))
  BY <1>9, Zenon
<1>11. Answers(f, t) = [k \in 1..n |-> Answers(f, t)[k]]
  BY <1>9, <1>10
<1>12. ASSUME NEW k \in 1..n, \A j \in 1..(k - 1) : Answers(f, t)[j] \in T
       PROVE  Answers(f, t)[k] \in T
  <2>1. f[k] \in Node /\ Children(f[k]) \subseteq 1..(k - 1)
    BY <1>1, SourceIs DEF n
  <2>2. evaluate_node(f[k], t, Answers(f, t)) \in T
    BY <1>12, <2>1, EvaluateNode DEF T
  <2> QED BY <1>10, <2>2
<1>13. Answers(f, t) \in [1..n -> T]
  BY <1>1, <1>11, <1>12, TableTyped
<1> QED BY <1>10, <1>13 DEF n, T

-----------------------------------------------------------------------------
(* The reference.                                                          *)

LEMMA HoldNode ==
  ASSUME NEW n, NEW w, NEW g
  PROVE  /\ hold_node(n, w, g) \in [Nat -> BOOLEAN]
         /\ \A h : (\A c \in Children(n) : g[c] = h[c]) =>
              hold_node(n, w, g) = hold_node(n, w, h)
<1>1. \A h : hold_node(n, w, h) = [i \in Nat |-> hold_node(n, w, h)[i]]
  BY DEF hold_node
<1>2. ASSUME NEW i \in Nat
      PROVE  /\ hold_node(n, w, g)[i] \in BOOLEAN
             /\ \A h : (\A c \in Children(n) : g[c] = h[c]) =>
                  hold_node(n, w, g)[i] = hold_node(n, w, h)[i]
  <2>1. CASE n.op = "atom"
    BY <2>1 DEF hold_node
  <2>2. CASE n.op = "not"
    BY <2>2 DEF hold_node, Children
  <2>3. CASE n.op \in {"and", "or"}
    <3>1. \A j \in DOMAIN n.children : n.children[j] \in Children(n)
      BY <2>3 DEF Children
    <3>2. CASE n.op = "and"
      <4>1. \A h : hold_node(n, w, h)[i] =
              (\A j \in DOMAIN n.children : h[n.children[j]][i])
        BY <3>2 DEF hold_node
      <4> QED BY <3>1, <4>1
    <3>3. CASE n.op = "or"
      <4>1. \A h : hold_node(n, w, h)[i] =
              (\E j \in DOMAIN n.children : h[n.children[j]][i])
        BY <3>3 DEF hold_node
      <4> QED BY <3>1, <4>1
    <3> QED BY <2>3, <3>2, <3>3
  <2>4. CASE n.op \in {"G", "F"}
    <3>1. n.child \in Children(n)
      BY <2>4 DEF Children
    <3>2. \A h : hold_node(n, w, h)[i] =
            IF n.op = "G" THEN \A p \in (i + n.a)..(i + n.b) : h[n.child][p]
            ELSE \E p \in (i + n.a)..(i + n.b) : h[n.child][p]
      BY <2>4 DEF hold_node
    <3> QED BY <3>1, <3>2
  <2>5. CASE n.op = "U"
    <3>1. n.left \in Children(n) /\ n.right \in Children(n)
      BY <2>5 DEF Children
    <3>2. \A h : hold_node(n, w, h)[i] =
            \E p \in (i + n.a)..(i + n.b) :
              h[n.right][p] /\ \A q \in i..(p - 1) : h[n.left][q]
      BY <2>5 DEF hold_node
    <3> QED BY <3>1, <3>2
  <2>6. CASE n.op \notin Operator
    BY <2>6 DEF hold_node, Operator
  <2> QED BY <2>1, <2>2, <2>3, <2>4, <2>5, <2>6 DEF Operator
<1>3. hold_node(n, w, g) \in [Nat -> BOOLEAN]
  BY <1>1, <1>2
<1>4. ASSUME NEW h, \A c \in Children(n) : g[c] = h[c]
      PROVE  hold_node(n, w, g) = hold_node(n, w, h)
  BY <1>1, <1>2, <1>4
<1> QED BY <1>3, <1>4

LEMMA MeaningIs ==
  ASSUME NEW f \in Source, NEW w
  PROVE  /\ Meaning(f, w) \in [1..Len(f) -> [Nat -> BOOLEAN]]
         /\ \A k \in 1..Len(f) :
              Meaning(f, w)[k] = hold_node(f[k], w, Meaning(f, w))
<1> DEFINE n == Len(f)
           T == [Nat -> BOOLEAN]
           R == [g \in [1..n -> T] |-> [k \in 1..n |-> hold_node(f[k], w, g)]]
<1>1. n \in Nat /\ DOMAIN f = 1..n
  BY SourceIs
<1>2. ASSUME NEW g \in [1..n -> T], NEW k \in 1..n
      PROVE  /\ hold_node(f[k], w, g) \in T
             /\ \A h : (\A j \in 1..(k - 1) : g[j] = h[j]) =>
                  hold_node(f[k], w, g) = hold_node(f[k], w, h)
  <2>1. Children(f[k]) \subseteq 1..(k - 1)
    BY <1>1, SourceIs
  <2> QED BY <2>1, HoldNode, Zenon
<1> HIDE DEF n
<1>3. T # {}
  <2>1. [i \in Nat |-> TRUE] \in T
    OBVIOUS
  <2> QED BY <2>1
<1> HIDE DEF T
<1>4. Causal(R, n, T)
  BY <1>2 DEF Causal
<1>5. PICK g \in [1..n -> T] : R[g] = g
  <2> HIDE DEF R
  <2> QED BY <1>1, <1>3, <1>4, TableExists
<1>6. g = [k \in DOMAIN f |-> hold_node(f[k], w, g)]
  BY <1>1, <1>5
<1>7. Meaning(f, w) = CHOOSE v : v = [k \in DOMAIN f |-> hold_node(f[k], w, v)]
  BY DEF Meaning
<1>8. Meaning(f, w) = [k \in DOMAIN f |-> hold_node(f[k], w, Meaning(f, w))]
  BY <1>6, <1>7, Zenon
<1> HIDE DEF R
<1>9. Meaning(f, w) = [k \in 1..n |-> hold_node(f[k], w, Meaning(f, w))]
  BY <1>1, <1>8
<1>10. \A k \in 1..n : Meaning(f, w)[k] = hold_node(f[k], w, Meaning(f, w))
  BY <1>9, Zenon
<1>11. \A k \in 1..n : Meaning(f, w)[k] \in T
  BY <1>10, HoldNode DEF T
<1> QED BY <1>9, <1>10, <1>11 DEF n, T

LEMMA FurthestIs ==
  ASSUME NEW S, S \subseteq Int, 0 \in S,
         NEW b \in Nat, \A s \in S : s <= b
  PROVE  Furthest(S) \in S /\ \A s \in S : s <= Furthest(S)
<1> DEFINE Above == {u \in Nat : \A s \in S : s <= u}
<1>1. PICK m \in Above : \A u \in Above : m <= u
  <2>1. Above \subseteq Nat /\ Above # {}
    OBVIOUS
  <2> HIDE DEF Above
  <2> QED BY <2>1, HasLeast
<1>2. m \in Nat /\ \A s \in S : s <= m
  BY <1>1
<1>3. m \in S
  <2> SUFFICES ASSUME m \notin S PROVE FALSE
    OBVIOUS
  <2>1. \A s \in S : s <= m - 1
    BY <1>2
  <2>2. m - 1 \in Nat
    BY <1>2, <2>1
  <2>3. m - 1 \in Above /\ ~ (m <= m - 1)
    BY <2>1, <2>2
  <2> QED BY <1>1, <2>3
<1> QED BY <1>2, <1>3 DEF Furthest

\* The values that a sequence of places leads to have an upper bound.
LEMMA Bounded ==
  ASSUME NEW children \in Seq(Nat), NEW v,
         \A j \in DOMAIN children : v[children[j]] \in Int
  PROVE  \E b \in Nat : \A j \in DOMAIN children : v[children[j]] <= b
<1> DEFINE n == Len(children)
           Good(k) == \E b \in Nat : \A j \in 1..k : v[children[j]] <= b
           Bad == {k \in 0..n : ~ Good(k)}
<1>1. n \in Nat /\ DOMAIN children = 1..n
  OBVIOUS
<1>2. Good(0)
  OBVIOUS
<1>3. ASSUME NEW k \in 1..n, Good(k - 1) PROVE Good(k)
  <2>1. PICK b \in Nat : \A j \in 1..(k - 1) : v[children[j]] <= b
    BY <1>3
  <2>2. PICK c \in Nat : b <= c /\ v[children[k]] <= c
    <3>1. v[children[k]] \in Int
      BY <1>1
    <3>2. IF v[children[k]] <= b THEN b \in Nat ELSE v[children[k]] \in Nat
      BY <3>1
    <3> QED BY <3>1, <3>2
  <2>3. \A j \in 1..k : v[children[j]] <= c
    <3> SUFFICES ASSUME NEW j \in 1..k PROVE v[children[j]] <= c
      OBVIOUS
    <3>1. v[children[j]] \in Int
      BY <1>1
    <3>2. CASE j = k
      BY <2>2, <3>2
    <3>3. CASE j # k
      <4>1. j \in 1..(k - 1)
        BY <1>1, <3>3
      <4> QED BY <2>1, <2>2, <3>1, <4>1
    <3> QED BY <3>2, <3>3
  <2> QED BY <2>3
<1> HIDE DEF Good, n
<1>4. Bad = {}
  <2> SUFFICES ASSUME Bad # {} PROVE FALSE
    OBVIOUS
  <2>1. Bad \subseteq Nat
    BY <1>1
  <2>2. PICK m \in Bad : \A k \in Bad : m <= k
    BY <2>1, HasLeast, Zenon
  <2>3. m \in 0..n /\ ~ Good(m)
    BY <2>2
  <2>4. m \in 1..n /\ m - 1 \in 0..n
    BY <1>1, <1>2, <2>3
  <2>5. Good(m - 1)
    BY <2>2, <2>4
  <2> QED BY <1>3, <2>3, <2>4, <2>5
<1>5. Good(n)
  BY <1>1, <1>4
<1> QED BY <1>1, <1>5 DEF Good

LEMMA ReachNode ==
  ASSUME NEW n \in Node, NEW g, \A c \in Children(n) : g[c] \in Int
  PROVE  /\ reach_node(n, g) \in Int
         /\ \E inside \in Nat :
              /\ \A c \in Children(n) : g[c] <= inside
              /\ reach_node(n, g) =
                   IF n.op \in {"G", "F", "U"} THEN n.b + inside ELSE inside
         /\ \A h : (\A c \in Children(n) : g[c] = h[c]) =>
              reach_node(n, g) = reach_node(n, h)
<1> DEFINE S == {0} \cup {g[c] : c \in Children(n)}
<1>1. \E b \in Nat : \A c \in Children(n) : g[c] <= b
  <2>1. CASE n.op \in {"and", "or"}
    <3>1. n.children \in Seq(Nat)
      BY <2>1, NodeIs
    <3>2. Children(n) = {n.children[j] : j \in DOMAIN n.children}
      BY <2>1 DEF Children
    <3>3. \A j \in DOMAIN n.children : g[n.children[j]] \in Int
      BY <3>2
    <3> QED BY <3>1, <3>2, <3>3, Bounded
  <2>2. CASE n.op \in {"not", "G", "F"}
    <3>1. Children(n) = {n.child}
      BY <2>2 DEF Children
    <3>2. g[n.child] \in Int
      BY <3>1
    <3>3. IF g[n.child] <= 0 THEN 0 \in Nat ELSE g[n.child] \in Nat
      BY <3>2
    <3> QED BY <3>1, <3>2, <3>3
  <2>3. CASE n.op = "U"
    <3>1. Children(n) = {n.left, n.right}
      BY <2>3 DEF Children
    <3>2. g[n.left] \in Int /\ g[n.right] \in Int
      BY <3>1
    <3>3. PICK b \in Nat : g[n.left] <= b /\ g[n.right] <= b
      <4>1. PICK u \in Int, v \in Int : u = g[n.left] /\ v = g[n.right]
        BY <3>2
      <4>2. \E b \in Nat : u <= b /\ v <= b
        <5>1. CASE u <= 0 /\ v <= 0
          BY <5>1
        <5>2. CASE u > 0 /\ v <= u
          BY <5>2
        <5>3. CASE v > 0 /\ u <= v
          BY <5>3
        <5> QED BY <5>1, <5>2, <5>3
      <4> QED BY <4>1, <4>2
    <3> QED BY <3>1, <3>3
  <2>4. CASE n.op \notin {"and", "or", "not", "G", "F", "U"}
    BY <2>4 DEF Children
  <2> QED BY <2>1, <2>2, <2>3, <2>4
<1>2. S \subseteq Int /\ 0 \in S
  OBVIOUS
<1>3. \E b \in Nat : \A s \in S : s <= b
  BY <1>1
<1>4. Furthest(S) \in S /\ \A s \in S : s <= Furthest(S)
  <2> HIDE DEF S
  <2> QED BY <1>2, <1>3, FurthestIs
<1>5. Furthest(S) \in Nat /\ \A c \in Children(n) : g[c] <= Furthest(S)
  BY <1>2, <1>4
<1>6. reach_node(n, g) = IF n.op \in {"G", "F", "U"} THEN n.b + Furthest(S)
                         ELSE Furthest(S)
  BY DEF reach_node
<1>7. ASSUME NEW h, \A c \in Children(n) : g[c] = h[c]
      PROVE  reach_node(n, g) = reach_node(n, h)
  <2>1. {h[c] : c \in Children(n)} = {g[c] : c \in Children(n)}
    BY <1>7
  <2> QED BY <2>1 DEF reach_node
<1> HIDE DEF S
<1>8. reach_node(n, g) \in Int
  BY <1>5, <1>6, NodeIs
<1> QED BY <1>5, <1>6, <1>7, <1>8

LEMMA ReachesIs ==
  ASSUME NEW f \in Source
  PROVE  /\ Reaches(f) \in [1..Len(f) -> Int]
         /\ \A k \in 1..Len(f) : Reaches(f)[k] = reach_node(f[k], Reaches(f))
<1> DEFINE n == Len(f)
           R == [g \in [1..n -> Int] |-> [k \in 1..n |-> reach_node(f[k], g)]]
<1>1. n \in Nat /\ DOMAIN f = 1..n
  BY SourceIs
<1>2. ASSUME NEW g \in [1..n -> Int], NEW k \in 1..n
      PROVE  /\ reach_node(f[k], g) \in Int
             /\ \A h : (\A j \in 1..(k - 1) : g[j] = h[j]) =>
                  reach_node(f[k], g) = reach_node(f[k], h)
  <2>1. /\ f[k] \in Node
        /\ Children(f[k]) \subseteq 1..(k - 1)
        /\ 1..(k - 1) \subseteq 1..n
    BY <1>1, SourceIs
  <2>2. \A c \in Children(f[k]) : g[c] \in Int
    BY <2>1
  <2> QED BY <2>1, <2>2, ReachNode, Zenon
<1> HIDE DEF n
<1>3. Int # {} /\ Causal(R, n, Int)
  BY <1>2 DEF Causal
<1>4. PICK g \in [1..n -> Int] : R[g] = g
  <2> HIDE DEF R
  <2> QED BY <1>1, <1>3, TableExists
<1>5. g = [k \in DOMAIN f |-> reach_node(f[k], g)]
  BY <1>1, <1>4
<1>6. Reaches(f) = CHOOSE v : v = [k \in DOMAIN f |-> reach_node(f[k], v)]
  BY DEF Reaches
<1>7. Reaches(f) = [k \in DOMAIN f |-> reach_node(f[k], Reaches(f))]
  BY <1>5, <1>6, Zenon
<1> HIDE DEF R
<1>8. Reaches(f) = [k \in 1..n |-> reach_node(f[k], Reaches(f))]
  BY <1>1, <1>7
<1>9. \A k \in 1..n : Reaches(f)[k] = reach_node(f[k], Reaches(f))
  BY <1>8, Zenon
<1>10. Reaches(f) = [k \in 1..n |-> Reaches(f)[k]]
  BY <1>8, <1>9
<1>11. ASSUME NEW k \in 1..n, \A j \in 1..(k - 1) : Reaches(f)[j] \in Int
       PROVE  Reaches(f)[k] \in Int
  <2>1. f[k] \in Node /\ Children(f[k]) \subseteq 1..(k - 1)
    BY <1>1, SourceIs DEF n
  <2>2. reach_node(f[k], Reaches(f)) \in Int
    BY <1>11, <2>1, ReachNode
  <2> QED BY <1>9, <2>2
<1>12. Reaches(f) \in [1..n -> Int]
  BY <1>1, <1>10, <1>11, TableTyped
<1> QED BY <1>9, <1>12 DEF n

-----------------------------------------------------------------------------
(* The answers against the meaning, a node and then a source.              *)

\* The children of a valid node are valid.
LEMMA ValidChildren ==
  ASSUME NEW n, NEW v, validate_node(n, v)
  PROVE  /\ n.op \in Operator
         /\ n.op \in {"G", "F", "U"} => require_interval(n)
         /\ \A c \in Children(n) : v[c]
<1>1. n.op \in Operator
  BY DEF validate_node, Operator
<1>2. CASE n.op = "atom"
  BY <1>1, <1>2 DEF Children
<1>3. CASE n.op \in {"not", "G", "F", "U"}
  BY <1>1, <1>3 DEF validate_node, Children
<1>4. CASE n.op \in {"and", "or"}
  <2>1. \A j \in DOMAIN n.children : v[n.children[j]]
    BY <1>4 DEF validate_node
  <2> QED BY <1>1, <1>4, <2>1 DEF Children
<1> QED BY <1>1, <1>2, <1>3, <1>4 DEF Operator

Agree(g, h, c) ==
  \A i \in Nat : g[c][i] # "raise" => (g[c][i] = "yes" <=> h[c][i])

\* If the answers of its children agree with their meaning, the answers of a
\* node agree with its own.
LEMMA NodeAgrees ==
  ASSUME NEW n \in Node, NEW v, validate_node(n, v),
         NEW t \in Seq(State), NEW more,
         NEW g, \A c \in Children(n) : g[c] \in [Nat -> Answer],
         NEW h, \A c \in Children(n) : h[c] \in [Nat -> BOOLEAN],
         \A c \in Children(n) : Agree(g, h, c),
         NEW i \in Nat, evaluate_node(n, t, g)[i] # "raise"
  PROVE  evaluate_node(n, t, g)[i] = "yes" <=> hold_node(n, Word(t, more), h)[i]
<1> DEFINE x == evaluate_node(n, t, g)[i]
           y == hold_node(n, Word(t, more), h)[i]
           P == (i + n.a)..(i + n.b)
<1>1. /\ n.op \in Operator
      /\ n.op \in {"G", "F", "U"} => require_interval(n)
  BY ValidChildren
<1>2. x \in Answer
  BY EvaluateNode
<1>3. ASSUME n.op \in {"G", "F", "U"}
      PROVE  /\ \A p \in P : p \in Nat /\ i <= p
             /\ \A p \in P : \A q \in i..(p - 1) : q \in Nat
  <2>1. n.a \in Int /\ n.b \in Int /\ 0 <= n.a
    BY <1>1, <1>3, NodeIs DEF require_interval
  <2> QED BY <2>1
<1>4. CASE n.op = "atom"
  <2>1. x = evaluate_atom(n, t, i) /\ y = (Word(t, more)[i] \in Predicate[n.name])
    BY <1>4 DEF evaluate_node, hold_node
  <2>2. i < Len(t) /\ x = IF t[i + 1] \in Predicate[n.name] THEN "yes" ELSE "no"
    BY <2>1 DEF evaluate_atom
  <2>3. Word(t, more)[i] = t[i + 1]
    BY <2>2 DEF Word
  <2> QED BY <2>1, <2>2, <2>3
<1>5. CASE n.op = "not"
  <2>1. x = Not(g[n.child][i]) /\ y = ~ h[n.child][i]
    BY <1>5 DEF evaluate_node, hold_node
  <2>2. g[n.child][i] \in Answer /\ Agree(g, h, n.child)
    BY <1>5 DEF Children
  <2>3. x = "yes" <=> g[n.child][i] = "no"
    BY <2>1, <2>2 DEF Not, Answer
  <2>4. g[n.child][i] # "raise"
    BY <2>1, <2>2 DEF Not, Answer
  <2>5. g[n.child][i] = "yes" <=> h[n.child][i]
    BY <2>2, <2>4 DEF Agree
  <2> QED BY <2>1, <2>2, <2>3, <2>4, <2>5 DEF Answer
<1>6. CASE n.op \in {"and", "or"}
  <2> DEFINE J == DOMAIN n.children
  <2>1. /\ \A j \in J : n.children[j] \in Children(n)
        /\ n.op = "and" =>
             /\ x = "yes" <=> \A j \in J : g[n.children[j]][i] = "yes"
             /\ x # "yes" => \E j \in J : g[n.children[j]][i] = x
        /\ n.op = "or" =>
             /\ x = "no" <=> \A j \in J : g[n.children[j]][i] = "no"
             /\ x # "no" => \E j \in J : g[n.children[j]][i] = x
    BY <1>6, JunctionIs
  <2>2. \A j \in J : g[n.children[j]][i] # "raise" =>
          (g[n.children[j]][i] = "yes" <=> h[n.children[j]][i])
    BY <2>1 DEF Agree
  <2>3. CASE n.op = "and"
    <3>1. y = \A j \in J : h[n.children[j]][i]
      BY <2>3 DEF hold_node
    <3> HIDE DEF x, y
    <3>2. x = "yes" => y
      BY <2>1, <2>2, <2>3, <3>1
    <3>3. x = "no" => ~ y
      BY <2>1, <2>2, <2>3, <3>1
    <3> QED BY <1>2, <3>2, <3>3 DEF Answer, x, y
  <2>4. CASE n.op = "or"
    <3>1. y = \E j \in J : h[n.children[j]][i]
      BY <2>4 DEF hold_node
    <3> HIDE DEF x, y
    <3>2. x = "yes" => y
      BY <2>1, <2>2, <2>4, <3>1
    <3>3. x = "no" => ~ y
      BY <2>1, <2>2, <2>4, <3>1
    <3> QED BY <1>2, <3>2, <3>3 DEF Answer, x, y
  <2> QED BY <1>6, <2>3, <2>4
<1>7. CASE n.op = "G"
  <2>1. x = evaluate_temporal(n, g, i) /\ y = \A p \in P : h[n.child][p]
    BY <1>7 DEF evaluate_node, hold_node
  <2>2. /\ x = "yes" <=> \A p \in P : g[n.child][p] = "yes"
        /\ x # "yes" => \E p \in P : g[n.child][p] = x
    <3> HIDE DEF x, y
    <3> QED BY <1>1, <1>7, <2>1, TemporalIs
  <2>3. \A p \in P :
          g[n.child][p] # "raise" => (g[n.child][p] = "yes" <=> h[n.child][p])
    BY <1>3, <1>7 DEF Children, Agree
  <2> HIDE DEF x, y, P
  <2>4. x = "yes" => y
    BY <2>1, <2>2, <2>3
  <2>5. x = "no" => ~ y
    BY <2>1, <2>2, <2>3
  <2> QED BY <1>2, <2>4, <2>5 DEF Answer, x, y
<1>8. CASE n.op = "F"
  <2>1. x = evaluate_temporal(n, g, i) /\ y = \E p \in P : h[n.child][p]
    BY <1>8 DEF evaluate_node, hold_node
  <2>2. /\ x = "no" <=> \A p \in P : g[n.child][p] = "no"
        /\ x # "no" => \E p \in P : g[n.child][p] = x
    <3> HIDE DEF x, y
    <3> QED BY <1>1, <1>8, <2>1, TemporalIs
  <2>3. \A p \in P :
          g[n.child][p] # "raise" => (g[n.child][p] = "yes" <=> h[n.child][p])
    BY <1>3, <1>8 DEF Children, Agree
  <2> HIDE DEF x, y, P
  <2>4. x = "yes" => y
    BY <2>1, <2>2, <2>3
  <2>5. x = "no" => ~ y
    BY <2>1, <2>2, <2>3
  <2> QED BY <1>2, <2>4, <2>5 DEF Answer, x, y
<1>9. CASE n.op = "U"
  <2> DEFINE left == g[n.left]
             right == g[n.right]
             At(p) == AtPivot(left, right, i, p)
  <2>1. /\ x = evaluate_temporal(n, g, i)
        /\ y = \E p \in P : h[n.right][p] /\ \A q \in i..(p - 1) : h[n.left][q]
    BY <1>9 DEF evaluate_node, hold_node
  <2>2. /\ x = "no" <=> \A p \in P : At(p) = "no"
        /\ x # "no" => \E p \in P : At(p) = x
    BY <1>1, <1>9, <2>1, TemporalIs
  <2>3. left \in [Nat -> Answer] /\ right \in [Nat -> Answer]
    BY <1>9 DEF Children
  <2>4. \A p \in Nat :
          /\ left[p] # "raise" => (left[p] = "yes" <=> h[n.left][p])
          /\ right[p] # "raise" => (right[p] = "yes" <=> h[n.right][p])
    BY <1>9 DEF Children, Agree
  <2> HIDE DEF x, y, P, left, right
  <2>5. \A p \in P :
          /\ At(p) = "yes" <=>
               right[p] = "yes" /\ \A q \in i..(p - 1) : left[q] = "yes"
          /\ At(p) # "yes" =>
               right[p] = At(p) \/ \E q \in i..(p - 1) : left[q] = At(p)
    BY <1>3, <1>9, <2>3, AtPivotIs
  <2> HIDE DEF At
  <2>6. x = "yes" => y
    BY <1>3, <1>9, <2>1, <2>2, <2>4, <2>5
  <2>7. x = "no" => ~ y
    BY <1>3, <1>9, <2>1, <2>2, <2>4, <2>5
  <2> QED BY <1>2, <2>6, <2>7 DEF Answer, x, y
<1> QED BY <1>1, <1>4, <1>5, <1>6, <1>7, <1>8, <1>9 DEF Operator

Sees(g, r, t, c) == \A i \in Nat : i + r[c] < Len(t) => g[c][i] # "raise"

\* If its children have an answer as far as they can see, so has a node.
LEMMA NodeSees ==
  ASSUME NEW n \in Node, NEW v, validate_node(n, v),
         NEW t \in Seq(State),
         NEW g, \A c \in Children(n) : g[c] \in [Nat -> Answer],
         NEW r, \A c \in Children(n) : r[c] \in Int,
         \A c \in Children(n) : Sees(g, r, t, c),
         NEW i \in Nat, i + reach_node(n, r) < Len(t)
  PROVE  evaluate_node(n, t, g)[i] # "raise"
<1> DEFINE x == evaluate_node(n, t, g)[i]
           P == (i + n.a)..(i + n.b)
<1>1. Len(t) \in Nat
  OBVIOUS
<1>2. PICK inside \in Nat :
        /\ \A c \in Children(n) : r[c] <= inside
        /\ reach_node(n, r) =
             IF n.op \in {"G", "F", "U"} THEN n.b + inside ELSE inside
  BY ReachNode
<1>3. /\ n.op \in Operator
      /\ n.op \in {"G", "F", "U"} => require_interval(n)
  BY ValidChildren
<1>4. \A c \in Children(n) : \A p \in Nat : p + inside < Len(t) => g[c][p] # "raise"
  <2> SUFFICES ASSUME NEW c \in Children(n), NEW p \in Nat, p + inside < Len(t)
               PROVE  g[c][p] # "raise"
    OBVIOUS
  <2>1. p + r[c] < Len(t)
    BY <1>1, <1>2
  <2> QED BY <2>1 DEF Sees
<1>5. ASSUME n.op \in {"G", "F", "U"}
      PROVE  \A p \in P : /\ p \in Nat /\ i <= p /\ p + inside < Len(t)
                         /\ \A q \in i..(p - 1) : q \in Nat /\ q + inside < Len(t)
  <2>1. n.a \in Int /\ n.b \in Int /\ 0 <= n.a
    BY <1>3, <1>5, NodeIs DEF require_interval
  <2>2. i + n.b + inside < Len(t)
    BY <1>2, <1>5, <2>1
  <2> QED BY <1>1, <2>1, <2>2
<1>6. CASE n.op \notin {"G", "F", "U"}
  <2>1. i < Len(t) /\ \A c \in Children(n) : g[c][i] # "raise"
    BY <1>1, <1>2, <1>4, <1>6
  <2>2. CASE n.op = "atom"
    BY <2>1, <2>2 DEF evaluate_node, evaluate_atom, validate_node
  <2>3. CASE n.op = "not"
    BY <2>1, <2>3 DEF evaluate_node, Not, Children
  <2>4. CASE n.op \in {"and", "or"}
    BY <2>1, <2>4, JunctionIs
  <2> QED BY <1>3, <1>6, <2>2, <2>3, <2>4 DEF Operator
<1>7. CASE n.op \in {"G", "F"}
  <2>1. x = evaluate_temporal(n, g, i)
    BY <1>7 DEF evaluate_node
  <2>2. x = "raise" => \E p \in P : g[n.child][p] = "raise"
    <3> HIDE DEF x
    <3> QED BY <1>3, <1>7, <2>1, TemporalIs
  <2>3. n.child \in Children(n)
    BY <1>7 DEF Children
  <2>4. \A p \in P : g[n.child][p] # "raise"
    BY <1>4, <1>5, <1>7, <2>3
  <2> QED BY <2>2, <2>4
<1>8. CASE n.op = "U"
  <2> DEFINE left == g[n.left]
             right == g[n.right]
             At(p) == AtPivot(left, right, i, p)
  <2>1. x = evaluate_temporal(n, g, i)
    BY <1>8 DEF evaluate_node
  <2>2. x = "raise" => \E p \in P : At(p) = "raise"
    <3> HIDE DEF x
    <3> QED BY <1>3, <1>8, <2>1, TemporalIs
  <2>3. n.left \in Children(n) /\ n.right \in Children(n)
    BY <1>8 DEF Children
  <2>4. left \in [Nat -> Answer] /\ right \in [Nat -> Answer]
    BY <2>3
  <2>5. \A p \in P : right[p] # "raise" /\ \A q \in i..(p - 1) : left[q] # "raise"
    BY <1>4, <1>5, <1>8, <2>3
  <2> HIDE DEF left, right
  <2>6. \A p \in P :
          At(p) # "yes" => right[p] = At(p) \/ \E q \in i..(p - 1) : left[q] = At(p)
    <3>1. \A p \in P : p \in Nat /\ i <= p
      BY <1>5, <1>8
    <3> HIDE DEF P
    <3> QED BY <2>4, <3>1, AtPivotIs
  <2> HIDE DEF At, P, x
  <2>7. x # "raise"
    BY <2>2, <2>5, <2>6
  <2> QED BY <2>7 DEF x
<1> QED BY <1>3, <1>6, <1>7, <1>8

\* A source that compiles: its answers agree with its meaning on every word
\* that begins with the trajectory, and it has an answer where its reach stays
\* within the trajectory.  Take the first node that is valid and for which this
\* is false: its children are valid and come before it.
LEMMA SourceAnswers ==
  ASSUME NEW f \in Source, validate_formula(f), NEW t \in Seq(State)
  PROVE  /\ evaluate_formula(f, t, 0) \in Answer
         /\ Reach(f) < Len(t) => evaluate_formula(f, t, 0) # "raise"
         /\ evaluate_formula(f, t, 0) # "raise" =>
              \A more :
                evaluate_formula(f, t, 0) = "yes" <=> Holds(f, Word(t, more), 0)
<1> DEFINE n == Len(f)
           valid == Valid(f)
           answers == Answers(f, t)
           reaches == Reaches(f)
<1>1. /\ n \in Nat /\ n \in 1..n
      /\ \A k \in 1..n : f[k] \in Node /\ Children(f[k]) \subseteq 1..(k - 1)
  BY SourceIs
<1>2. \A k \in 1..n : valid[k] = validate_node(f[k], valid)
  BY ValidIs
<1>3. /\ answers \in [1..n -> [Nat -> Answer]]
      /\ \A k \in 1..n : answers[k] = evaluate_node(f[k], t, answers)
  BY AnswersIs
<1>4. /\ reaches \in [1..n -> Int]
      /\ \A k \in 1..n : reaches[k] = reach_node(f[k], reaches)
  BY ReachesIs
<1>5. valid[n]
  BY DEF validate_formula
<1>6. evaluate_formula(f, t, 0) = answers[n][0] /\ Reach(f) = reaches[n]
  BY DEF evaluate_formula, Reach
<1> HIDE DEF n, valid, answers, reaches
<1>7. ASSUME NEW k \in 1..n, valid[k]
      PROVE  /\ validate_node(f[k], valid)
             /\ \A c \in Children(f[k]) : c \in 1..n /\ c < k /\ valid[c]
  <2>1. validate_node(f[k], valid)
    BY <1>2, <1>7
  <2>2. \A c \in Children(f[k]) : valid[c]
    BY <2>1, ValidChildren
  <2> QED BY <1>1, <2>1, <2>2
<1>8. ASSUME NEW k \in 1..n, valid[k] PROVE Sees(answers, reaches, t, k)
  <2> DEFINE Bad == {j \in 1..n : valid[j] /\ ~ Sees(answers, reaches, t, j)}
  <2> SUFFICES ASSUME Bad # {} PROVE FALSE
    BY <1>8
  <2>1. Bad \subseteq Nat
    BY <1>1
  <2>2. PICK m \in Bad : \A j \in Bad : m <= j
    <3> HIDE DEF Bad
    <3> QED BY <2>1, HasLeast
  <2>3. m \in 1..n /\ valid[m] /\ ~ Sees(answers, reaches, t, m)
    BY <2>2
  <2>4. \A c \in Children(f[m]) : c \in 1..n /\ Sees(answers, reaches, t, c)
    <3> SUFFICES ASSUME NEW c \in Children(f[m])
                 PROVE  c \in 1..n /\ Sees(answers, reaches, t, c)
      OBVIOUS
    <3>1. c \in 1..n /\ c < m /\ valid[c]
      BY <1>7, <2>3
    <3>2. ~ (m <= c)
      BY <2>3, <3>1
    <3> QED BY <2>2, <3>1, <3>2
  <2>5. f[m] \in Node /\ validate_node(f[m], valid)
    BY <1>1, <1>7, <2>3
  <2>6. \A c \in Children(f[m]) :
          answers[c] \in [Nat -> Answer] /\ reaches[c] \in Int
    BY <1>3, <1>4, <2>4
  <2>7. \A i \in Nat : i + reach_node(f[m], reaches) < Len(t) =>
          evaluate_node(f[m], t, answers)[i] # "raise"
    <3> HIDE DEF Bad
    <3> QED BY <2>4, <2>5, <2>6, NodeSees
  <2> QED BY <1>3, <1>4, <2>3, <2>7 DEF Sees
<1>9. ASSUME NEW more, NEW k \in 1..n, valid[k]
      PROVE  Agree(answers, Meaning(f, Word(t, more)), k)
  <2> DEFINE holds == Meaning(f, Word(t, more))
             Bad == {j \in 1..n : valid[j] /\ ~ Agree(answers, holds, j)}
  <2>1. /\ holds \in [1..n -> [Nat -> BOOLEAN]]
        /\ \A j \in 1..n : holds[j] = hold_node(f[j], Word(t, more), holds)
    BY MeaningIs DEF n
  <2> HIDE DEF holds
  <2> SUFFICES ASSUME Bad # {} PROVE FALSE
    BY <1>9 DEF holds
  <2>2. Bad \subseteq Nat
    BY <1>1
  <2>3. PICK m \in Bad : \A j \in Bad : m <= j
    <3> HIDE DEF Bad
    <3> QED BY <2>2, HasLeast
  <2>4. m \in 1..n /\ valid[m] /\ ~ Agree(answers, holds, m)
    BY <2>3
  <2>5. \A c \in Children(f[m]) : c \in 1..n /\ Agree(answers, holds, c)
    <3> SUFFICES ASSUME NEW c \in Children(f[m])
                 PROVE  c \in 1..n /\ Agree(answers, holds, c)
      OBVIOUS
    <3>1. c \in 1..n /\ c < m /\ valid[c]
      BY <1>7, <2>4
    <3>2. ~ (m <= c)
      BY <2>4, <3>1
    <3> QED BY <2>3, <3>1, <3>2
  <2>6. f[m] \in Node /\ validate_node(f[m], valid)
    BY <1>1, <1>7, <2>4
  <2>7. \A c \in Children(f[m]) :
          answers[c] \in [Nat -> Answer] /\ holds[c] \in [Nat -> BOOLEAN]
    BY <1>3, <2>1, <2>5
  <2>8. \A i \in Nat : evaluate_node(f[m], t, answers)[i] # "raise" =>
          (evaluate_node(f[m], t, answers)[i] = "yes" <=>
             hold_node(f[m], Word(t, more), holds)[i])
    <3> HIDE DEF Bad
    <3> QED BY <2>5, <2>6, <2>7, NodeAgrees
  <2> QED BY <1>3, <2>1, <2>4, <2>8 DEF Agree
<1>10. answers[n][0] \in Answer
  BY <1>1, <1>3
<1>11. Reach(f) < Len(t) => answers[n][0] # "raise"
  BY <1>1, <1>4, <1>5, <1>6, <1>8 DEF Sees
<1>12. ASSUME NEW more, answers[n][0] # "raise"
       PROVE  answers[n][0] = "yes" <=> Holds(f, Word(t, more), 0)
  BY <1>1, <1>5, <1>9, <1>12 DEF Agree, Holds, n
<1> QED BY <1>6, <1>10, <1>11, <1>12

-----------------------------------------------------------------------------
(* The steps.                                                              *)

ClaimInv ==
  /\ formula \in Source
  /\ trajectory \in Seq(State)
  /\ claim = "compiled" => validate_formula(formula)
  /\ answer # "none" =>
       claim = "compiled" /\ answer = satisfies(formula, trajectory)

\* An answer stays that of the compiled claim on the trajectory it was asked
\* for: an extension of the trajectory drops it (claims.py:32-43).
THEOREM AnswerIsCurrent == Spec => []ClaimInv
<1>1. Init => ClaimInv
  BY ClaimAssumption DEF Init, ClaimInv, Source
<1>2. ClaimInv /\ [Next]_vars => ClaimInv'
  <2> SUFFICES ASSUME ClaimInv, [Next]_vars PROVE ClaimInv'
    OBVIOUS
  <2>1. CASE Compile
    BY <2>1 DEF Compile, ClaimInv
  <2>2. CASE Extend
    BY <2>2 DEF Extend, ClaimInv
  <2>3. CASE Evaluate
    BY <2>3 DEF Evaluate, ClaimInv
  <2>4. CASE UNCHANGED vars
    BY <2>4 DEF vars, ClaimInv
  <2> QED BY <2>1, <2>2, <2>3, <2>4 DEF Next
<1> QED BY <1>1, <1>2, PTL DEF Spec

\* On a trajectory of the horizon's length a compiled claim answers what the
\* source means.
LEMMA EvaluatedIs ==
  ASSUME ClaimInv, Evaluated
  PROVE  /\ Reach(formula) <= Horizon => answer # "raise"
         /\ answer # "raise" =>
              \A more : answer = "yes" <=> Holds(formula, Word(trajectory, more), 0)
<1>1. /\ formula \in Source
      /\ validate_formula(formula)
      /\ trajectory \in Seq(State)
      /\ Len(trajectory) = Horizon + 1
      /\ answer = evaluate_formula(formula, trajectory, 0)
  BY DEF ClaimInv, Evaluated, satisfies
<1>2. Horizon \in Nat
  BY ClaimAssumption
<1>3. Reach(formula) \in Int
  BY <1>1, ReachesIs, SourceIs DEF Reach
<1>4. Reach(formula) <= Horizon => Reach(formula) < Len(trajectory)
  BY <1>1, <1>2, <1>3
<1> QED BY <1>1, <1>4, SourceAnswers

\* An answer that is not an exception is the meaning of the formula on every
\* word that begins with the trajectory (claims.py:189-241).
THEOREM AnswersAreFinal == Spec => []AnswerIsFinal
<1>1. ClaimInv => AnswerIsFinal
  BY EvaluatedIs DEF AnswerIsFinal
<1> QED BY <1>1, AnswerIsCurrent, PTL

\* A compiled claim whose nested intervals add up to no more than the horizon
\* never raises, whatever the order and depth of its operators.
THEOREM NoRaiseWithinHorizon == Spec => []WithinHorizonEvaluates
<1>1. ClaimInv => WithinHorizonEvaluates
  BY EvaluatedIs DEF WithinHorizonEvaluates
<1> QED BY <1>1, AnswerIsCurrent, PTL

\* compile_claim and ClaimRecord.satisfies together: for a source that
\* validates and reaches no further than the horizon, the trajectories of the
\* horizon's length that satisfy it are those on which it holds, and every
\* other trajectory of that length gets a plain no (claims.py:144-241).
THEOREM SatisfactionSet ==
  ASSUME NEW f \in Formulas, validate_formula(f), Reach(f) <= Horizon,
         NEW t \in [1..(Horizon + 1) -> State]
  PROVE  satisfies(f, t) = IF Holds(f, Word(t, <<>>), 0) THEN "yes" ELSE "no"
<1>1. f \in Source /\ Horizon \in Nat
  BY ClaimAssumption DEF Source
<1>2. t \in Seq(State) /\ Len(t) = Horizon + 1
  BY <1>1
<1>3. Reach(f) \in Int
  BY <1>1, ReachesIs, SourceIs DEF Reach
<1>4. Reach(f) < Len(t)
  BY <1>1, <1>2, <1>3
<1>5. /\ evaluate_formula(f, t, 0) \in Answer
      /\ evaluate_formula(f, t, 0) # "raise"
      /\ evaluate_formula(f, t, 0) = "yes" <=> Holds(f, Word(t, <<>>), 0)
  BY <1>1, <1>2, <1>4, SourceAnswers
<1> QED BY <1>2, <1>5 DEF satisfies, Answer
=============================================================================
