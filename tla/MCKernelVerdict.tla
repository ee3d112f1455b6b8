--------------------------- MODULE MCKernelVerdict ---------------------------
(***************************************************************************)
(* An instance of KernelVerdict: two states over two steps.                *)
(***************************************************************************)
EXTENDS KernelVerdict

CONSTANTS off, on

MCState == {off, on}

Rule(s, t, K) == [source |-> s, target |-> t, steps |-> K]

Any == {0, 1}

\* A bundle that may do anything, one that can only switch on and stay on,
\* one that may switch on in the first step only, one that is stuck after
\* the first step, one that is stuck at once from one of its initial states,
\* one without an initial state, and three that do not compile.
MCBundles ==
  {[space |-> MCState, initial |-> {off},
    rules |-> {Rule(s, t, Any) : s \in MCState, t \in MCState}],
   [space |-> MCState, initial |-> MCState,
    rules |-> {Rule(off, off, Any), Rule(off, on, Any), Rule(on, on, Any)}],
   [space |-> MCState, initial |-> {off},
    rules |-> {Rule(off, on, {0}), Rule(off, off, Any), Rule(on, on, {1})}],
   [space |-> MCState, initial |-> {off}, rules |-> {Rule(off, on, {0})}],
   [space |-> MCState, initial |-> MCState, rules |-> {Rule(on, off, {0}), Rule(off, on, {1})}],
   [space |-> {off}, initial |-> {}, rules |-> {}],
   [space |-> {off}, initial |-> MCState, rules |-> {Rule(off, off, Any)}],
   [space |-> {off}, initial |-> {off}, rules |-> {Rule(off, on, Any)}],
   [space |-> MCState, initial |-> {off}, rules |-> {Rule(off, on, {2})}]}

Full == [0..2 -> MCState]

\* "finally on", "always off", "on at the first step".
MCClaims ==
  {{t \in Full : \E i \in 0..2 : t[i] = on},
   {t \in Full : \A i \in 0..2 : t[i] = off},
   {t \in Full : t[1] = on}}

\* Each step is seen exactly or not at all.
MCPrefixes ==
  UNION {{{p \in [0..r -> MCState] : \A i \in 0..r : p[i] \in seen[i]} :
            seen \in [0..r -> {{off}, {on}, MCState}]} : r \in 0..2}

MCWidenings == {{}, {t \in Full : t[2] = on}}
=============================================================================
