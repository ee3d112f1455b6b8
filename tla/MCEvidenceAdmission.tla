------------------------ MODULE MCEvidenceAdmission ------------------------
(***************************************************************************)
(* Three contracts: one that expires, one that begins later and needs a    *)
(* status time, one for the second base bundle only; three status times.   *)
(***************************************************************************)
EXTENDS EvidenceAdmission

CONSTANTS c1, c2, c3, a, b, other

MCContracts == {c1, c2, c3}

MCTerms ==
  [c \in MCContracts |->
     CASE c = c1 -> [clause |-> a, notBefore |-> 0, expiry |-> 0,
                     rule |-> "default", obligation |-> 1,
                     targets |-> Base]
       [] c = c2 -> [clause |-> b, notBefore |-> 1, expiry |-> Unbounded,
                     rule |-> "requires-status-time",
                     obligation |-> Unbounded, targets |-> {"base"}]
       [] OTHER -> [clause |-> other, notBefore |-> 0, expiry |-> Unbounded,
                    rule |-> "default", obligation |-> Unbounded,
                    targets |-> {"second base"}]]

MCDirect ==
  {None} \cup {x \in [contract : {c2}, record : {Unbounded, 1},
                      obligation : {Unbounded, 0}] :
                x.record = Unbounded \/ x.obligation = Unbounded}

MCTrust == {None} \cup [obligation : {1}]

MCFlaws == {{}} \cup {{f} : f \in Flaw}

MCTyped == {{}} \cup {{x} : x \in Artifact}

\* One contract refused or unread, or one flaw; an artifact typed along with a
\* fault of its own.  A fault is in what there is.
MCBundles ==
  {x \in [held : {{}, {c1}, {c1, c2}, {c3}}, direct : MCDirect, trust : MCTrust,
          refused : {{}, {c1}}, unread : {{}, {c1}}, typed : MCTyped,
          flaws : MCFlaws] :
     /\ x.refused = {} \/ x.unread = {}
     /\ x.refused \cup x.unread # {} =>
          x.flaws = {} /\ x.typed \subseteq {<<"contract", c1>>}
     /\ x.refused \cup x.unread \subseteq x.held
     /\ x.typed # {} => x.flaws \subseteq {"second claim", "second base"}
     /\ "second claim" \in x.flaws => <<"claim">> \in x.typed
     /\ "second base" \in x.flaws => <<"base">> \in x.typed
     /\ x.flaws \cap {"schema", "clauses", "reason records"} # {}
          \/ <<"clause">> \in x.typed => x.direct # None
     /\ "trust" \in x.flaws \/ <<"trust">> \in x.typed => x.trust # None
     /\ x.direct # None => c2 \in x.held
     /\ \A c \in MCContracts \ x.held :
          <<"contract", c>> \notin x.typed /\ <<"evidence", c>> \notin x.typed}
=============================================================================
