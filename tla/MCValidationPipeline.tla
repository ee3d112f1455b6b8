----------------------- MODULE MCValidationPipeline -----------------------
(***************************************************************************)
(* Bundles that differ from a good one in at most two of the things the    *)
(* gates look at, each with one fault of the earlier stages or none.       *)
(***************************************************************************)
EXTENDS ValidationPipeline

MCAnswers == {"accept", "reject"}

MCBlocks ==
  {[code |-> "checker_unknown", layer |-> "operational"],
   [code |-> "missing_ref", layer |-> "validation"],
   [code |-> "expired", layer |-> "status"]}

Related(t, a, p, b) == [typed |-> t, accepted |-> a, proof |-> p, bound |-> b]

Good ==
  [ledger |-> {}, context |-> TRUE,
   confluence |-> None, event |-> None,
   measurement |-> Related(TRUE, TRUE, "good", TRUE),
   representation |-> Related(TRUE, TRUE, "good", TRUE),
   completion |-> [status |-> "pass", named |-> TRUE, proof |-> "good",
                   members |-> TRUE],
   values |-> [v \in Value |->
     [declared |-> None, proof |-> [accepted |-> TRUE, value |-> "accept"]]],
   clause |-> None, contract |-> None, compiles |-> TRUE,
   trust |-> None, kernelProof |-> None,
   certificate |-> "issued", sources |-> "agree", use |-> TRUE]

Says(d, p) == [declared |-> d, proof |-> p]
Proved(a, v) == [accepted |-> a, value |-> v]

MCSaid ==
  {Says(None, None), Says("accept", None),
   Says("accept", Proved(TRUE, "accept")), Says("reject", Proved(TRUE, "accept")),
   Says("reject", Proved(FALSE, "reject")), Says(None, Proved(FALSE, "accept")),
   Says("accept", Proved(TRUE, None)), Says(None, Proved(TRUE, "bogus"))}

MCRelation ==
  {None, Related(TRUE, FALSE, "good", TRUE), Related(TRUE, TRUE, "none", TRUE),
   Related(TRUE, TRUE, "other", TRUE), Related(TRUE, TRUE, "good", FALSE),
   Related(FALSE, TRUE, "none", FALSE), Related(FALSE, TRUE, "symbolic", TRUE),
   Related(FALSE, FALSE, "good", TRUE), Related(FALSE, TRUE, "good", TRUE)}

\* No flaw, that of the last check of a list, or that of the second too.
Flawed(checks) ==
  LET flaw(i) == [check |-> checks[i].name,
                  code |-> CHOOSE c \in checks[i].codes : TRUE]
  IN {{}, {flaw(Len(checks))}, {flaw(2), flaw(Len(checks))}}

\* One deviation: a field and its other value.
Deviations ==
  {<<"ledger", x>> : x \in Flawed(LedgerChecks) \cup
     {{[check |-> "artifact", code |-> "artifact_conflict"]},
      {[check |-> "pointer", code |-> "missing_ref"]}}}
  \cup {<<"context", FALSE>>, <<"use", FALSE>>, <<"compiles", FALSE>>}
  \cup {<<"confluence", x>> : x \in {"good", "symbolic", "other"}}
  \cup {<<"event", [confluence |-> c, flaws |-> x]>> :
          c \in BOOLEAN, x \in Flawed(EventChecks)}
  \cup {<<f, x>> : f \in {"measurement", "representation"}, x \in MCRelation}
  \cup {<<"completion", [status |-> t, named |-> n, proof |-> p,
                         members |-> n]>> :
          t \in {"pass", "unknown"}, n \in BOOLEAN, p \in {"unpurposed", "good"}}
  \cup {<<"values", [Good.values EXCEPT ![v] = x]>> :
          v \in {"prefix_adjudication", "frame_adequacy"}, x \in MCSaid}
  \cup {<<"clause", [schema |-> TRUE, flaws |-> x, target |-> t]>> :
          x \in Flawed(ClauseChecks), t \in BOOLEAN}
  \cup {<<"clause", [schema |-> FALSE, flaws |-> {}, target |-> TRUE]>>}
  \cup {<<"contract", [flaws |-> x, refused |-> r, target |-> t]>> :
          x \in Flawed(ContractChecks), r \in {{}, {"validity"}}, t \in BOOLEAN}
  \cup {<<"trust", [flaws |-> x]>> : x \in Flawed(TrustChecks)}
  \cup {<<"kernelProof", [flaws |-> x]>> : x \in Flawed(KernelChecks)}
  \cup {<<"certificate", "claims">>}
  \cup {<<"sources", x>> : x \in Sources \ {"agree"}}

Deviate(b, d) == [b EXCEPT ![d[1]] = d[2]]

MCBundles ==
  {b \in {Deviate(Deviate(Good, d), e) : d \in Deviations, e \in Deviations} :
     b.certificate = "issued" => b.sources \in {"agree", "differ", "absent"}}

\* Faults of the earlier stages come with the good bundle only: one, or one
\* in a stage whose faults have other stages' labels and one elsewhere.
MCPreflightFaults ==
  {{}} \cup {{f} : f \in PreflightFault}
  \cup {{f, g} : f \in SetRefFinds \cup ReplayFinds,
                  g \in CanonicalizeFinds \cup ProfileFinds \cup AuthorityFinds}

MCSingleFaults ==
  {[stage |-> f.label, code |-> f.code] : f \in SetRefFinds \cup ProfileFinds}

MCInit ==
  /\ Init
  /\ faults = {} \/ bundle = Good

MCSpec == MCInit /\ [][Next]_vars /\ WF_vars(Running)
=============================================================================
