-------------------------- MODULE MCBundleManifest --------------------------
(***************************************************************************)
(* Three artifacts, a the root.  Their dependencies make chains, diamonds, *)
(* loops of one, two and three, and loops reached by two ways.  Artifacts  *)
(* are replaced and signed where b and c depend on nothing: what is        *)
(* compared of an artifact does not look at its dependencies.              *)
(***************************************************************************)
EXTENDS BundleManifest

CONSTANTS a, b, c

MCIds == {a, b, c}

MCDependencies ==
  {[id \in MCIds |-> CASE id = a -> x [] id = b -> y [] OTHER -> z] :
     x \in {<<b>>, <<b, c>>, <<c, b>>}, y \in {<<>>, <<a>>, <<c>>, <<b>>},
     z \in {<<>>, <<b>>, <<a>>, <<b, a>>}}

MCManifests ==
  [root : {a}, listing : {"ids", "records"},
   listed : {{}, {a, b, c}, {a, b}, {b, c}},
   order : {<<>>, <<c, b, a>>, <<b, a, c, b>>}, admissions : {{}, {{a, b}}}]

Leaves == ref[b].deps = <<>> /\ ref[c].deps = <<>>

MCNext ==
  \/ Leaves /\ Edit
  \/ Seal \/ Check
  \/ CheckSchemas \/ CheckEntries \/ CheckOrder \/ Search \/ CheckManifest

MCSpec == Init /\ [][MCNext]_vars
=============================================================================
