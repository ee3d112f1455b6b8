--------------------------- MODULE BundleManifest ---------------------------
(***************************************************************************)
(* dfcc.artifacts with the schema and digest stages of dfcc.validation: an *)
(* artifact bundle, what is done to it before it is handed in, and the     *)
(* check of its digests and of its manifest's dependencies.  Of what a     *)
(* schema says the model keeps that no schema takes null.                  *)
(*                                                                         *)
(* An artifact is its content; a digest is what it is a digest of, so that *)
(* equal digests mean equal things.  The references of the manifest are    *)
(* those of the entries, named by their ids, or records of its own.        *)
(***************************************************************************)
EXTENDS Naturals, Sequences

CONSTANTS
  None,
  Ids,            \* the artifacts of the bundle
  Touched,        \* the artifacts that may be replaced
  Schemaless,     \* the artifacts whose role and entry name no schema
  Contents,       \* what an artifact may contain
  Null,           \* an entry's artifact that is null, or absent
  Manifests,      \* the manifests it may be given, without digest and records
  Dependencies    \* the functions from Ids to the artifacts each names

ASSUME BundleAssumption ==
  /\ Touched \subseteq Ids /\ Schemaless \subseteq Ids
  /\ Dependencies \subseteq [Ids -> Seq(Ids)]
  /\ Manifests \subseteq
       [root : Ids, listing : {"ids", "records"}, listed : SUBSET Ids,
        order : Seq(Ids), admissions : SUBSET SUBSET Ids]

ASSUME NoneIsNoValue ==
  None \notin Contents \cup {"pass", "schema_invalid", "missing_ref",
                            "digest_mismatch", "artifact_conflict"}

VARIABLES
  content,        \* the artifact of each entry
  ref,            \* the reference of each entry: its digest and dependencies
  manifest,       \* the manifest, with the records and the digest it has
  sealed,         \* what the entries' digests said when it got its digest
  strict,         \* whether the check is a strict one
  phase,          \* "open", "schemas", "entries", "order", "search",
                  \* "manifest" or "done"
  result,         \* None, "pass" or a failure code
  stack, todo,    \* the search: the path, and what is left of each loop on it
  visited,        \* the artifacts it has finished, in that order
  cycle           \* the cycle it refused

bundleVars == <<content, ref, manifest, sealed>>
searchVars == <<stack, todo, visited, cycle>>
vars == <<bundleVars, strict, phase, result, searchVars>>

Ref == [digest : {None} \cup Contents, deps : Seq(Ids)]

Top(s) == s[Len(s)]
Below(s) == SubSeq(s, 1, Len(s) - 1)

\* A manifest that lists nothing lists every entry.
Listed == IF manifest.listed = {} THEN Ids ELSE manifest.listed

ByRecord == manifest.listing = "records" /\ manifest.listed # {}

Refs == IF ByRecord THEN manifest.records ELSE [id \in Listed |-> ref[id]]

\* A variant: the references go in by their names.
Identity_names(refs) ==
  [root |-> manifest.root, refs |-> DOMAIN refs, order |-> manifest.order,
   admissions |-> manifest.admissions]

\* _manifest_identity: what the manifest's digest is a digest of
Identity(refs) ==
  [root |-> manifest.root, refs |-> refs, order |-> manifest.order,
   admissions |-> manifest.admissions]

-----------------------------------------------------------------------------
(* What is done to a bundle.                                               *)

Open == phase \in {"open", "done"}

NoSearch == stack' = <<>> /\ todo' = <<>> /\ visited' = <<>> /\ cycle' = <<>>

\* What an earlier check found is no longer of interest.
Edited ==
  /\ Open
  /\ phase' = "open" /\ result' = None /\ NoSearch
  /\ UNCHANGED strict

\* An artifact is replaced.
Replace(id, c) ==
  /\ Edited
  /\ content' = [content EXCEPT ![id] = c]
  /\ UNCHANGED <<ref, manifest, sealed>>

\* build_artifact_ref: its entry gets the digest of what is there.
Sign(id) ==
  /\ Edited
  /\ ref' = [ref EXCEPT ![id].digest = content[id]]
  /\ UNCHANGED <<content, manifest, sealed>>

\* The manifest is written anew, records and digest.
Seal ==
  LET written == [id \in Listed |-> ref[id]] IN
  /\ Edited
  /\ manifest' = [manifest EXCEPT
       !.records = written,
       !.digest = Identity(written)]
  /\ sealed' = [id \in Ids |-> ref[id].digest]
  /\ UNCHANGED <<content, ref>>

-----------------------------------------------------------------------------
(* The check.                                                              *)

End(r) == phase' = "done" /\ result' = r

\* validate_artifact_ref: without an artifact there is nothing to compare.
EntryFailure(id) ==
  CASE ref[id].digest = None -> "missing_ref"
    [] ref[id].digest # None /\ content[id] \notin {Null, ref[id].digest} ->
         "digest_mismatch"
    [] OTHER -> None

Check ==
  /\ Open
  /\ strict' \in BOOLEAN
  /\ phase' = "schemas" /\ result' = None
  /\ NoSearch
  /\ UNCHANGED bundleVars

Unformed(id) == id \notin Schemaless /\ content[id] = Null

CheckSchemas ==
  /\ phase = "schemas"
  /\ \/ \E id \in Ids : Unformed(id) /\ End("schema_invalid")
     \/ /\ \A id \in Ids : ~ Unformed(id)
        /\ phase' = "entries" /\ UNCHANGED result
  /\ UNCHANGED <<bundleVars, strict, searchVars>>

CheckEntries ==
  /\ phase = "entries"
  /\ \/ \E id \in Ids : EntryFailure(id) # None /\ End(EntryFailure(id))
     \/ /\ \A id \in Ids : EntryFailure(id) = None
        /\ phase' = "order" /\ UNCHANGED result
  /\ UNCHANGED <<bundleVars, strict, searchVars>>

Positions(id) == {i \in DOMAIN manifest.order : manifest.order[i] = id}

\* the last place of an artifact in the order
Position(id) == CHOOSE i \in Positions(id) : \A j \in Positions(id) : j <= i

InOrder(id) == Positions(id) # {}

Misplaced(id) ==
  \E i \in DOMAIN Refs[id].deps :
    LET d == Refs[id].deps[i] IN InOrder(d) /\ Position(d) > Position(id)

\* Each listed artifact in turn; the first with a fault ends the check.
OrderFailure ==
  IF manifest.order = <<>> THEN {}
  ELSE {IF InOrder(id) THEN "artifact_conflict" ELSE "missing_ref" :
          id \in {id \in DOMAIN Refs : InOrder(id) => Misplaced(id)}}

\* Then each must have a digest; then the search starts at the root.
CheckOrder ==
  /\ phase = "order"
  /\ \/ \E code \in OrderFailure : End(code) /\ UNCHANGED <<stack, todo>>
     \/ /\ OrderFailure = {}
        /\ \E id \in DOMAIN Refs : Refs[id].digest = None
        /\ End("missing_ref") /\ UNCHANGED <<stack, todo>>
     \/ /\ OrderFailure = {}
        /\ \A id \in DOMAIN Refs : Refs[id].digest # None
        /\ IF manifest.root \in DOMAIN Refs
           THEN /\ stack' = <<manifest.root>>
                /\ todo' = <<Refs[manifest.root].deps>>
           ELSE UNCHANGED <<stack, todo>>
        /\ phase' = "search" /\ UNCHANGED result
  /\ UNCHANGED <<bundleVars, strict, visited, cycle>>

-----------------------------------------------------------------------------
(* The search, visit(): the path is a stack, and an artifact is in the     *)
(* code's set "visiting" exactly while it is on the path.                  *)

\* A variant: the search forgets what is on its path.
OnPath_never(id) == FALSE

OnPath(id) == \E i \in DOMAIN stack : stack[i] = id

IsVisited(id) == \E i \in DOMAIN visited : visited[i] = id

\* the path from an artifact on it, and back to the artifact
CycleOf(id) ==
  LET start == CHOOSE i \in DOMAIN stack : stack[i] = id
  IN Append(SubSeq(stack, start, Len(stack)), id)

\* A variant: every admission must name them all.
Admitted_all(ids) ==
  \A a \in manifest.admissions : \A i \in DOMAIN ids : ids[i] \in a

\* admitted_cycle: an admission is the set of the ids that occur in it.
Admitted(ids) ==
  \E a \in manifest.admissions : \A i \in DOMAIN ids : ids[i] \in a

Searching == phase = "search" /\ stack # <<>> /\ Top(todo) # <<>>

\* the next dependency of the artifact at the end of the path
Dependency == Head(Top(todo))

Looped == [todo EXCEPT ![Len(todo)] = Tail(@)]

\* one that is not listed, is visited, or closes an admitted cycle
Skip ==
  /\ Searching
  /\ \/ Dependency \notin DOMAIN Refs
     \/ OnPath(Dependency) /\ Admitted(CycleOf(Dependency))
     \/ ~ OnPath(Dependency) /\ IsVisited(Dependency)
  /\ todo' = Looped
  /\ UNCHANGED <<bundleVars, strict, phase, result, stack, visited, cycle>>

Enter ==
  /\ Searching
  /\ Dependency \in DOMAIN Refs
  /\ ~ OnPath(Dependency) /\ ~ IsVisited(Dependency)
  /\ stack' = Append(stack, Dependency)
  /\ todo' = Append(Looped, Refs[Dependency].deps)
  /\ UNCHANGED <<bundleVars, strict, phase, result, visited, cycle>>

\* A variant: an artifact met again is a cycle, on the path or not.
Refuse_again ==
  /\ Searching
  /\ Dependency \in DOMAIN Refs
  /\ OnPath(Dependency) \/ IsVisited(Dependency)
  /\ cycle' = Append(stack, Dependency)
  /\ End("artifact_conflict")
  /\ UNCHANGED <<bundleVars, strict, stack, todo, visited>>

Refuse ==
  /\ Searching
  /\ Dependency \in DOMAIN Refs
  /\ OnPath(Dependency) /\ ~ Admitted(CycleOf(Dependency))
  /\ cycle' = CycleOf(Dependency)
  /\ End("artifact_conflict")
  /\ UNCHANGED <<bundleVars, strict, stack, todo, visited>>

\* A variant: the loop it came from is lost.
Leave_half ==
  /\ phase = "search" /\ stack # <<>> /\ Top(todo) = <<>>
  /\ visited' = Append(visited, Top(stack))
  /\ stack' = Below(stack)
  /\ UNCHANGED <<bundleVars, strict, phase, result, todo, cycle>>

\* The loop over the last one's dependencies is done.
Leave ==
  /\ phase = "search" /\ stack # <<>> /\ Top(todo) = <<>>
  /\ visited' = Append(visited, Top(stack))
  /\ stack' = Below(stack)
  /\ todo' = Below(todo)
  /\ UNCHANGED <<bundleVars, strict, phase, result, cycle>>

SearchEnds ==
  /\ phase = "search" /\ stack = <<>>
  /\ phase' = "manifest"
  /\ UNCHANGED <<bundleVars, strict, result, searchVars>>

\* _validate_manifest_digest
CheckManifest ==
  /\ phase = "manifest"
  /\ \/ manifest.digest = None /\ strict /\ End("missing_ref")
     \/ manifest.digest = None /\ ~ strict /\ End("pass")
     \/ manifest.digest \notin {None, Identity(Refs)} /\ End("digest_mismatch")
     \/ /\ manifest.digest # None /\ manifest.digest = Identity(Refs)
        /\ End("pass")
  /\ UNCHANGED <<bundleVars, strict, searchVars>>

-----------------------------------------------------------------------------
Init ==
  /\ \E c \in Contents \ {Null} : content = [id \in Ids |-> c]
  /\ \E deps \in Dependencies :
       ref = [id \in Ids |-> [digest |-> content[id], deps |-> deps[id]]]
  /\ \E m \in Manifests :
       manifest = [root |-> m.root, listing |-> m.listing, listed |-> m.listed,
                   order |-> m.order, admissions |-> m.admissions,
                   digest |-> None,
                   records |-> [id \in IF m.listed = {} THEN Ids ELSE m.listed
                                  |-> ref[id]]]
  /\ sealed = None
  /\ strict = FALSE /\ phase = "open" /\ result = None
  /\ stack = <<>> /\ todo = <<>> /\ visited = <<>> /\ cycle = <<>>

Edit ==
  \/ \E id \in Touched, c \in Contents : Replace(id, c)
  \/ \E id \in Touched : Sign(id)
  \/ Seal

Search == Skip \/ Enter \/ Refuse \/ Leave \/ SearchEnds

Next ==
  \/ Edit \/ Check
  \/ CheckSchemas \/ CheckEntries \/ CheckOrder \/ Search \/ CheckManifest

Spec == Init /\ [][Next]_vars

-----------------------------------------------------------------------------
(* Properties.                                                             *)

\* The state holds what it should; outside a search the path is of no use.
TypeOK ==
  /\ content \in [Ids -> Contents]
  /\ ref \in [Ids -> Ref]
  /\ strict \in BOOLEAN
  /\ phase \in {"open", "schemas", "entries", "order", "search", "manifest",
                "done"}
  /\ result \in {None, "pass", "schema_invalid", "missing_ref",
                 "digest_mismatch", "artifact_conflict"}
  /\ DOMAIN Refs \subseteq Ids
  /\ stack \in Seq(DOMAIN Refs) /\ visited \in Seq(DOMAIN Refs)
  /\ todo \in Seq(Seq(Ids)) /\ Len(todo) = Len(stack)

\* The search enters each artifact once: none is twice on the path or among
\* the visited, nor in both, whatever cycles were admitted.  So the path is
\* never longer than the list, and the recursion of visit() ends.
EachOnce ==
  /\ \A i, j \in DOMAIN stack : stack[i] = stack[j] => i = j
  /\ \A i, j \in DOMAIN visited : visited[i] = visited[j] => i = j
  /\ \A i \in DOMAIN stack, j \in DOMAIN visited : stack[i] # visited[j]

\* A manifest that passes without fixed-point admissions has no cycle behind
\* its root: the search has visited the root, and everything an artifact
\* depends on before the artifact (validate_manifest_dependencies).
PassIsAcyclic ==
  result = "pass" /\ manifest.admissions = {} =>
    /\ manifest.root \in DOMAIN Refs => IsVisited(manifest.root)
    /\ \A i \in DOMAIN visited : \A k \in DOMAIN Refs[visited[i]].deps :
         LET d == Refs[visited[i]].deps[k] IN
         d \in DOMAIN Refs => \E j \in 1..(i - 1) : visited[j] = d

\* What the search refuses is a cycle: the artifacts it names depend each on
\* the next, the last is the first, and no admission names them all; an
\* artifact two others share is not one.
RefusedIsACycle ==
  cycle # <<>> =>
    /\ result = "artifact_conflict"
    /\ Len(cycle) > 1 /\ cycle[1] = Top(cycle)
    /\ \A i \in 1..(Len(cycle) - 1) :
         \E k \in DOMAIN Refs[cycle[i]].deps :
           Refs[cycle[i]].deps[k] = cycle[i + 1]
    /\ ~ Admitted(cycle)

\* A strict check of a manifest that lists its artifacts by id passes only
\* what its digest was made for, however the listed artifacts and
\* their references were changed in between; the one thing it does not see is
\* that an artifact without a schema has become null
\* (_validate_manifest_digest, validate_artifact_ref, _schema_stage).
PassIsAsSealed ==
  result = "pass" /\ strict /\ ~ ByRecord =>
    /\ manifest.digest # None
    /\ \A id \in Listed :
         content[id] # sealed[id] => id \in Schemaless /\ content[id] = Null

\* README: "Strict replay also requires the bundle manifest digest. A missing
\* digest becomes missing_ref; a stale digest becomes digest_mismatch."
StaleIsRefused ==
  result = "pass" /\ strict =>
    manifest.digest # None /\ \A id \in Listed : content[id] = sealed[id]
=============================================================================
