------------------------ MODULE BundleManifestProofs ------------------------
(***************************************************************************)
(* Proofs about BundleManifest: for any number of artifacts, whatever they *)
(* depend on and whatever the manifest admits, the search enters each once *)
(* and refuses only cycles, and what passes is acyclic and as sealed.      *)
(***************************************************************************)
EXTENDS BundleManifest, SequenceTheorems, TLAPS

\* what an artifact depends on
Deps(id) == Refs[id].deps

\* how many of them the loop at a place of the path has taken
Taken(p) == Len(Deps(stack[p])) - Len(todo[p])

-----------------------------------------------------------------------------
(* The inductive invariant.                                                *)

Typed ==
  /\ content \in [Ids -> Contents]
  /\ ref \in [Ids -> Ref]
  /\ strict \in BOOLEAN
  /\ phase \in {"open", "schemas", "entries", "order", "search", "manifest",
                "done"}
  /\ result \in {None, "pass", "schema_invalid", "missing_ref",
                 "digest_mismatch", "artifact_conflict"}
  /\ manifest \in
       [root : Ids, listing : {"ids", "records"}, listed : SUBSET Ids,
        order : Seq(Ids), admissions : SUBSET SUBSET Ids,
        digest : {None} \cup
          [root : Ids, refs : UNION {[L -> Ref] : L \in SUBSET Ids},
           order : Seq(Ids), admissions : SUBSET SUBSET Ids],
        records : UNION {[L -> Ref] : L \in SUBSET Ids}]
  /\ manifest.records \in [Listed -> Ref]

SearchTyped ==
  /\ stack \in Seq(Listed) /\ visited \in Seq(Listed)
  /\ todo \in Seq(Seq(Ids)) /\ Len(todo) = Len(stack)

Stages ==
  /\ phase = "done" <=> result # None
  /\ phase \in {"open", "schemas", "entries", "order"} =>
       stack = <<>> /\ todo = <<>> /\ visited = <<>>
  /\ phase = "manifest" \/ result = "pass" => stack = <<>>
  /\ phase # "done" => cycle = <<>>

\* Each loop has taken the first of its dependencies, and the last it took
\* is the next artifact on the path.
Trail ==
  \A p \in DOMAIN stack :
    /\ Taken(p) \in Nat
    /\ \A k \in 1..Len(todo[p]) : todo[p][k] = Deps(stack[p])[Taken(p) + k]
    /\ p < Len(stack) =>
         Taken(p) > 0 /\ Deps(stack[p])[Taken(p)] = stack[p + 1]

\* Without admissions, what a loop has taken is visited, but for the one it
\* is in; what a visited artifact depends on is visited before it; and the
\* search starts at the root.
Seen ==
  manifest.admissions = {} =>
    /\ \A p \in DOMAIN stack : \A k \in 1..Taken(p) :
         Deps(stack[p])[k] \in Listed =>
           IsVisited(Deps(stack[p])[k]) \/ (p < Len(stack) /\ k = Taken(p))
    /\ \A i \in DOMAIN visited : \A k \in DOMAIN Deps(visited[i]) :
         Deps(visited[i])[k] \in Listed =>
           \E j \in 1..(i - 1) : visited[j] = Deps(visited[i])[k]
    /\ phase \in {"search", "manifest"} \/ result = "pass" =>
         \/ manifest.root \notin Listed
         \/ IsVisited(manifest.root)
         \/ stack # <<>> /\ stack[1] = manifest.root

\* After the schemas, only what has none may be null; after the entries, what
\* each says of its artifact is so.
Matches ==
  /\ phase \in {"entries", "order", "search", "manifest"} \/ result = "pass" =>
       \A id \in Ids : ~ Unformed(id)
  /\ phase \in {"order", "search", "manifest"} \/ result = "pass" =>
       \A id \in Ids : content[id] \in {Null, ref[id].digest}

\* The manifest's digest is of what the entries said when it was made.
Sealed ==
  /\ manifest.digest # None =>
       \A id \in Listed : manifest.digest.refs[id].digest = sealed[id]
  /\ result = "pass" /\ strict =>
       manifest.digest # None /\ manifest.digest = Identity(Refs)

ManifestInv ==
  /\ Typed /\ SearchTyped /\ Stages
  /\ EachOnce /\ Trail /\ Seen
  /\ Matches /\ Sealed /\ RefusedIsACycle

-----------------------------------------------------------------------------
(* Facts about the references and the stacks.                              *)

LEMMA RefsTyped ==
  ASSUME Typed
  PROVE  /\ Listed \subseteq Ids
         /\ Refs \in [Listed -> Ref] /\ DOMAIN Refs = Listed
         /\ \A id \in Listed : Deps(id) \in Seq(Ids)
<1>1. Listed \subseteq Ids
  BY DEF Typed, Listed
<1>2. Refs \in [Listed -> Ref]
  BY <1>1 DEF Typed, Refs
<1>3. \A id \in Listed : Refs[id] \in Ref
  BY <1>2
<1> QED BY <1>1, <1>2, <1>3 DEF Ref, Deps

LEMMA SameRefs ==
  ASSUME UNCHANGED bundleVars
  PROVE  /\ Refs' = Refs /\ Listed' = Listed
         /\ content' = content /\ ref' = ref /\ manifest' = manifest
         /\ sealed' = sealed
         /\ \A id : Deps(id)' = Deps(id)
BY DEF bundleVars, Refs, Listed, ByRecord, Deps

LEMMA BelowIs ==
  ASSUME NEW S, NEW s \in Seq(S), s # <<>>
  PROVE  /\ Below(s) \in Seq(S) /\ Len(Below(s)) = Len(s) - 1
         /\ Len(s) \in Nat \ {0} /\ Top(s) \in S
         /\ DOMAIN s = 1..Len(s) /\ DOMAIN Below(s) = 1..(Len(s) - 1)
         /\ \A i \in 1..(Len(s) - 1) : Below(s)[i] = s[i]
<1>1. Len(s) \in Nat \ {0} /\ DOMAIN s = 1..Len(s)
  BY EmptySeq, LenProperties
<1>2. \A i \in 1..Len(s) : s[i] \in S
  BY ElementOfSeq
<1>3. /\ Below(s) \in Seq(S)
      /\ Len(Below(s)) =
           IF 1 <= Len(s) - 1 THEN (Len(s) - 1) - 1 + 1 ELSE 0
      /\ \A i \in 1..((Len(s) - 1) - 1 + 1) : Below(s)[i] = s[1 + i - 1]
  <2>1. 1 \in Int /\ Len(s) - 1 \in Int
    BY <1>1
  <2>2. \A i \in 1..(Len(s) - 1) : s[i] \in S
    BY <1>1, <1>2
  <2> QED BY <2>1, <2>2, SubSeqProperties DEF Below
<1>4. \A n \in Nat \ {0} :
        /\ (IF 1 <= n - 1 THEN (n - 1) - 1 + 1 ELSE 0) = n - 1
        /\ \A i \in 1..(n - 1) : i \in 1..((n - 1) - 1 + 1) /\ 1 + i - 1 = i
        /\ n \in 1..n
  OBVIOUS
<1>5. Len(Below(s)) = Len(s) - 1
  BY <1>1, <1>3, <1>4, Zenon
<1>6. DOMAIN Below(s) = 1..(Len(s) - 1)
  BY <1>3, <1>5, LenProperties
<1>7. \A i \in 1..(Len(s) - 1) : Below(s)[i] = s[i]
  <2> TAKE i \in 1..(Len(s) - 1)
  <2>1. i \in 1..((Len(s) - 1) - 1 + 1) /\ 1 + i - 1 = i
    BY <1>1, <1>4, Zenon
  <2> QED BY <1>3, <2>1, Zenon
<1>8. Top(s) \in S
  BY <1>1, <1>2, <1>4, Zenon DEF Top
<1> QED BY <1>1, <1>3, <1>5, <1>6, <1>7, <1>8, Zenon

\* A loop takes its next dependency.
LEMMA TakeNext ==
  ASSUME NEW S, NEW s \in Seq(Seq(S)), s # <<>>, NEW n, n = Len(s),
         s[n] # <<>>,
         NEW t, t = [s EXCEPT ![n] = Tail(s[n])]
  PROVE  /\ n \in Nat \ {0} /\ DOMAIN s = 1..n
         /\ t \in Seq(Seq(S)) /\ Len(t) = n
         /\ \A p \in 1..(n - 1) : t[p] = s[p]
         /\ s[n] \in Seq(S) /\ Len(s[n]) \in Nat \ {0}
         /\ Head(s[n]) = s[n][1] /\ Head(s[n]) \in S
         /\ Len(t[n]) = Len(s[n]) - 1
         /\ \A k \in 1..Len(t[n]) : t[n][k] = s[n][k + 1]
<1>1. /\ n \in Nat \ {0} /\ DOMAIN s = 1..n /\ n \in 1..Len(s)
  BY EmptySeq, LenProperties
<1>2. s[n] \in Seq(S)
  BY <1>1, ElementOfSeq, Zenon
<1>3. /\ Head(s[n]) \in S /\ Tail(s[n]) \in Seq(S)
      /\ Len(Tail(s[n])) = Len(s[n]) - 1
      /\ \A k \in 1..Len(Tail(s[n])) : Tail(s[n])[k] = s[n][k + 1]
      /\ Len(s[n]) \in Nat \ {0}
  BY <1>2, HeadTailProperties, EmptySeq, Zenon
<1>4. Head(s[n]) = s[n][1]
  BY <1>2
<1>5. /\ t \in Seq(Seq(S)) /\ Len(t) = Len(s)
      /\ \A j \in 1..Len(s) : t[j] = IF j = n THEN Tail(s[n]) ELSE s[j]
  <2>1. \A i \in 1..Len(s), e \in Seq(S) :
          /\ [s EXCEPT ![i] = e] \in Seq(Seq(S))
          /\ Len([s EXCEPT ![i] = e]) = Len(s)
          /\ \A j \in 1..Len(s) :
               [s EXCEPT ![i] = e][j] = IF j = i THEN e ELSE s[j]
    BY ExceptSeq
  <2> QED BY <1>1, <1>3, <2>1, Zenon
<1>6. \A p \in 1..(n - 1) : p \in 1..n /\ p # n
  BY <1>1
<1>7. /\ t[n] = Tail(s[n])
      /\ \A p \in 1..(n - 1) : t[p] = s[p]
  BY <1>1, <1>5, <1>6, Zenon
<1> QED BY <1>1, <1>2, <1>3, <1>4, <1>5, <1>7, Zenon

LEMMA LoopedIs ==
  ASSUME SearchTyped, Searching, NEW n, n = Len(todo)
  PROVE  /\ n \in Nat \ {0} /\ Len(stack) = n
         /\ DOMAIN stack = 1..n /\ DOMAIN todo = 1..n
         /\ Looped \in Seq(Seq(Ids)) /\ Len(Looped) = n
         /\ \A p \in 1..(n - 1) : Looped[p] = todo[p]
         /\ todo[n] \in Seq(Ids) /\ Len(todo[n]) \in Nat \ {0}
         /\ Dependency = todo[n][1] /\ Dependency \in Ids
         /\ Len(Looped[n]) = Len(todo[n]) - 1
         /\ \A k \in 1..Len(Looped[n]) : Looped[n][k] = todo[n][k + 1]
<1>1. /\ stack \in Seq(Listed) /\ stack # <<>> /\ todo \in Seq(Seq(Ids))
      /\ Len(stack) = n /\ todo[n] # <<>>
  BY DEF SearchTyped, Searching, Top
<1>2. todo # <<>> /\ DOMAIN stack = 1..n
  BY <1>1, EmptySeq, LenProperties
<1>3. Looped = [todo EXCEPT ![n] = Tail(todo[n])] /\ Dependency = Head(todo[n])
  BY DEF Looped, Dependency, Top
<1> HIDE DEF Looped
<1>4. /\ n \in Nat \ {0} /\ DOMAIN todo = 1..n
      /\ Looped \in Seq(Seq(Ids)) /\ Len(Looped) = n
      /\ \A p \in 1..(n - 1) : Looped[p] = todo[p]
      /\ todo[n] \in Seq(Ids) /\ Len(todo[n]) \in Nat \ {0}
      /\ Head(todo[n]) = todo[n][1] /\ Head(todo[n]) \in Ids
      /\ Len(Looped[n]) = Len(todo[n]) - 1
      /\ \A k \in 1..Len(Looped[n]) : Looped[n][k] = todo[n][k + 1]
  BY <1>1, <1>2, <1>3, TakeNext
<1> QED BY <1>1, <1>2, <1>3, <1>4, Zenon

-----------------------------------------------------------------------------
(* Steps that leave no search: the edits and the start of a check.         *)

LEMMA Cleared ==
  ASSUME NoSearch, result' = None, phase' \in {"open", "schemas"}
  PROVE  /\ SearchTyped' /\ Stages' /\ EachOnce' /\ Trail' /\ Seen'
         /\ Matches' /\ RefusedIsACycle'
<1>1. stack' = <<>> /\ todo' = <<>> /\ visited' = <<>> /\ cycle' = <<>>
  BY DEF NoSearch
<1>2. /\ DOMAIN stack' = {} /\ DOMAIN visited' = {} /\ Len(stack') = 0
      /\ Len(todo') = 0
  BY <1>1
<1>3. SearchTyped'
  BY <1>1, <1>2, EmptySeq DEF SearchTyped
<1>4. result' # "pass"
  BY NoneIsNoValue
<1>5. Stages'
  BY <1>1, <1>4 DEF Stages
<1>6. EachOnce' /\ Trail' /\ RefusedIsACycle'
  BY <1>1, <1>2 DEF EachOnce, Trail, RefusedIsACycle
<1>7. Seen' /\ Matches'
  BY <1>2, <1>4 DEF Seen, Matches, Unformed
<1> QED BY <1>3, <1>5, <1>6, <1>7

LEMMA ReplaceStep ==
  ASSUME ManifestInv, NEW id \in Touched, NEW c \in Contents, Replace(id, c)
  PROVE  ManifestInv'
<1>1. /\ content' = [content EXCEPT ![id] = c]
      /\ ref' = ref /\ manifest' = manifest /\ sealed' = sealed
      /\ Listed' = Listed /\ strict' = strict
      /\ phase' = "open" /\ result' = None /\ NoSearch
  BY DEF Replace, Edited, Listed
<1>2. Typed'
  BY <1>1 DEF ManifestInv, Typed
<1>3. Sealed'
  BY <1>1, NoneIsNoValue DEF ManifestInv, Sealed
<1> QED BY <1>1, <1>2, <1>3, Cleared DEF ManifestInv

LEMMA SignStep ==
  ASSUME ManifestInv, NEW id \in Touched, Sign(id)
  PROVE  ManifestInv'
<1>1. /\ ref' = [ref EXCEPT ![id].digest = content[id]]
      /\ content' = content /\ manifest' = manifest /\ sealed' = sealed
      /\ Listed' = Listed /\ strict' = strict
      /\ phase' = "open" /\ result' = None /\ NoSearch
  BY DEF Sign, Edited, Listed
<1>2. ref' \in [Ids -> Ref]
  <2>1. content[id] \in Contents /\ ref[id] \in Ref /\ ref \in [Ids -> Ref]
    BY BundleAssumption DEF ManifestInv, Typed
  <2>2. [ref[id] EXCEPT !.digest = content[id]] \in Ref
    BY <2>1 DEF Ref
  <2> QED BY <1>1, <2>1, <2>2
<1>3. Typed'
  BY <1>1, <1>2 DEF ManifestInv, Typed
<1>4. Sealed'
  BY <1>1, NoneIsNoValue DEF ManifestInv, Sealed
<1> QED BY <1>1, <1>3, <1>4, Cleared DEF ManifestInv

LEMMA SealStep ==
  ASSUME ManifestInv, Seal
  PROVE  ManifestInv'
<1> DEFINE written == [id \in Listed |-> ref[id]]
           m == [manifest EXCEPT !.records = written,
                                 !.digest = Identity(written)]
<1>1. /\ content' = content /\ ref' = ref /\ strict' = strict
      /\ manifest' = m
      /\ sealed' = [id \in Ids |-> ref[id].digest]
      /\ phase' = "open" /\ result' = None /\ NoSearch
  BY DEF Seal, Edited
<1>2. Listed \subseteq Ids /\ written \in [Listed -> Ref]
  BY DEF ManifestInv, Typed, Listed
<1>3. written \in UNION {[L -> Ref] : L \in SUBSET Ids}
  BY <1>2
<1>4. /\ m.root = manifest.root /\ m.listing = manifest.listing
      /\ m.listed = manifest.listed /\ m.order = manifest.order
      /\ m.admissions = manifest.admissions
      /\ m.records = written /\ m.digest = Identity(written)
      /\ Identity(written) \in
          [root : Ids, refs : UNION {[L -> Ref] : L \in SUBSET Ids},
           order : Seq(Ids), admissions : SUBSET SUBSET Ids]
      /\ Identity(written).refs = written
      /\ m \in
         [root : Ids, listing : {"ids", "records"}, listed : SUBSET Ids,
          order : Seq(Ids), admissions : SUBSET SUBSET Ids,
          digest : {None} \cup
            [root : Ids, refs : UNION {[L -> Ref] : L \in SUBSET Ids},
             order : Seq(Ids), admissions : SUBSET SUBSET Ids],
          records : UNION {[L -> Ref] : L \in SUBSET Ids}]
  <2> DEFINE R == UNION {[L -> Ref] : L \in SUBSET Ids}
             D == [root : Ids, refs : R, order : Seq(Ids),
                   admissions : SUBSET SUBSET Ids]
             M == [root : Ids, listing : {"ids", "records"},
                   listed : SUBSET Ids, order : Seq(Ids),
                   admissions : SUBSET SUBSET Ids,
                   digest : {None} \cup D, records : R]
  <2>1. manifest \in M
    BY DEF ManifestInv, Typed
  <2>2. written \in R
    BY <1>3
  <2> HIDE DEF R, written
  <2>3. Identity(written) \in D /\ Identity(written).refs = written
    BY <2>1, <2>2 DEF Identity
  <2> HIDE DEF D
  <2>4. /\ m.root = manifest.root /\ m.listing = manifest.listing
        /\ m.listed = manifest.listed /\ m.order = manifest.order
        /\ m.admissions = manifest.admissions
        /\ m.records = written /\ m.digest = Identity(written)
        /\ m \in M
    BY <2>1, <2>2, <2>3
  <2> QED BY <2>3, <2>4 DEF R, D
<1> HIDE DEF m
<1>5. Listed' = Listed
  BY <1>1, <1>4 DEF Listed
<1>6. Typed'
  BY <1>1, <1>2, <1>4, <1>5 DEF ManifestInv, Typed
<1>7. Sealed'
  <2>1. \A id \in Listed : manifest'.digest.refs[id].digest = sealed'[id]
    BY <1>1, <1>2, <1>4
  <2> QED BY <1>1, <1>5, <2>1, NoneIsNoValue DEF Sealed
<1> QED BY <1>1, <1>6, <1>7, Cleared DEF ManifestInv

LEMMA CheckStep ==
  ASSUME ManifestInv, Check
  PROVE  ManifestInv'
<1>1. /\ strict' \in BOOLEAN /\ phase' = "schemas" /\ result' = None
      /\ NoSearch /\ UNCHANGED bundleVars
  BY DEF Check
<1>2. Typed'
  BY <1>1, SameRefs DEF ManifestInv, Typed
<1>3. Sealed'
  BY <1>1, SameRefs, NoneIsNoValue DEF ManifestInv, Sealed
<1> QED BY <1>1, <1>2, <1>3, Cleared DEF ManifestInv


-----------------------------------------------------------------------------
(* Steps of a check outside the search.                                    *)

LEMMA BundleKept ==
  ASSUME ManifestInv, UNCHANGED <<bundleVars, strict>>,
         phase' \in {"entries", "order", "search", "manifest", "done"},
         result' \in {None, "pass", "schema_invalid", "missing_ref",
                      "digest_mismatch", "artifact_conflict"},
         result' # "pass"
  PROVE  Typed' /\ Sealed'
<1>1. Typed'
  BY SameRefs DEF ManifestInv, Typed
<1>2. Sealed'
  BY SameRefs DEF ManifestInv, Sealed
<1> QED BY <1>1, <1>2

LEMMA SearchKept ==
  ASSUME ManifestInv, UNCHANGED <<bundleVars, searchVars>>,
         phase # "done",
         phase' \in {"search", "manifest"} \/ result' = "pass" =>
           phase \in {"search", "manifest"}
  PROVE  SearchTyped' /\ EachOnce' /\ Trail' /\ Seen' /\ RefusedIsACycle'
<1>1. stack' = stack /\ todo' = todo /\ visited' = visited /\ cycle' = cycle
  BY DEF searchVars
<1>2. SearchTyped' /\ EachOnce'
  BY <1>1, SameRefs DEF ManifestInv, SearchTyped, EachOnce
<1>3. Trail'
  BY <1>1, SameRefs DEF ManifestInv, Trail, Taken, Deps
<1>4. Seen'
  BY <1>1, SameRefs DEF ManifestInv, Seen, Taken, Deps, IsVisited
<1>5. RefusedIsACycle'
  BY <1>1 DEF ManifestInv, Stages, RefusedIsACycle
<1> QED BY <1>2, <1>3, <1>4, <1>5

LEMMA CheckSchemasStep ==
  ASSUME ManifestInv, CheckSchemas
  PROVE  ManifestInv'
<1>1. /\ phase = "schemas" /\ UNCHANGED <<bundleVars, strict, searchVars>>
      /\ result = None
      /\ stack = <<>> /\ todo = <<>> /\ visited = <<>> /\ cycle = <<>>
  BY DEF CheckSchemas, ManifestInv, Stages
<1>2. \/ phase' = "done" /\ result' = "schema_invalid"
      \/ /\ phase' = "entries" /\ result' = None
         /\ \A id \in Ids : ~ Unformed(id)
  BY <1>1 DEF CheckSchemas, End
<1>3. result' # "pass" /\ (phase' = "done" <=> result' # None)
  BY <1>2, NoneIsNoValue
<1>4. Typed' /\ Sealed'
  BY <1>1, <1>2, <1>3, BundleKept
<1>5. SearchTyped' /\ EachOnce' /\ Trail' /\ Seen' /\ RefusedIsACycle'
  BY <1>1, <1>2, <1>3, SearchKept
<1>6. Stages'
  BY <1>1, <1>2, <1>3 DEF Stages, searchVars
<1>7. Matches'
  BY <1>1, <1>2, <1>3, SameRefs DEF Matches, Unformed
<1> QED BY <1>4, <1>5, <1>6, <1>7 DEF ManifestInv

LEMMA CheckEntriesStep ==
  ASSUME ManifestInv, CheckEntries
  PROVE  ManifestInv'
<1>1. /\ phase = "entries" /\ UNCHANGED <<bundleVars, strict, searchVars>>
      /\ result = None
      /\ stack = <<>> /\ todo = <<>> /\ visited = <<>> /\ cycle = <<>>
  BY DEF CheckEntries, ManifestInv, Stages
<1>2. \/ phase' = "done" /\ result' \in {"missing_ref", "digest_mismatch"}
      \/ /\ phase' = "order" /\ result' = None
         /\ \A id \in Ids : content[id] \in {Null, ref[id].digest}
  <2>1. CASE \E id \in Ids : EntryFailure(id) # None /\ End(EntryFailure(id))
    <3> PICK id \in Ids : EntryFailure(id) # None /\ End(EntryFailure(id))
      BY <2>1
    <3> QED BY DEF EntryFailure, End
  <2>2. CASE /\ \A id \in Ids : EntryFailure(id) = None
             /\ phase' = "order" /\ UNCHANGED result
    <3>1. \A id \in Ids : content[id] \in {Null, ref[id].digest}
      BY <2>2, NoneIsNoValue DEF EntryFailure
    <3> QED BY <1>1, <2>2, <3>1
  <2> QED BY <2>1, <2>2 DEF CheckEntries
<1>3. result' # "pass" /\ (phase' = "done" <=> result' # None)
  BY <1>2, NoneIsNoValue
<1>4. Typed' /\ Sealed'
  BY <1>1, <1>2, <1>3, BundleKept
<1>5. SearchTyped' /\ EachOnce' /\ Trail' /\ Seen' /\ RefusedIsACycle'
  BY <1>1, <1>2, <1>3, SearchKept
<1>6. Stages'
  BY <1>1, <1>2, <1>3 DEF Stages, searchVars
<1>7. Matches'
  BY <1>1, <1>2, <1>3, SameRefs DEF ManifestInv, Matches, Unformed
<1> QED BY <1>4, <1>5, <1>6, <1>7 DEF ManifestInv

LEMMA SearchEndsStep ==
  ASSUME ManifestInv, SearchEnds
  PROVE  ManifestInv'
<1>1. /\ phase = "search" /\ phase' = "manifest" /\ stack = <<>>
      /\ UNCHANGED <<bundleVars, strict, result, searchVars>>
      /\ result = None /\ result' = None /\ result' # "pass"
      /\ cycle = <<>>
  BY NoneIsNoValue DEF SearchEnds, ManifestInv, Stages
<1>2. Typed' /\ Sealed'
  BY <1>1, BundleKept
<1>3. SearchTyped' /\ EachOnce' /\ Trail' /\ Seen' /\ RefusedIsACycle'
  BY <1>1, SearchKept
<1>4. Stages'
  BY <1>1 DEF Stages, searchVars
<1>5. Matches'
  BY <1>1, SameRefs DEF ManifestInv, Matches, Unformed
<1> QED BY <1>2, <1>3, <1>4, <1>5 DEF ManifestInv

LEMMA CheckManifestStep ==
  ASSUME ManifestInv, CheckManifest
  PROVE  ManifestInv'
<1>1. /\ phase = "manifest" /\ phase' = "done" /\ stack = <<>>
      /\ UNCHANGED <<bundleVars, strict, searchVars>>
      /\ cycle = <<>>
      /\ result' \in {"pass", "missing_ref", "digest_mismatch"}
      /\ result' # None
      /\ result' = "pass" /\ strict =>
           manifest.digest # None /\ manifest.digest = Identity(Refs)
  BY NoneIsNoValue DEF CheckManifest, End, ManifestInv, Stages
<1>2. Typed'
  BY <1>1, SameRefs DEF ManifestInv, Typed
<1>3. Sealed'
  <2>1. Identity(Refs)' = Identity(Refs)
    BY <1>1, SameRefs DEF Identity
  <2> QED BY <1>1, <2>1, SameRefs DEF ManifestInv, Sealed
<1>4. SearchTyped' /\ EachOnce' /\ Trail' /\ Seen' /\ RefusedIsACycle'
  BY <1>1, SearchKept
<1>5. Stages'
  BY <1>1 DEF Stages, searchVars
<1>6. Matches'
  BY <1>1, SameRefs DEF ManifestInv, Matches, Unformed
<1> QED BY <1>2, <1>3, <1>4, <1>5, <1>6 DEF ManifestInv

LEMMA CheckOrderStep ==
  ASSUME ManifestInv, CheckOrder
  PROVE  ManifestInv'
<1>1. /\ phase = "order" /\ UNCHANGED <<bundleVars, strict, visited, cycle>>
      /\ result = None
      /\ stack = <<>> /\ todo = <<>> /\ visited = <<>> /\ cycle = <<>>
      /\ DOMAIN Refs = Listed
  BY RefsTyped DEF CheckOrder, ManifestInv, Stages
<1>2. CASE /\ phase' = "done" /\ UNCHANGED <<stack, todo>>
           /\ result' \in {"missing_ref", "artifact_conflict"}
  <2>1. result' # "pass" /\ result' # None
    BY <1>2, NoneIsNoValue
  <2>2. Typed' /\ Sealed'
    BY <1>1, <1>2, <2>1, BundleKept
  <2>3. SearchTyped' /\ EachOnce' /\ Trail' /\ Seen' /\ RefusedIsACycle'
    BY <1>1, <1>2, <2>1, SearchKept DEF searchVars
  <2>4. Stages' /\ Matches'
    BY <1>1, <1>2, <2>1 DEF Stages, Matches, Unformed
  <2> QED BY <2>2, <2>3, <2>4 DEF ManifestInv
<1>3. CASE /\ phase' = "search" /\ UNCHANGED result
           /\ manifest.root \notin Listed /\ UNCHANGED <<stack, todo>>
  <2>1. result' # "pass" /\ result' = None
    BY <1>1, <1>3, NoneIsNoValue
  <2>2. Typed' /\ Sealed'
    BY <1>1, <1>3, <2>1, BundleKept
  <2>3. Stages' /\ Matches'
    BY <1>1, <1>3, <2>1, SameRefs DEF ManifestInv, Stages, Matches, Unformed
  <2>4. SearchTyped' /\ EachOnce' /\ Trail' /\ RefusedIsACycle'
    BY <1>1, <1>3, EmptySeq
       DEF SearchTyped, EachOnce, Trail, RefusedIsACycle
  <2>5. Seen'
    BY <1>1, <1>3, SameRefs DEF Seen
  <2> QED BY <2>2, <2>3, <2>4, <2>5 DEF ManifestInv
<1>4. CASE /\ phase' = "search" /\ UNCHANGED result
           /\ manifest.root \in Listed
           /\ stack' = <<manifest.root>> /\ todo' = <<Deps(manifest.root)>>
  <2> DEFINE r == manifest.root
             deps == Deps(r)
  <2>1. result' # "pass" /\ result' = None
    BY <1>1, <1>4, NoneIsNoValue
  <2>2. Typed' /\ Sealed'
    BY <1>1, <1>4, <2>1, BundleKept
  <2>3. Stages' /\ Matches'
    BY <1>1, <1>4, <2>1, SameRefs DEF ManifestInv, Stages, Matches, Unformed
  <2>4. r \in Listed /\ deps \in Seq(Ids) /\ Len(deps) \in Nat
    BY <1>4, RefsTyped, LenProperties DEF ManifestInv
  <2>5. /\ Refs' = Refs /\ Listed' = Listed /\ manifest' = manifest
        /\ \A id : Deps(id)' = Deps(id)
    BY <1>1, SameRefs
  <2> HIDE DEF r, deps
  <2>6. /\ stack' = <<r>> /\ todo' = <<deps>> /\ visited' = <<>>
        /\ DOMAIN stack' = {1} /\ Len(stack') = 1 /\ stack'[1] = r
        /\ DOMAIN visited' = {} /\ todo'[1] = deps /\ Len(todo') = 1
    BY <1>1, <1>4 DEF r, deps
  <2>7. SearchTyped'
    BY <2>4, <2>5, <2>6, EmptySeq DEF SearchTyped
  <2>8. EachOnce' /\ RefusedIsACycle'
    BY <1>1, <2>6 DEF EachOnce, RefusedIsACycle
  <2>9. Deps(stack[1])' = deps
    BY <2>5, <2>6 DEF Deps, deps
  <2>10. Taken(1)' = 0
    BY <2>4, <2>6, <2>9 DEF Taken
  <2>11. Trail'
    <3>1. \A k \in 1..Len(deps) : deps[k] = deps[0 + k]
      BY <2>4
    <3> QED BY <2>6, <2>9, <2>10, <3>1 DEF Trail
  <2>12. Seen'
    BY <2>5, <2>6, <2>10 DEF Seen, r
  <2> QED BY <2>2, <2>3, <2>7, <2>8, <2>11, <2>12 DEF ManifestInv
<1>5. OrderFailure \subseteq {"missing_ref", "artifact_conflict"}
  BY DEF OrderFailure
<1> QED BY <1>1, <1>2, <1>3, <1>4, <1>5 DEF CheckOrder, End, Deps


-----------------------------------------------------------------------------
(* Steps of the search.                                                    *)

\* What is left of the path's last loop starts with the next dependency.
LEMMA NextTaken ==
  ASSUME ManifestInv, Searching, NEW n, n = Len(todo)
  PROVE  /\ Taken(n) \in Nat
         /\ Taken(n) + 1 \in DOMAIN Deps(stack[n])
         /\ Deps(stack[n])[Taken(n) + 1] = Dependency
         /\ stack[n] \in Listed /\ DOMAIN Refs = Listed
<1>1. /\ n \in Nat \ {0} /\ Len(stack) = n /\ DOMAIN stack = 1..n
      /\ Len(todo[n]) \in Nat \ {0} /\ Dependency = todo[n][1]
  BY LoopedIs DEF ManifestInv
<1>2. n \in DOMAIN stack /\ 1 \in 1..Len(todo[n])
  BY <1>1
<1>3. Taken(n) \in Nat /\ todo[n][1] = Deps(stack[n])[Taken(n) + 1]
  BY <1>2 DEF ManifestInv, Trail
<1>4. stack[n] \in Listed
  BY <1>1, <1>2, ElementOfSeq DEF ManifestInv, SearchTyped
<1>5. Len(Deps(stack[n])) \in Nat
      /\ DOMAIN Deps(stack[n]) = 1..Len(Deps(stack[n]))
  BY <1>4, RefsTyped, LenProperties DEF ManifestInv
<1>6. Taken(n) + 1 \in 1..Len(Deps(stack[n]))
  <2>1. Taken(n) = Len(Deps(stack[n])) - Len(todo[n])
    BY DEF Taken
  <2> QED BY <1>1, <1>3, <1>5, <2>1
<1> QED BY <1>1, <1>3, <1>4, <1>5, <1>6, RefsTyped DEF ManifestInv

\* After a loop has taken a dependency.
LEMMA AfterTaken ==
  ASSUME ManifestInv, Searching, NEW n, n = Len(todo), NEW p \in 1..n
  PROVE  LET taken == Len(Deps(stack[p])) - Len(Looped[p]) IN
         /\ taken = IF p = n THEN Taken(p) + 1 ELSE Taken(p)
         /\ taken \in Nat
         /\ \A k \in 1..Len(Looped[p]) :
              Looped[p][k] = Deps(stack[p])[taken + k]
<1> DEFINE taken == Len(Deps(stack[p])) - Len(Looped[p])
<1>1. /\ n \in Nat \ {0} /\ Len(stack) = n /\ DOMAIN stack = 1..n
      /\ \A q \in 1..(n - 1) : Looped[q] = todo[q]
      /\ Len(todo[n]) \in Nat \ {0}
      /\ Len(Looped[n]) = Len(todo[n]) - 1
      /\ \A k \in 1..Len(Looped[n]) : Looped[n][k] = todo[n][k + 1]
  BY LoopedIs DEF ManifestInv
<1>2. /\ Taken(p) \in Nat
      /\ \A k \in 1..Len(todo[p]) : todo[p][k] = Deps(stack[p])[Taken(p) + k]
      /\ Taken(p) = Len(Deps(stack[p])) - Len(todo[p])
  BY <1>1 DEF ManifestInv, Trail, Taken
<1>3. CASE p = n
  <2>1. stack[n] \in Listed
    BY NextTaken
  <2>2. Len(Deps(stack[n])) \in Nat
    BY <2>1, RefsTyped, LenProperties DEF ManifestInv
  <2>3. taken = Taken(p) + 1 /\ taken \in Nat
    <3>1. \A a \in Nat, b \in Nat \ {0} : a - (b - 1) = (a - b) + 1
      OBVIOUS
    <3>2. Len(Deps(stack[n])) - Len(Looped[n]) = Taken(n) + 1
      BY <1>1, <1>2, <1>3, <2>2, <3>1, Zenon
    <3>3. Taken(n) + 1 \in Nat
      BY <1>2, <1>3
    <3> QED BY <1>3, <3>2, <3>3, Zenon
  <2>4. \A k \in 1..Len(Looped[n]) :
          Looped[n][k] = Deps(stack[n])[(Taken(n) + 1) + k]
    <3> TAKE k \in 1..Len(Looped[n])
    <3>1. k + 1 \in 1..Len(todo[n])
      BY <1>1
    <3>2. Looped[n][k] = Deps(stack[n])[Taken(n) + (k + 1)]
      BY <1>1, <1>2, <1>3, <3>1
    <3>3. Taken(n) + (k + 1) = (Taken(n) + 1) + k
      BY <1>1, <1>2, <1>3
    <3> QED BY <3>2, <3>3
  <2> QED BY <1>3, <2>3, <2>4
<1>4. CASE p # n
  <2>1. p \in 1..(n - 1)
    BY <1>1, <1>4
  <2>2. Looped[p] = todo[p] /\ taken = Taken(p)
    BY <1>1, <1>2, <2>1
  <2> QED BY <1>2, <1>4, <2>2
<1> QED BY <1>3, <1>4


LEMMA SkipStep ==
  ASSUME ManifestInv, Skip
  PROVE  ManifestInv'
<1> SUFFICES ASSUME NEW n, n = Len(todo) PROVE ManifestInv'
  OBVIOUS
<1>1. /\ Searching /\ todo' = Looped
      /\ UNCHANGED <<bundleVars, strict, phase, result, stack, visited, cycle>>
      /\ phase = "search" /\ result = None /\ cycle = <<>>
      /\ result' # "pass"
  BY NoneIsNoValue DEF Skip, Searching, ManifestInv, Stages
<1>2. /\ n \in Nat \ {0} /\ Len(stack) = n /\ DOMAIN stack = 1..n
      /\ Looped \in Seq(Seq(Ids)) /\ Len(Looped) = n
  BY <1>1, LoopedIs DEF ManifestInv
<1>3. /\ Refs' = Refs /\ Listed' = Listed /\ manifest' = manifest
      /\ \A id : Deps(id)' = Deps(id)
  BY <1>1, SameRefs
<1>4. Typed' /\ Sealed'
  BY <1>1, BundleKept
<1>5. SearchTyped' /\ Stages' /\ EachOnce' /\ Matches' /\ RefusedIsACycle'
  BY <1>1, <1>2, <1>3, SameRefs
     DEF ManifestInv, SearchTyped, Stages, EachOnce, Matches, Unformed, RefusedIsACycle
<1>6. \A p \in 1..n :
        /\ Deps(stack[p])' = Deps(stack[p])
        /\ Taken(p)' = IF p = n THEN Taken(p) + 1 ELSE Taken(p)
        /\ Taken(p)' \in Nat
        /\ \A k \in 1..Len(todo'[p]) :
             todo'[p][k] = Deps(stack[p])[Taken(p)' + k]
  <2> TAKE p \in 1..n
  <2>1. Deps(stack[p])' = Deps(stack[p])
    BY <1>1, <1>3 DEF Deps
  <2>2. Taken(p)' = Len(Deps(stack[p])) - Len(Looped[p])
    BY <1>1, <2>1 DEF Taken
  <2> QED BY <1>1, <2>1, <2>2, AfterTaken
<1>7. \A p \in 1..n : p < n => Taken(p)' = Taken(p)
  <2> TAKE p \in 1..n
  <2>1. p < n => p # n
    BY <1>2
  <2> QED BY <1>6, <2>1, Zenon
<1>8. Trail'
  <2> SUFFICES ASSUME NEW p \in 1..n
               PROVE  /\ Taken(p)' \in Nat
                      /\ \A k \in 1..Len(todo'[p]) :
                           todo'[p][k] = Deps(stack[p])'[Taken(p)' + k]
                      /\ p < n => /\ Taken(p)' > 0
                                  /\ Deps(stack[p])'[Taken(p)'] = stack[p + 1]
    BY <1>1, <1>2 DEF Trail
  <2>1. p < n => Taken(p) > 0 /\ Deps(stack[p])[Taken(p)] = stack[p + 1]
    BY <1>2 DEF ManifestInv, Trail
  <2> QED BY <1>6, <1>7, <2>1
<1>9. ASSUME manifest.admissions = {}
      PROVE  Dependency \in Listed => IsVisited(Dependency)
  <2>1. ~ Admitted(CycleOf(Dependency))
    BY <1>9 DEF Admitted
  <2>2. DOMAIN Refs = Listed
    BY RefsTyped DEF ManifestInv
  <2> QED BY <2>1, <2>2 DEF Skip
<1>10. ASSUME manifest.admissions = {}, NEW p \in 1..n, NEW k \in 1..Taken(p)',
              Deps(stack[p])[k] \in Listed
       PROVE  IsVisited(Deps(stack[p])[k]) \/ (p < n /\ k = Taken(p)')
  <2>1. CASE p = n /\ k = Taken(p) + 1
    <3>1. Deps(stack[n])[Taken(n) + 1] = Dependency
      BY <1>1, NextTaken
    <3> QED BY <1>9, <1>10, <2>1, <3>1
  <2>2. CASE ~ (p = n /\ k = Taken(p) + 1)
    <3>1. Taken(p) \in Nat
      BY <1>2 DEF ManifestInv, Trail
    <3>2. k \in 1..Taken(p)
      BY <1>6, <2>2, <3>1
    <3>3. IsVisited(Deps(stack[p])[k]) \/ (p < n /\ k = Taken(p))
      BY <1>2, <1>10, <3>2 DEF ManifestInv, Seen
    <3> QED BY <1>7, <3>3
  <2> QED BY <2>1, <2>2
<1>11. Seen'
  <2>1. \A id : IsVisited(id)' = IsVisited(id)
    BY <1>1 DEF IsVisited
  <2>2. \A i \in DOMAIN visited : Deps(visited[i])' = Deps(visited[i])
    BY <1>1, <1>3 DEF Deps
  <2>3. manifest.admissions = {} =>
          \A p \in DOMAIN stack' : \A k \in 1..Taken(p)' :
            Deps(stack[p])'[k] \in Listed =>
              \/ \E j \in DOMAIN visited : visited[j] = Deps(stack[p])'[k]
              \/ p < n /\ k = Taken(p)'
    <3> SUFFICES ASSUME manifest.admissions = {}, NEW p \in 1..n,
                        NEW k \in 1..Taken(p)', Deps(stack[p])[k] \in Listed
                 PROVE  \/ \E j \in DOMAIN visited :
                              visited[j] = Deps(stack[p])[k]
                        \/ p < n /\ k = Taken(p)'
      <4>1. \A p \in 1..n : Deps(stack[p])' = Deps(stack[p])
        BY <1>6
      <4>2. DOMAIN stack' = 1..n
        BY <1>1, <1>2
      <4> QED BY <4>1, <4>2
    <3> QED BY <1>10 DEF IsVisited
  <2> QED BY <1>1, <1>2, <1>3, <2>2, <2>3 DEF ManifestInv, Seen, IsVisited
<1> QED BY <1>4, <1>5, <1>8, <1>11 DEF ManifestInv


LEMMA EnterStep ==
  ASSUME ManifestInv, Enter
  PROVE  ManifestInv'
<1> SUFFICES ASSUME NEW n, n = Len(todo) PROVE ManifestInv'
  OBVIOUS
<1>1. /\ Searching
      /\ stack' = Append(stack, Dependency)
      /\ todo' = Append(Looped, Deps(Dependency))
      /\ UNCHANGED <<bundleVars, strict, phase, result, visited, cycle>>
      /\ phase = "search" /\ result = None /\ cycle = <<>>
      /\ result' # "pass"
      /\ Dependency \in Listed
      /\ ~ OnPath(Dependency) /\ ~ IsVisited(Dependency)
  BY NoneIsNoValue, RefsTyped
     DEF Enter, Searching, ManifestInv, Stages, Deps
<1>2. /\ n \in Nat \ {0} /\ Len(stack) = n /\ DOMAIN stack = 1..n
      /\ Looped \in Seq(Seq(Ids)) /\ Len(Looped) = n
  BY <1>1, LoopedIs DEF ManifestInv
<1>3. /\ Refs' = Refs /\ Listed' = Listed /\ manifest' = manifest
      /\ \A id : Deps(id)' = Deps(id)
  BY <1>1, SameRefs
<1>4. Deps(Dependency) \in Seq(Ids) /\ Len(Deps(Dependency)) \in Nat
  BY <1>1, RefsTyped, LenProperties DEF ManifestInv
<1>5. /\ stack' \in Seq(Listed) /\ Len(stack') = n + 1
      /\ DOMAIN stack' = 1..(n + 1) /\ stack'[n + 1] = Dependency
      /\ \A p \in 1..n : stack'[p] = stack[p]
  <2>1. stack \in Seq(Listed)
    BY DEF ManifestInv, SearchTyped
  <2> QED BY <1>1, <1>2, <2>1, AppendProperties, LenProperties
<1>6. /\ todo' \in Seq(Seq(Ids)) /\ Len(todo') = n + 1
      /\ todo'[n + 1] = Deps(Dependency)
      /\ \A p \in 1..n : todo'[p] = Looped[p]
  BY <1>1, <1>2, <1>4, AppendProperties
<1>7. Typed' /\ Sealed'
  BY <1>1, BundleKept
<1>8. SearchTyped' /\ Stages' /\ Matches' /\ RefusedIsACycle'
  <2>1. SearchTyped'
    BY <1>1, <1>3, <1>5, <1>6 DEF ManifestInv, SearchTyped
  <2>2. Stages' /\ RefusedIsACycle'
    BY <1>1, NoneIsNoValue DEF Stages, RefusedIsACycle
  <2>3. Matches'
    BY <1>1, SameRefs DEF ManifestInv, Matches, Unformed
  <2> QED BY <2>1, <2>2, <2>3
<1>9. \A p \in 1..(n + 1) : p \in 1..n \/ p = n + 1
  BY <1>2
<1>10. EachOnce'
  <2>1. /\ \A p \in 1..n : stack[p] # Dependency
        /\ \A j \in DOMAIN visited : visited[j] # Dependency
    BY <1>1, <1>2 DEF OnPath, IsVisited
  <2>2. \A i, j \in 1..(n + 1) : stack'[i] = stack'[j] => i = j
    <3> TAKE i, j \in 1..(n + 1)
    <3>1. i \in 1..n /\ j \in 1..n /\ stack[i] = stack[j] => i = j
      BY <1>2 DEF ManifestInv, EachOnce
    <3> QED BY <1>5, <1>9, <2>1, <3>1
  <2>3. \A i \in 1..(n + 1), j \in DOMAIN visited : stack'[i] # visited[j]
    <3> TAKE i \in 1..(n + 1), j \in DOMAIN visited
    <3>1. i \in 1..n => stack[i] # visited[j]
      BY <1>2 DEF ManifestInv, EachOnce
    <3> QED BY <1>5, <1>9, <2>1, <3>1
  <2> QED BY <1>1, <1>5, <2>2, <2>3 DEF ManifestInv, EachOnce
<1>11. \A p \in 1..n :
         /\ Deps(stack[p])' = Deps(stack[p])
         /\ Taken(p)' = IF p = n THEN Taken(p) + 1 ELSE Taken(p)
         /\ Taken(p)' \in Nat
         /\ \A k \in 1..Len(todo'[p]) :
              todo'[p][k] = Deps(stack[p])[Taken(p)' + k]
  <2> TAKE p \in 1..n
  <2>1. Deps(stack[p])' = Deps(stack[p])
    BY <1>3, <1>5 DEF Deps
  <2>2. Taken(p)' = Len(Deps(stack[p])) - Len(Looped[p])
    BY <1>6, <2>1 DEF Taken
  <2>3. /\ Taken(p)' = IF p = n THEN Taken(p) + 1 ELSE Taken(p)
        /\ Taken(p)' \in Nat
        /\ \A k \in 1..Len(Looped[p]) :
             Looped[p][k] = Deps(stack[p])[Taken(p)' + k]
    BY <1>1, <2>2, AfterTaken
  <2>4. todo'[p] = Looped[p]
    BY <1>6
  <2> QED BY <2>1, <2>3, <2>4, Zenon
<1>12. \A p \in 1..n : p < n => p # n
  BY <1>2
<1>13. /\ Deps(stack[n + 1])' = Deps(Dependency)
       /\ Taken(n + 1)' = 0
  <2>1. Deps(stack[n + 1])' = Deps(Dependency)
    BY <1>3, <1>5 DEF Deps
  <2> QED BY <1>4, <1>6, <2>1 DEF Taken
<1>14. Trail'
  <2> SUFFICES ASSUME NEW p \in 1..(n + 1)
               PROVE  /\ Taken(p)' \in Nat
                      /\ \A k \in 1..Len(todo'[p]) :
                           todo'[p][k] = Deps(stack[p])'[Taken(p)' + k]
                      /\ p < n + 1 =>
                           /\ Taken(p)' > 0
                           /\ Deps(stack[p])'[Taken(p)'] = stack'[p + 1]
    BY <1>5 DEF Trail
  <2>1. CASE p = n + 1
    <3>1. \A k \in 1..Len(Deps(Dependency)) :
            Deps(Dependency)[k] = Deps(Dependency)[0 + k]
      BY <1>4
    <3> QED BY <1>2, <1>6, <1>13, <2>1, <3>1
  <2>2. CASE p = n
    <3>1. /\ Taken(n) \in Nat
          /\ Deps(stack[n])[Taken(n) + 1] = Dependency
      BY <1>1, NextTaken
    <3>2. Taken(n)' = Taken(n) + 1 /\ Taken(n)' > 0
      BY <1>2, <1>11, <3>1
    <3> QED BY <1>2, <1>5, <1>11, <2>2, <3>1, <3>2
  <2>3. CASE p \in 1..(n - 1)
    <3>1. /\ p \in 1..n /\ p + 1 \in 1..n /\ p < n /\ p # n
      BY <1>2, <2>3
    <3>2. Taken(p)' = Taken(p) /\ stack'[p + 1] = stack[p + 1]
      BY <1>5, <1>11, <3>1, Zenon
    <3>3. Taken(p) > 0 /\ Deps(stack[p])[Taken(p)] = stack[p + 1]
      BY <1>2, <3>1 DEF ManifestInv, Trail
    <3> QED BY <1>11, <3>1, <3>2, <3>3
  <2> QED BY <1>2, <2>1, <2>2, <2>3
<1>15. ASSUME manifest.admissions = {}, NEW p \in 1..(n + 1),
              NEW k \in 1..Taken(p)', Deps(stack[p])'[k] \in Listed
       PROVE  \/ \E j \in DOMAIN visited : visited[j] = Deps(stack[p])'[k]
              \/ p < n + 1 /\ k = Taken(p)'
  <2>1. CASE p = n + 1
    BY <1>13, <2>1
  <2>2. CASE p = n
    <3>1. Taken(n) \in Nat /\ Taken(n)' = Taken(n) + 1
      BY <1>1, <1>2, <1>11, NextTaken
    <3>2. CASE k = Taken(n)'
      BY <1>2, <2>2, <3>2
    <3>3. CASE k # Taken(n)'
      <4>1. k \in 1..Taken(n) /\ n \in DOMAIN stack /\ ~ (n < n)
        BY <1>2, <2>2, <3>1, <3>3
      <4>2. Deps(stack[n])[k] \in Listed
        BY <1>11, <1>15, <2>2
      <4>3. IsVisited(Deps(stack[n])[k])
        BY <1>2, <1>15, <4>1, <4>2 DEF ManifestInv, Seen
      <4> QED BY <1>11, <2>2, <4>3 DEF IsVisited
    <3> QED BY <3>2, <3>3
  <2>3. CASE p \in 1..(n - 1)
    <3>1. p \in 1..n /\ p # n /\ p < n + 1
      BY <1>2, <2>3
    <3>2. Taken(p)' = Taken(p) /\ Deps(stack[p])' = Deps(stack[p])
      BY <1>11, <3>1, Zenon
    <3>3. IsVisited(Deps(stack[p])[k]) \/ k = Taken(p)
      BY <1>2, <1>15, <3>1, <3>2 DEF ManifestInv, Seen
    <3> QED BY <3>1, <3>2, <3>3 DEF IsVisited
  <2> QED BY <1>2, <2>1, <2>2, <2>3
<1>16. Seen'
  <2>1. \A i \in DOMAIN visited : Deps(visited[i])' = Deps(visited[i])
    BY <1>1, <1>3 DEF Deps
  <2>2. stack' # <<>> /\ (stack # <<>> => stack'[1] = stack[1])
    BY <1>2, <1>5
  <2> QED BY <1>1, <1>3, <1>5, <1>15, <2>1, <2>2
          DEF ManifestInv, Seen, IsVisited
<1> QED BY <1>7, <1>8, <1>10, <1>14, <1>16 DEF ManifestInv


LEMMA RefuseStep ==
  ASSUME ManifestInv, Refuse
  PROVE  ManifestInv'
<1> SUFFICES ASSUME NEW n, n = Len(todo) PROVE ManifestInv'
  OBVIOUS
<1>1. /\ Searching
      /\ UNCHANGED <<bundleVars, strict, stack, todo, visited>>
      /\ phase' = "done" /\ result' = "artifact_conflict"
      /\ cycle' = CycleOf(Dependency)
      /\ Dependency \in Listed
      /\ OnPath(Dependency) /\ ~ Admitted(CycleOf(Dependency))
      /\ result' # None /\ result' # "pass"
  BY NoneIsNoValue, RefsTyped DEF Refuse, End, ManifestInv
<1>2. /\ n \in Nat \ {0} /\ Len(stack) = n /\ DOMAIN stack = 1..n
      /\ \A i \in 1..n : stack[i] \in Listed
  BY <1>1, LoopedIs, ElementOfSeq DEF ManifestInv, SearchTyped
<1>3. /\ Refs' = Refs /\ Listed' = Listed /\ manifest' = manifest
      /\ \A id : Deps(id)' = Deps(id)
  BY <1>1, SameRefs
<1>4. Typed' /\ Sealed'
  BY <1>1, BundleKept
<1>5. SearchTyped' /\ Stages' /\ EachOnce' /\ Matches'
  BY <1>1, <1>3 DEF ManifestInv, SearchTyped, Stages, EachOnce, Matches, Unformed
<1>6. Trail' /\ Seen'
  BY <1>1, <1>3 DEF ManifestInv, Trail, Seen, Taken, Deps, IsVisited
<1>7. RefusedIsACycle'
  <2> DEFINE d == Dependency
             path(m) == SubSeq(stack, m, n)
  <2>1. PICK m \in 1..n : m = CHOOSE i \in DOMAIN stack : stack[i] = d
    BY <1>1, <1>2 DEF OnPath
  <2>2. stack[m] = d
    BY <1>1, <1>2, <2>1 DEF OnPath
  <2>3. cycle' = Append(path(m), d)
    BY <1>1, <1>2, <2>1 DEF CycleOf
  <2> DEFINE l == n - m + 1
  <2>4. /\ m \in Int /\ n \in Int /\ m <= n /\ l \in Nat \ {0}
        /\ \A i \in m..n : stack[i] \in Listed
    BY <1>2
  <2> HIDE DEF l, d
  <2>5. /\ path(m) \in Seq(Listed) /\ Len(path(m)) = l
        /\ \A i \in 1..l : path(m)[i] = stack[m + i - 1]
    BY <2>4, SubSeqProperties DEF l
  <2> HIDE DEF path
  <2>6. /\ Len(cycle') = l + 1 /\ cycle'[l + 1] = d
        /\ \A i \in 1..l : cycle'[i] = stack[m + i - 1]
    <3>1. d \in Listed
      BY <1>1 DEF d
    <3> QED BY <2>3, <2>5, <3>1, AppendProperties
  <2>7. Len(cycle') > 1 /\ cycle'[1] = Top(cycle')
    BY <1>2, <2>2, <2>4, <2>6 DEF Top
  <2>8. ASSUME NEW i \in 1..l
        PROVE  \E k \in DOMAIN Deps(cycle'[i]) : Deps(cycle'[i])[k] = cycle'[i + 1]
    <3>1. CASE i = l
      <4>1. cycle'[i] = stack[n] /\ cycle'[i + 1] = d
        BY <1>2, <2>4, <2>6, <3>1 DEF l
      <4> QED BY <1>1, <4>1, NextTaken DEF d
    <3>2. CASE i # l
      <4> DEFINE p == m + i - 1
      <4>1. p \in 1..n /\ p < n /\ i + 1 \in 1..l /\ m + (i + 1) - 1 = p + 1
        BY <1>2, <2>4, <2>8, <3>2 DEF l
      <4> HIDE DEF p
      <4>2. cycle'[i] = stack[p] /\ cycle'[i + 1] = stack[p + 1]
        BY <2>6, <4>1 DEF p
      <4>3. /\ Taken(p) \in Nat /\ Taken(p) > 0
            /\ Deps(stack[p])[Taken(p)] = stack[p + 1]
        BY <1>2, <4>1 DEF ManifestInv, Trail
      <4>4. Taken(p) \in DOMAIN Deps(stack[p])
        <5>1. stack[p] \in Listed /\ p \in 1..Len(todo)
          BY <1>2, <4>1
        <5>2. /\ Len(Deps(stack[p])) \in Nat
              /\ DOMAIN Deps(stack[p]) = 1..Len(Deps(stack[p]))
          BY <5>1, RefsTyped, LenProperties DEF ManifestInv
        <5>3. Len(todo[p]) \in Nat
          BY <5>1, ElementOfSeq, LenProperties DEF ManifestInv, SearchTyped
        <5>4. Taken(p) <= Len(Deps(stack[p]))
          <6>1. \A a, b \in Nat : a - b <= a
            OBVIOUS
          <6> QED BY <5>2, <5>3, <6>1, Zenon DEF Taken
        <5> QED BY <4>3, <5>2, <5>4
      <4> QED BY <4>2, <4>3, <4>4
    <3> QED BY <3>1, <3>2
  <2>9. Len(cycle') - 1 = l
    BY <2>4, <2>6
  <2>10. \A i \in 1..(Len(cycle') - 1) :
           \E k \in DOMAIN Refs'[cycle'[i]].deps :
             Refs'[cycle'[i]].deps[k] = cycle'[i + 1]
    BY <1>3, <2>8, <2>9 DEF Deps
  <2>11. ~ Admitted(cycle)'
    BY <1>1, <1>3 DEF Admitted
  <2> QED BY <1>1, <2>7, <2>10, <2>11 DEF RefusedIsACycle, Top
<1> QED BY <1>4, <1>5, <1>6, <1>7 DEF ManifestInv


LEMMA LeaveStep ==
  ASSUME ManifestInv, Leave
  PROVE  ManifestInv'
<1> SUFFICES ASSUME NEW n, n = Len(stack), NEW top, top = Top(stack)
             PROVE  ManifestInv'
  OBVIOUS
<1>1. /\ stack # <<>> /\ Top(todo) = <<>>
      /\ visited' = Append(visited, top)
      /\ stack' = Below(stack) /\ todo' = Below(todo)
      /\ UNCHANGED <<bundleVars, strict, phase, result, cycle>>
      /\ phase = "search" /\ result = None /\ cycle = <<>>
      /\ result' # "pass"
  BY NoneIsNoValue DEF Leave, ManifestInv, Stages
<1>2. /\ stack \in Seq(Listed) /\ visited \in Seq(Listed)
      /\ todo \in Seq(Seq(Ids)) /\ Len(todo) = n
  BY DEF ManifestInv, SearchTyped
<1>3. /\ n \in Nat \ {0} /\ DOMAIN stack = 1..n /\ top \in Listed
      /\ stack' \in Seq(Listed) /\ Len(stack') = n - 1
      /\ DOMAIN stack' = 1..(n - 1)
      /\ \A p \in 1..(n - 1) : stack'[p] = stack[p]
  <2>1. /\ Below(stack) \in Seq(Listed)
        /\ Len(Below(stack)) = Len(stack) - 1
        /\ Len(stack) \in Nat \ {0} /\ Top(stack) \in Listed
        /\ DOMAIN stack = 1..Len(stack)
        /\ DOMAIN Below(stack) = 1..(Len(stack) - 1)
        /\ \A p \in 1..(Len(stack) - 1) : Below(stack)[p] = stack[p]
    BY <1>1, <1>2, BelowIs, Zenon
  <2> QED BY <1>1, <2>1
<1>4. /\ todo' \in Seq(Seq(Ids)) /\ Len(todo') = n - 1
      /\ \A p \in 1..(n - 1) : todo'[p] = todo[p]
      /\ todo[n] = <<>>
  <2>1. todo # <<>>
    BY <1>2, <1>3, EmptySeq
  <2> QED BY <1>1, <1>2, <2>1, BelowIs DEF Top
<1>5. stack[n] = top /\ n \in 1..n
  BY <1>3 DEF Top
<1> DEFINE m == Len(visited)
<1>6. /\ m \in Nat /\ DOMAIN visited = 1..m
      /\ visited' \in Seq(Listed) /\ DOMAIN visited' = 1..(m + 1)
      /\ visited'[m + 1] = top
      /\ \A i \in 1..m : visited'[i] = visited[i]
  BY <1>1, <1>2, <1>3, AppendProperties, LenProperties
<1> HIDE DEF m
<1>7. /\ Refs' = Refs /\ Listed' = Listed /\ manifest' = manifest
      /\ \A id : Deps(id)' = Deps(id)
  BY <1>1, SameRefs
<1>8. Typed' /\ Sealed'
  BY <1>1, BundleKept
<1>9. SearchTyped' /\ Stages' /\ Matches' /\ RefusedIsACycle'
  <2>1. SearchTyped'
    BY <1>3, <1>4, <1>6, <1>7 DEF SearchTyped
  <2>2. Stages' /\ RefusedIsACycle'
    BY <1>1, NoneIsNoValue DEF Stages, RefusedIsACycle
  <2>3. Matches'
    BY <1>1, SameRefs DEF ManifestInv, Matches, Unformed
  <2> QED BY <2>1, <2>2, <2>3
<1>10. \A p \in 1..(n - 1) : p \in 1..n /\ p # n /\ p < n /\ p + 1 \in 1..n
  BY <1>3
<1>11. \A i \in 1..(m + 1) : i \in 1..m \/ i = m + 1
  BY <1>6
<1>12. EachOnce'
  <2>1. \A j \in 1..m : visited[j] # top
    BY <1>3, <1>5, <1>6 DEF ManifestInv, EachOnce
  <2>2. \A i \in 1..(n - 1) : stack[i] # top
    BY <1>3, <1>5, <1>10 DEF ManifestInv, EachOnce
  <2>3. \A i, j \in 1..(n - 1) : stack'[i] = stack'[j] => i = j
    BY <1>3, <1>10 DEF ManifestInv, EachOnce
  <2>4. \A i, j \in 1..(m + 1) : visited'[i] = visited'[j] => i = j
    <3> TAKE i, j \in 1..(m + 1)
    <3>1. i \in 1..m /\ j \in 1..m /\ visited[i] = visited[j] => i = j
      BY <1>6 DEF ManifestInv, EachOnce
    <3> QED BY <1>6, <1>11, <2>1, <3>1
  <2>5. \A i \in 1..(n - 1), j \in 1..(m + 1) : stack'[i] # visited'[j]
    <3> TAKE i \in 1..(n - 1), j \in 1..(m + 1)
    <3>1. j \in 1..m => stack[i] # visited[j]
      BY <1>3, <1>6, <1>10 DEF ManifestInv, EachOnce
    <3> QED BY <1>3, <1>6, <1>11, <2>2, <3>1
  <2> QED BY <1>3, <1>6, <2>3, <2>4, <2>5 DEF EachOnce
<1>13. \A p \in 1..(n - 1) :
         Deps(stack[p])' = Deps(stack[p]) /\ Taken(p)' = Taken(p)
  BY <1>3, <1>4, <1>7 DEF Deps, Taken
<1>14. Trail'
  <2> SUFFICES ASSUME NEW p \in 1..(n - 1)
               PROVE  /\ Taken(p)' \in Nat
                      /\ \A k \in 1..Len(todo'[p]) :
                           todo'[p][k] = Deps(stack[p])'[Taken(p)' + k]
                      /\ p < n - 1 =>
                           /\ Taken(p)' > 0
                           /\ Deps(stack[p])'[Taken(p)'] = stack'[p + 1]
    BY <1>3 DEF Trail
  <2>1. /\ Taken(p) \in Nat
        /\ \A k \in 1..Len(todo[p]) :
             todo[p][k] = Deps(stack[p])[Taken(p) + k]
        /\ Taken(p) > 0 /\ Deps(stack[p])[Taken(p)] = stack[p + 1]
    BY <1>3, <1>10 DEF ManifestInv, Trail
  <2>2. p < n - 1 => stack'[p + 1] = stack[p + 1]
    BY <1>3
  <2> QED BY <1>4, <1>13, <2>1, <2>2
<1>15. ASSUME NEW id
       PROVE  /\ IsVisited(id) => IsVisited(id)'
              /\ IsVisited(top)'
  <2>1. m + 1 \in 1..(m + 1) /\ \A i \in 1..m : i \in 1..(m + 1)
    BY <1>6
  <2> QED BY <1>6, <2>1 DEF IsVisited
<1>16. ASSUME manifest.admissions = {}, NEW p \in 1..(n - 1),
              NEW k \in 1..Taken(p), Deps(stack[p])[k] \in Listed
       PROVE  \/ \E j \in DOMAIN visited' : visited'[j] = Deps(stack[p])[k]
              \/ p < n - 1 /\ k = Taken(p)
  <2>1. CASE IsVisited(Deps(stack[p])[k])
    BY <1>15, <2>1 DEF IsVisited
  <2>2. CASE k = Taken(p) /\ p = n - 1
    <3>1. Deps(stack[p])[Taken(p)] = stack[p + 1]
      BY <1>3, <1>10 DEF ManifestInv, Trail
    <3>2. Deps(stack[p])[k] = top
      BY <1>3, <1>5, <2>2, <3>1
    <3> QED BY <1>15, <3>2 DEF IsVisited
  <2>3. CASE k = Taken(p) /\ p # n - 1
    BY <1>3, <2>3
  <2>4. IsVisited(Deps(stack[p])[k]) \/ k = Taken(p)
    BY <1>3, <1>10, <1>16 DEF ManifestInv, Seen
  <2> QED BY <2>1, <2>2, <2>3, <2>4
<1>17. ASSUME manifest.admissions = {}, NEW k \in DOMAIN Deps(top),
              Deps(top)[k] \in Listed
       PROVE  \E j \in 1..m : visited[j] = Deps(top)[k]
  <2>1. Len(Deps(top)) \in Nat /\ DOMAIN Deps(top) = 1..Len(Deps(top))
    BY <1>3, RefsTyped, LenProperties DEF ManifestInv
  <2>2. Taken(n) = Len(Deps(top))
    BY <1>4, <1>5, <2>1 DEF Taken
  <2>3. n \in DOMAIN stack /\ ~ (n < n) /\ k \in 1..Taken(n)
    BY <1>3, <1>17, <2>1, <2>2
  <2>4. IsVisited(Deps(top)[k])
    BY <1>3, <1>5, <1>17, <2>3 DEF ManifestInv, Seen
  <2> QED BY <1>6, <2>4 DEF IsVisited
<1>18. ASSUME manifest.admissions = {}, NEW i \in 1..(m + 1),
              NEW k \in DOMAIN Deps(visited'[i]), Deps(visited'[i])[k] \in Listed
       PROVE  \E j \in 1..(i - 1) : visited'[j] = Deps(visited'[i])[k]
  <2>1. CASE i = m + 1
    <3>1. i - 1 = m
      BY <1>6, <2>1
    <3> QED BY <1>6, <1>17, <1>18, <2>1, <3>1
  <2>2. CASE i \in 1..m
    <3>1. \E j \in 1..(i - 1) : visited[j] = Deps(visited[i])[k]
      BY <1>6, <1>18, <2>2 DEF ManifestInv, Seen
    <3>2. \A j \in 1..(i - 1) : j \in 1..m
      BY <1>6, <2>2
    <3> QED BY <1>6, <2>2, <3>1, <3>2
  <2> QED BY <1>11, <2>1, <2>2
<1>19. ASSUME manifest.admissions = {}, manifest.root \in Listed
       PROVE  IsVisited(manifest.root)'
              \/ (stack' # <<>> /\ stack'[1] = manifest.root)
  <2>1. IsVisited(manifest.root) \/ stack[1] = manifest.root
    BY <1>1, <1>19 DEF ManifestInv, Seen
  <2>2. CASE n = 1
    BY <1>5, <1>7, <1>15, <2>1, <2>2 DEF IsVisited
  <2>3. CASE n # 1
    <3>1. 1 \in 1..(n - 1)
      BY <1>3, <2>3
    <3>2. stack' # <<>> /\ stack'[1] = stack[1]
      BY <1>3, <3>1
    <3> QED BY <1>7, <1>15, <2>1, <3>2 DEF IsVisited
  <2> QED BY <2>2, <2>3
<1>20. Seen'
  <2>1. \A i \in 1..(m + 1) : Deps(visited[i])' = Deps(visited'[i])
    BY <1>7 DEF Deps
  <2> SUFFICES ASSUME manifest.admissions = {}
               PROVE
        /\ \A p \in 1..(n - 1) : \A k \in 1..Taken(p)' :
             Deps(stack[p])'[k] \in Listed =>
               IsVisited(Deps(stack[p])[k])' \/ (p < n - 1 /\ k = Taken(p)')
        /\ \A i \in 1..(m + 1) : \A k \in DOMAIN Deps(visited[i])' :
             Deps(visited[i])'[k] \in Listed =>
               \E j \in 1..(i - 1) : visited'[j] = Deps(visited[i])'[k]
        /\ \/ manifest.root \notin Listed
           \/ IsVisited(manifest.root)'
           \/ stack' # <<>> /\ stack'[1] = manifest.root
    BY <1>3, <1>6, <1>7 DEF Seen
  <2>2. ASSUME NEW p \in 1..(n - 1), NEW k \in 1..Taken(p)',
               Deps(stack[p])'[k] \in Listed
        PROVE  IsVisited(Deps(stack[p])[k])' \/ (p < n - 1 /\ k = Taken(p)')
    <3>1. k \in 1..Taken(p) /\ Deps(stack[p])[k] \in Listed
      BY <1>13, <2>2
    <3> QED BY <1>13, <1>16, <3>1 DEF IsVisited
  <2>3. ASSUME NEW i \in 1..(m + 1), NEW k \in DOMAIN Deps(visited[i])',
               Deps(visited[i])'[k] \in Listed
        PROVE  \E j \in 1..(i - 1) : visited'[j] = Deps(visited[i])'[k]
    BY <1>18, <2>1, <2>3
  <2> QED BY <1>19, <2>2, <2>3
<1> QED BY <1>8, <1>9, <1>12, <1>14, <1>20 DEF ManifestInv


-----------------------------------------------------------------------------
(* The invariant is inductive.                                             *)

LEMMA ManifestInit == Init => ManifestInv
<1> SUFFICES ASSUME Init PROVE ManifestInv
  OBVIOUS
<1>1. PICK c \in Contents \ {Null} : content = [id \in Ids |-> c]
  BY DEF Init
<1>2. PICK deps \in Dependencies :
        ref = [id \in Ids |-> [digest |-> content[id], deps |-> deps[id]]]
  BY DEF Init
<1>3. PICK m \in Manifests :
        manifest = [root |-> m.root, listing |-> m.listing,
                    listed |-> m.listed, order |-> m.order,
                    admissions |-> m.admissions, digest |-> None,
                    records |->
                      [id \in IF m.listed = {} THEN Ids ELSE m.listed |-> ref[id]]]
  BY DEF Init
<1>4. /\ stack = <<>> /\ todo = <<>> /\ visited = <<>> /\ cycle = <<>>
      /\ strict = FALSE /\ phase = "open" /\ result = None
      /\ result # "pass"
  BY NoneIsNoValue DEF Init
<1>5. content \in [Ids -> Contents]
  BY <1>1
<1>6. ref \in [Ids -> Ref]
  <2>1. \A id \in Ids : content[id] \in Contents /\ deps[id] \in Seq(Ids)
    BY <1>5, BundleAssumption
  <2>2. \A id \in Ids : [digest |-> content[id], deps |-> deps[id]] \in Ref
    BY <2>1 DEF Ref
  <2> QED BY <1>2, <2>2
<1>7. /\ m.root \in Ids /\ m.listing \in {"ids", "records"}
      /\ m.listed \subseteq Ids /\ m.order \in Seq(Ids)
      /\ m.admissions \in SUBSET SUBSET Ids
  BY BundleAssumption
<1>8. Listed = IF m.listed = {} THEN Ids ELSE m.listed
  BY <1>3 DEF Listed
<1>9. Listed \subseteq Ids /\ manifest.records \in [Listed -> Ref]
  BY <1>3, <1>6, <1>7, <1>8
<1>10. manifest.records \in UNION {[L -> Ref] : L \in SUBSET Ids}
  BY <1>9
<1>11. Typed
  <2> DEFINE R == UNION {[L -> Ref] : L \in SUBSET Ids}
             D == [root : Ids, refs : R, order : Seq(Ids),
                   admissions : SUBSET SUBSET Ids]
  <2>1. manifest.records \in R
    BY <1>10
  <2> HIDE DEF R
  <2>2. manifest \in
          [root : Ids, listing : {"ids", "records"}, listed : SUBSET Ids,
           order : Seq(Ids), admissions : SUBSET SUBSET Ids,
           digest : {None} \cup D, records : R]
    <3> HIDE DEF D
    <3> QED BY <1>3, <1>7, <2>1
  <2> QED BY <1>4, <1>5, <1>6, <1>9, <2>2 DEF Typed, R
<1>12. SearchTyped
  BY <1>4, EmptySeq DEF SearchTyped
<1>13. Stages /\ EachOnce /\ Trail /\ Seen /\ Matches /\ RefusedIsACycle
  BY <1>4 DEF Stages, EachOnce, Trail, Seen, Matches, Unformed, RefusedIsACycle
<1>14. Sealed
  BY <1>3, <1>4 DEF Sealed
<1> QED BY <1>11, <1>12, <1>13, <1>14 DEF ManifestInv

LEMMA ManifestStutter ==
  ASSUME ManifestInv, UNCHANGED vars
  PROVE  ManifestInv'
<1>1. /\ UNCHANGED bundleVars
      /\ stack' = stack /\ todo' = todo /\ visited' = visited /\ cycle' = cycle
      /\ strict' = strict /\ phase' = phase /\ result' = result
  BY DEF vars, searchVars
<1>2. /\ Refs' = Refs /\ Listed' = Listed
      /\ content' = content /\ ref' = ref /\ manifest' = manifest
      /\ sealed' = sealed
  BY <1>1, SameRefs
<1>3. Typed' /\ SearchTyped' /\ Stages' /\ EachOnce'
  BY <1>1, <1>2 DEF ManifestInv, Typed, SearchTyped, Stages, EachOnce
<1>4. Trail' /\ Seen'
  BY <1>1, <1>2 DEF ManifestInv, Trail, Seen, Taken, Deps, IsVisited
<1>5. Matches' /\ Sealed'
  BY <1>1, <1>2 DEF ManifestInv, Matches, Unformed, Sealed, Identity
<1>6. RefusedIsACycle'
  BY <1>1, <1>2 DEF ManifestInv, RefusedIsACycle, Admitted
<1> QED BY <1>3, <1>4, <1>5, <1>6 DEF ManifestInv

THEOREM ManifestInduction == Spec => []ManifestInv
<1>1. ASSUME ManifestInv, [Next]_vars PROVE ManifestInv'
  <2>1. ASSUME NEW id \in Touched, NEW c \in Contents, Replace(id, c)
        PROVE  ManifestInv'
    BY <1>1, <2>1, ReplaceStep
  <2>2. ASSUME NEW id \in Touched, Sign(id) PROVE ManifestInv'
    BY <1>1, <2>2, SignStep
  <2>3. CASE Seal
    BY <1>1, <2>3, SealStep
  <2>4. CASE Check
    BY <1>1, <2>4, CheckStep
  <2>5. CASE CheckEntries
    BY <1>1, <2>5, CheckEntriesStep
  <2>14. CASE CheckSchemas
    BY <1>1, <2>14, CheckSchemasStep
  <2>6. CASE CheckOrder
    BY <1>1, <2>6, CheckOrderStep
  <2>7. CASE Skip
    BY <1>1, <2>7, SkipStep
  <2>8. CASE Enter
    BY <1>1, <2>8, EnterStep
  <2>9. CASE Refuse
    BY <1>1, <2>9, RefuseStep
  <2>10. CASE Leave
    BY <1>1, <2>10, LeaveStep
  <2>11. CASE SearchEnds
    BY <1>1, <2>11, SearchEndsStep
  <2>12. CASE CheckManifest
    BY <1>1, <2>12, CheckManifestStep
  <2>13. CASE UNCHANGED vars
    BY <1>1, <2>13, ManifestStutter
  <2> QED BY <1>1, <2>1, <2>2, <2>3, <2>4, <2>5, <2>6, <2>7, <2>8, <2>9,
             <2>10, <2>11, <2>12, <2>13, <2>14 DEF Next, Edit, Search
<1> QED BY <1>1, ManifestInit, PTL DEF Spec

-----------------------------------------------------------------------------
(* What follows from it.                                                   *)

(***************************************************************************)
(* Every variable of the digest stage stays in its type, and the path and  *)
(* its loops are of one length (validate_manifest_dependencies).           *)
(***************************************************************************)
THEOREM ManifestTypeCorrect == Spec => []TypeOK
<1>1. ASSUME ManifestInv PROVE TypeOK
  BY <1>1, RefsTyped DEF ManifestInv, Typed, SearchTyped, TypeOK
<1> QED BY <1>1, ManifestInduction, PTL

(***************************************************************************)
(* Whatever the artifacts depend on and whatever cycles are admitted, the  *)
(* search of visit() enters each artifact once.                            *)
(***************************************************************************)
THEOREM EntersOnce == Spec => []EachOnce
<1>1. ManifestInv => EachOnce
  BY DEF ManifestInv
<1> QED BY <1>1, ManifestInduction, PTL

(***************************************************************************)
(* What the search refuses is a cycle of any length that no admission      *)
(* names (cycle_path and admitted_cycle in dfcc.artifacts).                *)
(***************************************************************************)
THEOREM RefusesCycles == Spec => []RefusedIsACycle
<1>1. ManifestInv => RefusedIsACycle
  BY DEF ManifestInv
<1> QED BY <1>1, ManifestInduction, PTL

(***************************************************************************)
(* A manifest that passes without admissions has no cycle behind its root, *)
(* for any number of artifacts (validate_manifest_dependencies).           *)
(***************************************************************************)
THEOREM PassesAcyclic == Spec => []PassIsAcyclic
<1>1. ASSUME ManifestInv PROVE PassIsAcyclic
  <2> SUFFICES ASSUME result = "pass", manifest.admissions = {}
               PROVE  /\ manifest.root \in DOMAIN Refs =>
                           IsVisited(manifest.root)
                      /\ \A i \in DOMAIN visited :
                           \A k \in DOMAIN Refs[visited[i]].deps :
                             Refs[visited[i]].deps[k] \in DOMAIN Refs =>
                               \E j \in 1..(i - 1) :
                                 visited[j] = Refs[visited[i]].deps[k]
    BY DEF PassIsAcyclic
  <2>1. DOMAIN Refs = Listed /\ stack = <<>>
    BY <1>1, RefsTyped DEF ManifestInv, Stages
  <2> QED BY <1>1, <2>1 DEF ManifestInv, Seen, Deps
<1> QED BY <1>1, ManifestInduction, PTL

(***************************************************************************)
(* A strict check that passes a manifest listing ids finds every listed    *)
(* artifact as it was when the manifest's digest was made, but for those   *)
(* without a schema that have become null                                  *)
(* (_validate_manifest_digest, validate_artifact_ref and _schema_stage).   *)
(***************************************************************************)
THEOREM PassesAsSealed == Spec => []PassIsAsSealed
<1>1. ASSUME ManifestInv PROVE PassIsAsSealed
  <2> SUFFICES ASSUME result = "pass", strict, ~ ByRecord
               PROVE  /\ manifest.digest # None
                      /\ \A id \in Listed :
                           content[id] # sealed[id] =>
                             id \in Schemaless /\ content[id] = Null
    BY DEF PassIsAsSealed
  <2>1. /\ manifest.digest # None
        /\ manifest.digest.refs = Refs
        /\ \A id \in Listed : manifest.digest.refs[id].digest = sealed[id]
    BY <1>1 DEF ManifestInv, Sealed, Identity
  <2>2. Listed \subseteq Ids /\ \A id \in Listed : Refs[id] = ref[id]
    BY <1>1, RefsTyped DEF ManifestInv, Refs
  <2>3. \A id \in Ids :
          ~ Unformed(id) /\ content[id] \in {Null, ref[id].digest}
    BY <1>1 DEF ManifestInv, Matches
  <2> QED BY <2>1, <2>2, <2>3 DEF Unformed
<1> QED BY <1>1, ManifestInduction, PTL

=============================================================================
