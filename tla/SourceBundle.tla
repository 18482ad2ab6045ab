---------------------------- MODULE SourceBundle ----------------------------
(***************************************************************************)
(* The authoritative documents of a Project (spoke/src/source_bundle.rs).  *)
(* A tree maps every path to what is there.  A bundle is a function from   *)
(* the paths of its documents to their contents; its hash, which the code  *)
(* compares, is taken to tell any two bundles apart.                       *)
(*                                                                         *)
(* Abstracted: a link is what it resolves to, relative to the document it  *)
(* is in; one out of the Project's root is like one to a path where nobody *)
(* can put a file, since both are errors; so is a file that is not UTF-8.  *)
(***************************************************************************)
EXTENDS Naturals

CONSTANTS
    Paths,       \* the paths of a Project's files
    FirstManifest, SecondManifest,  \* design.md, docs/design/README.md
    DesignDocs,  \* the Markdown files of docs/design
    Contents,    \* what a file may hold
    Absent,      \* the content of a path without a file
    Links        \* the Markdown paths a document with a given content links to

ASSUME PathsAssumption ==
    /\ {FirstManifest} \cup DesignDocs \subseteq Paths
    /\ SecondManifest \in DesignDocs
    /\ Absent \notin Contents
    /\ Links \in [Paths \X Contents -> SUBSET Paths]

Tree == [Paths -> Contents \cup {Absent}]
Bundles == UNION {[D -> Contents] : D \in SUBSET Paths}

Present(t) == {p \in Paths : t[p] # Absent}

HasManifest(t) == {FirstManifest, SecondManifest} \cap Present(t) # {}
Manifest(t) ==
    IF FirstManifest \in Present(t) THEN FirstManifest ELSE SecondManifest

\* The paths the queue of import reaches: the least set with the manifest that
\* has the links of every document in it.
ClosedUnderLinks(t, D) ==
    \A d \in D \cap Present(t) : Links[d, t[d]] \subseteq D
Reached == [t \in Tree |->
    {p \in Paths : \A D \in SUBSET Paths :
        Manifest(t) \in D /\ ClosedUnderLinks(t, D) => p \in D}]

\* Mutant: a linked document that is missing is passed over.
ImportsWithGaps(t) == HasManifest(t) => DesignDocs \cap Present(t) \subseteq Reached[t]

\* import succeeds: every linked document is there and docs/design has no other.
\* Without a manifest there is no bundle, which is no error.
Imports(t) ==
    HasManifest(t) => /\ Reached[t] \subseteq Present(t)
                      /\ DesignDocs \cap Present(t) \subseteq Reached[t]

NoBundle == [p \in {} |-> Absent]

\* The bundle of a tree that imports.
Import(t) == IF HasManifest(t) THEN [d \in Reached[t] |-> t[d]] ELSE NoBundle

\* Mutant: only the bundle's own documents are compared.
VerifiesDocuments(t, bundle) == \A d \in DOMAIN bundle : t[d] = bundle[d]

\* verify_on_disk.
Verifies(t, bundle) == HasManifest(t) /\ Imports(t) /\ Import(t) = bundle

\* The files restore writes; it deletes none, and verifies afterwards.
Restored(t, bundle) ==
    [p \in Paths |-> IF p \in DOMAIN bundle THEN bundle[p] ELSE t[p]]
=============================================================================
