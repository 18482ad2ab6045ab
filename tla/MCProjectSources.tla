-------------------------- MODULE MCProjectSources --------------------------
(* An instance of ProjectSources for model checking. *)
EXTENDS ProjectSources, TLC

\* The two candidates for the manifest and a file of code.  A document of one
\* content links to the second manifest, one of the other to nothing.
ManifestLinks == [d \in Paths \X Contents |->
    IF d[1] = FirstManifest /\ d[2] = "linked" THEN {SecondManifest} ELSE {}]

\* Checkouts with both documents, with a first manifest that links to nothing,
\* and without documents.
ThreeCheckouts ==
    {[p \in Paths |-> IF p \in DesignDocs THEN "plain" ELSE "linked"],
     [p \in Paths |-> IF p \in DesignDocs THEN Absent ELSE "plain"],
     [p \in Paths |-> IF p = FirstManifest \/ p \in DesignDocs THEN Absent ELSE "linked"]}
=============================================================================
