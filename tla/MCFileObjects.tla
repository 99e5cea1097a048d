--------------------------- MODULE MCFileObjects ---------------------------
(* Instances of FileObjects for TLC. *)
EXTENDS FileObjects, TLC

CONSTANTS u1, u2, u3, c1, c2

\* Two uploads of the same content, the deduplicating case, and one of another
\* content, which competes with them for the quota.
Contended == (u1 :> c1) @@ (u2 :> c1) @@ (u3 :> c2)
\* Two uploads of the same content.
SameContent == (u1 :> c1) @@ (u2 :> c1)
\* One upload, retried under new object ids.
OneUpload == u1 :> c1
\* Two contents, both of one unit.
UnitSizes == (c1 :> 1) @@ (c2 :> 1)

\* Any two of the uploads take part in a behaviour.
TwoAtATime == Cardinality({u \in Uploads : sess[u] # "UPLOADING"}) <= 2

\* u1 and u2 are alike in Contended.
SafetySymmetry == Permutations({u1, u2}) \cup Permutations(Objs) \cup Permutations(Messages)
=============================================================================
