-------------------------- MODULE MCUploadSessions --------------------------
(* Small instances of UploadSessions. *)
EXTENDS UploadSessions, TLC

CONSTANTS u1, u2, p1, p2, r1, r2

\* One part each.
PartsOneOne == u1 :> {p1} @@ u2 :> {p1}
SizeOneOne  == u1 :> 1 @@ u2 :> 1

\* u2 is an empty file and so has no part.
PartsOneNone == u1 :> {p1} @@ u2 :> {}
SizeOneNone  == u1 :> 1 @@ u2 :> 0

\* One upload
PartsTwo == u1 :> {p1, p2}
SizeTwo  == u1 :> 2
PartsOne == u1 :> {p1}
SizeOne  == u1 :> 1

PartsTwoOne == u1 :> {p1, p2} @@ u2 :> {p1}
SizeTwoOne  == u1 :> 2 @@ u2 :> 1

PutSymmetry == Permutations(Puts)

\* A crash or an error of a pass or of a Create, not both, and no part is written
\* after it: what it leaves behind is to be cleaned up.
OneMishap ==
    \/ crashes + faults = 0
    \/ crashes + faults = 1 /\ \A r \in Puts : put[r].pc = "none"
=============================================================================
