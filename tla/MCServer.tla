----------------------------- MODULE MCServer -----------------------------
(***************************************************************************)
(* The server process, its streams and its storage, and the login limiter, *)
(* for TLC.  The three share no variable but those of the process, so each *)
(* behaviour follows one of them and leaves the other two where they start.*)
(***************************************************************************)
EXTENDS Server, RateLimiter, TLC

VARIABLE focus
mcVars == <<serverVars, limiterVars, focus>>

MCInit == ServerInit /\ LimiterInit /\ focus \in {"streams", "storage", "limiter"}

StreamFocus == focus = "streams" /\ (StreamNext \/ ProcessNext) /\ UNCHANGED <<limiterVars, focus>>
StorageFocus == focus = "storage" /\ (StorageNext \/ ProcessNext) /\ UNCHANGED <<limiterVars, focus>>
LimiterFocus == focus = "limiter" /\ LimiterNext /\ UNCHANGED <<serverVars, focus>>

MCNext == StreamFocus \/ StorageFocus \/ LimiterFocus

\* The steps of the part in focus are the fair ones.
MCFairness ==
    \/ focus = "streams" /\ StreamFairness /\ ProcessFairness
    \/ focus = "storage" /\ StorageFairness /\ ProcessFairness
    \/ focus = "limiter"

MCSpec == MCInit /\ [][MCNext]_mcVars /\ MCFairness
=============================================================================
