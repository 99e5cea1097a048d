-------------------------- MODULE MCAuthentication --------------------------
(***************************************************************************)
(* Accounts, sessions and the second factor for TLC.  A behaviour either   *)
(* extends sessions by activity or enrolls second factors: what the two    *)
(* have in common is only which sessions are valid.                        *)
(***************************************************************************)
EXTENDS Authentication

CONSTANTS r1, r2

VARIABLE focus
mcVars == <<vars, focus>>

\* The second client completes logins, starts enrollments and touches sessions
\* while the first one does anything.
AllAndSome == [r \in Reqs |-> IF r = r1 THEN Ops ELSE {"accepted", "wrong", "enroll", "touch"}]

MCInit == Init /\ focus \in {"sessions", "factor"}
MCNext == Next /\ UNCHANGED focus
MCSpec == MCInit /\ [][MCNext]_mcVars

\* Constraint: a behaviour keeps to its focus.
InFocus ==
    \A r \in Reqs : /\ At(r, "enroll") => focus = "factor"
                    /\ At(r, "touch") => focus = "sessions"

\* Constraint: of the sessions at most two are opened with a password alone, so
\* that a third one is opened with a code.
TwoPasswordSessions ==
    Cardinality({s \in Sessions : sess[s] # None /\ sess[s].via = None}) <= 2
=============================================================================
