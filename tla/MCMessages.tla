----------------------------- MODULE MCMessages -----------------------------
EXTENDS Messages

CONSTANTS a, b, k1, r1, r2, t1, x1, b1, b2

OwnedByA == [t \in Tags |-> a]

Command(op, to, body, T, F, src) ==
    [op |-> op, user |-> a, to |-> to, meta |-> 1, body |-> body, sensitive |-> FALSE,
     life |-> "TEMPORARY", tags |-> T, files |-> F, src |-> src, expected |-> 2]

\* A text with a tag, a file for the other user, and a forward of the second
\* version of the first message; the second client repeats the first request,
\* or sends one without any content.
Text == Command("create", a, b1, {t1}, {}, None)
File == Command("direct", b, None, {}, {x1}, None)
Empty == Command("create", a, None, {}, {}, None)
Copy == Command("forward", b, None, {}, {}, 1)

AllCommands == [r \in Reqs |-> IF r = r1 THEN {Text, File, Copy} ELSE {Text, Empty}]

MostlyFirst == [m \in Msgs |-> IF m = 1 THEN 3 ELSE 1]
=============================================================================
