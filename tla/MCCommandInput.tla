--------------------------- MODULE MCCommandInput ---------------------------
(* Three calls of send; the first two are one request and its retry.        *)
EXTENDS CommandInput

CONSTANTS s1, s2, s3, r1, r2, x, y

MCIds == [s \in Senders |-> IF s = s3 THEN r2 ELSE r1]

\* The retry repeats the text.
MCTexts == [s \in Senders |-> IF s = s3 THEN y ELSE x]

\* The second call uses the request id for another text.
MCOtherTexts == [s \in Senders |-> IF s = s1 THEN x ELSE y]

\* docs/terminal_management.md:25 says that a request id that comes again is not
\* sent again, and is refused if its content differs: of two calls with one id
\* and different texts at most one is told "accepted".
OneTextPerId ==
    \A s, t \in Senders :
        /\ IdOf[s] = IdOf[t] /\ told[s] = "accepted" /\ told[t] = "accepted"
        => TextOf[s] = TextOf[t]
=============================================================================
