--------------------------- MODULE OneShotService ---------------------------
(***************************************************************************)
(* What the server of KCNet promises to the connections made to it.  They  *)
(* wait in one line and are heard one at a time, in the order in which     *)
(* they came.  Each is heard at most once, in one message, and answered at *)
(* most once and before the next is heard: with its own message, or, when  *)
(* it is barred, with a fixed notice.  Once a barred one was heard the     *)
(* service is muted: it disregards what all others say until it closes.    *)
(***************************************************************************)
EXTENDS SequencesExt

CONSTANTS
    Conns,       \* the connections that may ever be made; none is "nobody"
    Notice       \* the answer to those that are barred

VARIABLES
    stage,       \* "starting", "open" or "closed"
    known,       \* the connections that were made
    barred,      \* those of them that come from a barred address
    line,        \* those that wait to be heard, in the order they came
    busy,        \* the one that was heard and is not dealt with yet
    muted,       \* TRUE when others than the barred ones are disregarded
    given,       \* what each connection said
    answer       \* what each was answered

vars == <<stage, known, barred, line, busy, muted, given, answer>>

Init ==
    /\ stage = "starting" /\ known = {} /\ barred = {}
    /\ line = <<>> /\ busy = "nobody" /\ muted = FALSE
    /\ given = [c \in Conns |-> <<>>]
    /\ answer = [c \in Conns |-> <<>>]

Open ==
    /\ stage = "starting"
    /\ stage' = "open"
    /\ UNCHANGED <<known, barred, line, busy, muted, given, answer>>

\* A connection joins the end of the line, barred or not.
Arrive(c) ==
    /\ stage = "open"
    /\ c \notin known
    /\ known' = known \cup {c}
    /\ barred' \in {barred, barred \cup {c}}
    /\ line' = Append(line, c)
    /\ UNCHANGED <<stage, busy, muted, given, answer>>

\* The first in line says something, and leaves the line.
Heard(c) ==
    /\ busy = "nobody"
    /\ line # <<>> /\ c = Head(line)
    /\ line' = Tail(line)
    /\ given'[c] # <<>>
    /\ given' = [given EXCEPT ![c] = given'[c]]
    /\ UNCHANGED <<stage, known, barred, answer>>

Attend(c) ==
    /\ Heard(c)
    /\ c \in barred \/ ~muted
    /\ busy' = c
    /\ UNCHANGED muted

\* Nothing is answered to others while muted, nor, by a service that keeps its
\* notice to itself, to a barred one.
Disregard(c) ==
    /\ Heard(c)
    /\ c \in barred \/ muted
    /\ muted' = TRUE
    /\ UNCHANGED busy

\* The first in line has gone, or said nothing, or the service was interrupted.
PassOver ==
    /\ busy = "nobody"
    /\ line # <<>>
    /\ line' = Tail(line)
    /\ UNCHANGED <<stage, known, barred, busy, muted, given, answer>>

\* One answer, which is lost when the connection was reset.
Reply(c) ==
    /\ busy = c
    /\ busy' = "nobody"
    /\ muted' = (muted \/ c \in barred)
    /\ LET due == IF c \in barred THEN Notice ELSE given[c]
       IN  answer' \in {answer, [answer EXCEPT ![c] = due]}
    /\ UNCHANGED <<stage, known, barred, line, given>>

\* Whoever is in line or was just heard gets nothing any more.
Close ==
    /\ stage # "closed"
    /\ stage' = "closed"
    /\ line' = <<>> /\ busy' = "nobody" /\ muted' = FALSE
    /\ UNCHANGED <<known, barred, given, answer>>

Next ==
    \/ Open \/ PassOver \/ Close
    \/ \E c \in Conns : Arrive(c) \/ Attend(c) \/ Disregard(c) \/ Reply(c)

Spec == Init /\ [][Next]_vars
=============================================================================
