--------------------------- MODULE CommandService ---------------------------
(***************************************************************************)
(* What the gateway promises of the commands it takes, without sessions,   *)
(* windows, frames, retries or ports: each is performed at most once, in   *)
(* the order of submission, with the arguments it was submitted with, and  *)
(* is reported once.  A result is reported only of a command that was      *)
(* performed, with the result it had; a failure may be reported of any,    *)
(* performed or not: the gateway then does not know.                       *)
(***************************************************************************)
EXTENDS Naturals, Sequences

CONSTANTS Command, Result, Failure

VARIABLES
  submitted,    \* the commands, in the order of submission
  performed,    \* what was performed: [id, cmd, result], in that order
  reported      \* for each command "pending" or what was reported

vars == <<submitted, performed, reported>>

Init == submitted = << >> /\ performed = << >> /\ reported = << >>

Submit(c) ==
  /\ submitted' = Append(submitted, c)
  /\ reported' = Append(reported, "pending")
  /\ UNCHANGED performed

Perform(id, r) ==
  /\ \A i \in DOMAIN performed : performed[i].id < id
  /\ performed' = Append(performed,
                    [id |-> id, cmd |-> submitted[id], result |-> r])
  /\ UNCHANGED <<submitted, reported>>

MayReport(id, r) ==
  \/ r \in Failure
  \/ \E i \in DOMAIN performed :
       performed[i].id = id /\ performed[i].result = r

\* One event may end several commands.
Report ==
  /\ DOMAIN reported' = DOMAIN reported
  /\ \A id \in DOMAIN reported :
       \/ reported'[id] = reported[id]
       \/ reported[id] = "pending" /\ MayReport(id, reported'[id])
  /\ UNCHANGED <<submitted, performed>>

Next ==
  \/ \E c \in Command : Submit(c)
  \/ \E id \in DOMAIN submitted, r \in Result : Perform(id, r)
  \/ Report

Spec == Init /\ [][Next]_vars
=============================================================================
