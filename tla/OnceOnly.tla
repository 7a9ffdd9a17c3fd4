------------------------------- MODULE OnceOnly -------------------------------
(***************************************************************************)
(* What the command dedup promises (cmd/dedup.go, the comment on           *)
(* commandDeduper): within one life of the process a command is executed   *)
(* once, and every answer to it is the result of its last execution.  A    *)
(* restart forgets.                                                        *)
(*                                                                         *)
(* Which executions it may forget before that is left open here: those in  *)
(* stale.  With none the promise is the comment's; with those that began   *)
(* more than the cache's TTL ago it is what the code keeps.                *)
(***************************************************************************)
EXTENDS Naturals

CONSTANTS Cmds, Outcomes, NoOutcome

VARIABLES
    runs,      \* runs[c]: how often c was executed in this life
    result,    \* result[c]: what the last execution returned, or NoOutcome
    replied,   \* the <<command, outcome>> answers of this life
    stale      \* the commands whose last execution may be forgotten

vars == <<runs, result, replied, stale>>

Forgotten == /\ runs = [c \in Cmds |-> 0]
             /\ result = [c \in Cmds |-> NoOutcome]
             /\ replied = {}

Init == Forgotten /\ stale = {}

\* The first execution, or another of one that ended and may be forgotten.
Begin(c) ==
    /\ runs[c] = 0 \/ (c \in stale /\ result[c] # NoOutcome)
    /\ runs' = [runs EXCEPT ![c] = @ + 1]
    /\ result' = [result EXCEPT ![c] = NoOutcome]
    /\ stale' = stale \ {c}
    /\ UNCHANGED replied

End(c, o) ==
    /\ runs[c] > 0 /\ result[c] = NoOutcome
    /\ result' = [result EXCEPT ![c] = o]
    /\ UNCHANGED <<runs, replied, stale>>

Reply(c) ==
    /\ result[c] # NoOutcome
    /\ replied' = replied \cup {<<c, result[c]>>}
    /\ UNCHANGED <<runs, result, stale>>

Ages ==
    /\ stale \subseteq stale'
    /\ UNCHANGED <<runs, result, replied>>

Restart == Forgotten' /\ UNCHANGED stale

Next == \/ \E c \in Cmds : Begin(c) \/ Reply(c) \/ \E o \in Outcomes : End(c, o)
        \/ Ages \/ Restart

Spec == Init /\ [][Next]_vars
=============================================================================
