------------------------------ MODULE LiveFile ------------------------------
(***************************************************************************)
(* What the stage-and-commit pipeline promises about the live file and the *)
(* service that reads it, whatever the steps it takes to get there: the    *)
(* file is only ever replaced, whole, by a rendering the resource allows   *)
(* that differs from what it holds (no side effect when nothing changed),  *)
(* and the service only ever loads what the file holds.                    *)
(***************************************************************************)
CONSTANTS Values, NoValue

VARIABLES
    live,     \* the content of the destination, NoValue when it is missing
    loaded,   \* the content the dependent service runs with
    allowed   \* the renderings the resource lets into the live file

lvars == <<live, loaded, allowed>>

Init ==
    /\ allowed \subseteq Values
    /\ live \in Values \cup {NoValue}
    /\ loaded = live

(* A complete, allowed rendering replaces a different content *)
Install ==
    /\ \E c \in allowed : c # live /\ live' = c
    /\ UNCHANGED <<loaded, allowed>>

(* The service (re)loads the live file *)
Load ==
    /\ loaded' = live
    /\ UNCHANGED <<live, allowed>>

Next == Install \/ Load

Spec == Init /\ [][Next]_lvars
=============================================================================
