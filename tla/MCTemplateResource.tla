------------------------- MODULE MCTemplateResource -------------------------
(* Instance of TemplateResource for TLC: two renderings, one of which the  *)
(* check rejects, two modes (0644 and 0640), the mode fields "0640" and    *)
(* "644", and two owners.                                                  *)
EXTENDS TemplateResource

CONSTANTS v1, v2, root, other

MCValues == {v1, v2}
MCCheckAccepts == {v1}
MCModes == {420, 416}

(* mode = "0640" and mode = "644".                                         *)
MCModeStrings == {<<0, 6, 4, 0>>, <<6, 4, 4>>}
MCOwners == {root, other}

(* Every descriptor and flag combination, with or without a mount point.   *)
MCConfigsAll == ConfigRecords

(* Every combination on a destination that is not a mount point.           *)
MCConfigsNoMount == {c \in ConfigRecords : ~c.mount}
(* Every combination on a destination that is a mount point.               *)
MCConfigsMount == {c \in ConfigRecords : c.mount}
=============================================================================
