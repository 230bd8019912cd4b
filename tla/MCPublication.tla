---------------------------- MODULE MCPublication ----------------------------
(* Finite instances of Publication for TLC.  Each behaviour keeps to one of the *)
(* scenes: "lines" follows three revisions through one change of one kind of    *)
(* configuration, "rules" two of them through changes of every kind, with bare   *)
(* verdicts.  Settling is cut short in neither.                                 *)
EXTENDS Publication

CONSTANT Scenes
VARIABLE scene

OneKind == {"guardrail"}
TwoKinds == {"policy", "guardrail"}
TwoVersions == {"v1", "v2"}
First == "v1"

\* Two changes are left out before they are enumerated, the bare verdicts after.
LinesNext ==
    /\ \/ changes = 0 /\ Change
       \/ \E r \in Rev : Event(r) \/ Settle(r)
    /\ \A k \in Kinds \ OneKind : current'[k] = FirstVersion
    /\ memo' # memo => \A r \in Rev : ~VerdictFiled(r)

RulesNext == Next /\ last' <= 2

SceneNext ==
    /\ UNCHANGED scene
    /\ \/ scene = "lines" /\ LinesNext
       \/ scene = "rules" /\ RulesNext

SceneInit == Init /\ scene \in Scenes

SceneSpec == SceneInit /\ [][SceneNext]_<<vars, scene>> /\ Fairness
=============================================================================
