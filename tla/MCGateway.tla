------------------------------- MODULE MCGateway -------------------------------
(* The gateway's three kinds of work, each on an instance of its own: an        *)
(* initial state says which of them moves, and the others stand still.          *)
EXTENDS NodeWork, OutlinePhase, Notices, TLC

VARIABLE scene    \* "nodes", "outline" or "notices"

gatewayVars == <<workVars, outlineVars, noticeVars, scene>>

TwoVersions == {"v1", "v2"}
TopicAndExam == 1 :> {} @@ 2 :> {1}

\* A brief for every way of being refused, and one for none.
AllBriefs == {"good", "invalid", "barred", "noroom", "late"}

\* Who stands still starts in one state.
AtStart ==
    /\ scene # "outline" => answering = FirstGuardrail
    /\ scene # "notices" =>
           /\ enrolled = CHOOSE n \in Enrolments : TRUE
           /\ screener = CHOOSE v \in Screeners : TRUE
           /\ \E r \in Requests : r = (CHOOSE q \in Requests : TRUE) /\ \A c \in consents : c.shown = {r}

GatewayInit ==
    /\ scene \in {"nodes", "outline", "notices"}
    /\ WorkInit /\ OutlineInit /\ NoticesInit
    /\ AtStart

GatewayNext ==
    /\ UNCHANGED scene
    /\ \/ scene = "nodes" /\ WorkNext /\ UNCHANGED <<outlineVars, noticeVars>>
       \/ scene = "outline" /\ OutlineNext /\ UNCHANGED <<workVars, noticeVars>>
       \/ scene = "notices" /\ NoticesNext /\ UNCHANGED <<workVars, outlineVars>>

GatewaySpec == GatewayInit /\ [][GatewayNext]_gatewayVars /\ WorkFairness /\ OutlineFairness
=============================================================================
