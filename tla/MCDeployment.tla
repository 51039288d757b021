---------------------------- MODULE MCDeployment ----------------------------
(* Instances of Deployment for TLC, and what the scripts say of themselves. *)
EXTENDS Deployment

(* The A record of @; and all of @ and www, which gets no AAAA record.     *)
PlanApex == <<<<"A", "@">>>>

MCPlan == <<<<"A", "@">>, <<"A", "www">>, <<"AAAA", "@">>>>

(* orchestrate_deploy.py:444, of --update-only: "pull latest repo on       *)
(* droplet and rerun post-deploy". When such a run reports success, the    *)
(* services are those of the branch as it was when the run started.        *)
UpdateServesTheBranch ==
  [][\A r \in Runner : Settle(r) /\ op[r] = "update" /\ r \notin dry
       => running'[drop[r]] >= want[r]]_vars
=============================================================================
