----------------------------- MODULE MCScripts -----------------------------
(* The two scripts that take several transactions, each against its chain.  *)
(* They have nothing in common, so a behaviour is about one of them.        *)
EXTENDS NtzsDeployment, EvmOwnership

CONSTANTS m1, m2

VARIABLE script   \* what this behaviour is about

MCMint == {m1, m2}

ScriptsInit ==
    /\ script \in {"deploy.ts", "transfer-ownership.js"}
    /\ DeploymentInit
    /\ OwnershipInit

ScriptsNext ==
    /\ UNCHANGED script
    /\ \/ /\ script = "deploy.ts"
          /\ DeploymentNext
          /\ UNCHANGED ownershipVars
       \/ /\ script = "transfer-ownership.js"
          /\ OwnershipNext
          /\ UNCHANGED deploymentVars

ScriptsSpec ==
    /\ ScriptsInit
    /\ [][ScriptsNext]_<<script, deploymentVars, ownershipVars>>
    /\ DeploymentFairness
    /\ OwnershipFairness
=============================================================================
