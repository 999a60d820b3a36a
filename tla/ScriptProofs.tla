---------------------------- MODULE ScriptProofs ----------------------------
(* Theorems about the two scripts, for any number of runs.                  *)
EXTENDS NtzsDeployment, EvmOwnership, SequenceTheorems, TLAPS

-----------------------------------------------------------------------------
(* The deployment of the Solana program *)

\* The steps of the script, in order.
LEMMA PlanFacts ==
    /\ Len(Plan) = 5
    /\ Plan[1] = "initialize" /\ Plan[2] = "secondary" /\ Plan[3] = "third"
    /\ Plan[4] = "metadata" /\ Plan[5] = "handover"
BY DEF Plan

\* The steps as a set.
LEMMA StepFacts ==
    Step = {"initialize", "secondary", "third", "metadata", "handover"}
<1>1. DOMAIN Plan = 1 .. 5
  BY DEF Plan
<1> QED
  BY <1>1, PlanFacts DEF Step, Range

\* Whatever the script is at is a step.
LEMMA PlannedStep == \A i \in 1 .. 5 : Plan[i] \in Step
BY PlanFacts, StepFacts

\* What the proofs need to know of the variables of the deployment.
DeploymentTypeOK ==
    /\ mint \in Mint \cup {NoMint}
    /\ runs \subseteq Mint
    /\ Running => mint \in runs
    /\ pc \in 0 .. Len(Plan)
    /\ reply \in {"none", "pending", "ok", "failed"}
    /\ inFlight \subseteq runs \X Step
    /\ landed \in [Mint -> SUBSET Step]
    /\ disturbed \in BOOLEAN

\* Types are kept by every step of the deployment.
LEMMA DeploymentTypeStep ==
    ASSUME DeploymentTypeOK, [DeploymentNext]_deploymentVars
    PROVE  DeploymentTypeOK'
<1> USE PlanFacts DEF DeploymentTypeOK, Running
<1>1. CASE StartRun
  <2>1. PICK m \in Mint : mint' = m /\ runs' = runs \cup {m}
    BY <1>1 DEF StartRun
  <2>2. inFlight' \subseteq runs' \X Step
    BY <1>1, <2>1 DEF StartRun
  <2>3. pc' \in 0 .. Len(Plan)
    BY <1>1 DEF StartRun
  <2> QED
    BY <1>1, <2>1, <2>2, <2>3 DEF StartRun
<1>2. CASE Send
  <2>1. Plan[pc] \in Step
    BY <1>2, PlannedStep DEF Send
  <2> QED
    BY <1>2, <2>1 DEF Send
<1>3. CASE SimulationFails
  BY <1>3 DEF SimulationFails
<1>4. CASE Proceed
  BY <1>4 DEF Proceed
<1>5. CASE Stop
  BY <1>5 DEF Stop
<1>6. CASE ChainStep
  <2>1. PICK m \in Mint, step \in Step : Land(m, step) \/ Drop(m, step)
    BY <1>6 DEF ChainStep
  <2>2. CASE Land(m, step)
    BY <2>1, <2>2 DEF Land, Answer
  <2>3. CASE Drop(m, step)
    BY <2>1, <2>3 DEF Drop, Answer
  <2> QED
    BY <2>1, <2>2, <2>3
<1>7. CASE LoseAnswer
  BY <1>7 DEF LoseAnswer
<1>8. CASE Kill
  BY <1>8 DEF Kill
<1>9. CASE \E m \in Mint, step \in Step : InitializedByAnybody(m, step)
  BY <1>9 DEF InitializedByAnybody
<1>10. CASE UNCHANGED deploymentVars
  BY <1>10 DEF deploymentVars
<1> QED
  BY <1>1, <1>2, <1>3, <1>4, <1>5, <1>6, <1>7, <1>8, <1>9, <1>10
  DEF DeploymentNext, ScriptStep

\* Every variable of the deployment has its type.
LEMMA DeploymentTypeCorrect == DeploymentSpec => []DeploymentTypeOK
<1>1. ASSUME DeploymentInit PROVE DeploymentTypeOK
  <2>1. landed \in [Mint -> SUBSET Step]
    BY <1>1 DEF DeploymentInit
  <2>2. inFlight \subseteq runs \X Step
    BY <1>1 DEF DeploymentInit
  <2>3. pc \in 0 .. Len(Plan) /\ ~Running
    BY <1>1, PlanFacts DEF DeploymentInit, Running
  <2> QED
    BY <1>1, <2>1, <2>2, <2>3 DEF DeploymentInit, DeploymentTypeOK
<1> QED
  BY <1>1, DeploymentTypeStep, PTL DEF DeploymentSpec

-----------------------------------------------------------------------------

\* What the order of the script makes of the chain: what it has done for its
\* mint has landed, and a handover was sent after everything else had.
ScriptInv ==
    /\ Running =>
         /\ \A i \in 1 .. 5 : i < pc => Plan[i] \in landed[mint]
         /\ reply = "ok" => Plan[pc] \in landed[mint]
    /\ \A m \in Mint :
         <<m, "handover">> \in inFlight \/ "handover" \in landed[m] =>
             {"initialize", "secondary", "third", "metadata"} \subseteq landed[m]

\* What has landed stays, so knowledge of it outlives a step that leaves the
\* script where it is.
LEMMA ScriptWaits ==
    ASSUME DeploymentTypeOK, ScriptInv,
           \A m \in Mint : landed[m] \subseteq landed'[m],
           pc' = pc \/ pc' = 0, mint' = mint,
           reply' # "ok" \/ reply' = reply,
           inFlight' \subseteq inFlight,
           \A m \in Mint : "handover" \in landed'[m] =>
               "handover" \in landed[m] \/ <<m, "handover">> \in inFlight
    PROVE  ScriptInv'
BY PlanFacts DEF ScriptInv, DeploymentTypeOK, Running

\* What takes effect does so after all that the script put before it.
LEMMA ScriptLand ==
    ASSUME DeploymentTypeOK, ScriptInv,
           NEW m \in Mint, NEW step \in Step, Land(m, step)
    PROVE  ScriptInv'
<1>1. \A n \in Mint : landed[n] \subseteq landed'[n]
  BY DEF Land, DeploymentTypeOK
<1>2. step \in landed'[m]
  BY DEF Land, DeploymentTypeOK
<1>3. Running' => \A i \in 1 .. 5 : i < pc' => Plan[i] \in landed'[mint']
  BY <1>1 DEF ScriptInv, Land, DeploymentTypeOK, Running
<1>4. Running' /\ reply' = "ok" => Plan[pc'] \in landed'[mint']
  <2>1. CASE Running /\ reply = "pending" /\ <<m, step>> = <<mint, Plan[pc]>>
    BY <1>2, <2>1 DEF Land
  <2>2. CASE ~(Running /\ reply = "pending" /\ <<m, step>> = <<mint, Plan[pc]>>)
    <3>1. reply' = reply
      BY <2>2 DEF Land, Answer
    <3> QED
      BY <1>1, <3>1 DEF ScriptInv, Land, DeploymentTypeOK, Running
  <2> QED
    BY <2>1, <2>2
<1>5. ASSUME NEW n \in Mint,
             <<n, "handover">> \in inFlight' \/ "handover" \in landed'[n]
      PROVE  {"initialize", "secondary", "third", "metadata"} \subseteq landed'[n]
  <2>1. <<n, "handover">> \in inFlight \/ "handover" \in landed[n]
    BY <1>5 DEF Land, DeploymentTypeOK
  <2> QED
    BY <1>1, <2>1 DEF ScriptInv
<1> QED
  BY <1>3, <1>4, <1>5 DEF ScriptInv

\* Nothing that the script, its user or the chain does breaks the script's order.
LEMMA ScriptStepInv ==
    ASSUME DeploymentTypeOK, ScriptInv, [DeploymentNext]_deploymentVars
    PROVE  ScriptInv'
<1>1. CASE StartRun
  BY <1>1 DEF StartRun, ScriptInv, Running
<1>2. CASE Send
  <2>1. mint \in Mint /\ pc \in 1 .. 5
    BY <1>2, PlanFacts, DeploymentAssumption DEF Send, DeploymentTypeOK, Running
  <2>2. ASSUME NEW m \in Mint, <<m, "handover">> \in inFlight'
        PROVE  {"initialize", "secondary", "third", "metadata"} \subseteq landed[m]
    <3>1. CASE <<m, "handover">> \in inFlight
      BY <3>1 DEF ScriptInv
    <3>2. CASE m = mint /\ pc = 5
      BY <1>2, <3>2, PlanFacts DEF Send, ScriptInv
    <3> QED
      BY <1>2, <2>1, <2>2, <3>1, <3>2, PlanFacts DEF Send
  <2> QED
    BY <1>2, <2>1, <2>2 DEF Send, ScriptInv, Running
<1>3. CASE SimulationFails \/ Stop \/ LoseAnswer \/ Kill
  <2>1. /\ UNCHANGED <<mint, inFlight, landed>>
        /\ pc' = pc \/ pc' = 0
        /\ reply' # "ok"
    BY <1>3 DEF SimulationFails, Stop, LoseAnswer, Kill
  <2> QED
    BY <2>1, ScriptWaits
<1>4. CASE Proceed
  <2>1. pc \in 1 .. 5
    BY <1>4, PlanFacts DEF Proceed, DeploymentTypeOK, Running
  <2> QED
    BY <1>4, <2>1, PlanFacts DEF Proceed, ScriptInv, Running
<1>5. CASE ChainStep
  <2>1. PICK m \in Mint, step \in Step : Land(m, step) \/ Drop(m, step)
    BY <1>5 DEF ChainStep
  <2>2. CASE Drop(m, step)
    BY <2>2, ScriptWaits DEF Drop, Answer
  <2> QED
    BY <2>1, <2>2, ScriptLand
<1>6. CASE \E m \in Mint, step \in Step : InitializedByAnybody(m, step)
  <2>1. PICK m \in Mint, step \in Step : InitializedByAnybody(m, step)
    BY <1>6
  <2>2. \A n \in Mint : /\ landed[n] \subseteq landed'[n]
                        /\ "handover" \in landed'[n] => "handover" \in landed[n]
    BY <2>1 DEF InitializedByAnybody, DeploymentTypeOK
  <2> QED
    BY <2>1, <2>2, ScriptWaits DEF InitializedByAnybody
<1>7. CASE UNCHANGED deploymentVars
  BY <1>7, ScriptWaits DEF deploymentVars
<1> QED
  BY <1>1, <1>2, <1>3, <1>4, <1>5, <1>6, <1>7 DEF DeploymentNext, ScriptStep

\* The handover of the mint is the last step that takes effect, for any number
\* of runs of the script.
THEOREM DeploymentHandsOverLast == DeploymentSpec => []HandoverLast
<1>1. DeploymentInit => ScriptInv
  BY DEF DeploymentInit, ScriptInv, Running
<1>2. DeploymentTypeOK /\ ScriptInv => HandoverLast
  BY StepFacts DEF DeploymentTypeOK, ScriptInv, HandoverLast, Deployed
<1> QED
  BY <1>1, <1>2, ScriptStepInv, DeploymentTypeCorrect, PTL DEF DeploymentSpec

-----------------------------------------------------------------------------
(* The deployment implements the program *)

\* Nothing happens to a mint before it is initialised.
InitializedFirst ==
    \A m \in Mint : landed[m] # {} => "initialize" \in landed[m]

\* What the program of a mint is made of stays when its steps stay; metadata is
\* no part of it.
LEMMA ProgramAtRest ==
    ASSUME NEW m \in Mint,
           \A step \in Step \ {"metadata"} : Has(m, step)' <=> Has(m, step)
    PROVE  UNCHANGED Program(m)!tokenVars
<1>1. /\ Has(m, "initialize")' = Has(m, "initialize")
      /\ Has(m, "secondary")' = Has(m, "secondary")
      /\ Has(m, "third")' = Has(m, "third")
      /\ Has(m, "handover")' = Has(m, "handover")
  BY StepFacts DEF Has
<1> QED
  BY <1>1 DEF Program!tokenVars, Program!rolesVars, Program!pauseVars, Program!splVars,
              Authority

\* A step that takes effect is an instruction of its mint's program, or none.
LEMMA LandingIsInstruction ==
    ASSUME InitializedFirst, landed \in [Mint -> SUBSET Step],
           NEW m \in Mint, NEW step \in Step, Accepted(m, step),
           landed' = [landed EXCEPT ![m] = @ \cup {step}]
    PROVE  \A n \in Mint : [Program(n)!TokenNext]_(Program(n)!tokenVars)
<1> DEFINE Instruction(n) == [Program(n)!TokenNext]_(Program(n)!tokenVars)
<1>0. \A n \in Mint, s \in Step : Has(n, s)' <=> (Has(n, s) \/ (n = m /\ s = step))
  BY DEF Has
<1>1. ASSUME NEW n \in Mint, n # m
      PROVE  Instruction(n)
  <2>1. \A s \in Step \ {"metadata"} : Has(n, s)' <=> Has(n, s)
    BY <1>0, <1>1
  <2> QED
    BY <2>1, ProgramAtRest
<1> SUFFICES Instruction(m)
  BY <1>1
<1>2. CASE step = "initialize"
  <2>1. \A s \in Step : ~Has(m, s) /\ Has(m, s)' = (s = "initialize")
    BY <1>0, <1>2 DEF Accepted, InitializedFirst, Has
  <2>2. /\ ~Has(m, "initialize") /\ ~Has(m, "secondary") /\ ~Has(m, "third")
        /\ ~Has(m, "handover")
        /\ Has(m, "initialize")' /\ ~Has(m, "secondary")' /\ ~Has(m, "third")'
        /\ ~Has(m, "handover")'
    BY <2>1, StepFacts
  <2>3. Program(m)!InitializeToken(Deployer)
    BY <2>2 DEF Program!InitializeToken, Program!Initialize, Program!OneApproval, Authority
  <2> QED
    BY <2>3 DEF Program!TokenNext
<1>3. CASE step \in {"secondary", "third"}
  <2>1. /\ Has(m, "initialize") /\ Has(m, "initialize")'
        /\ Has(m, "handover")' = Has(m, "handover")
        /\ ~Has(m, step) /\ Has(m, step)'
        /\ step # "secondary" => Has(m, "secondary")' = Has(m, "secondary")
        /\ step # "third" => Has(m, "third")' = Has(m, "third")
    BY <1>0, <1>3, StepFacts DEF Accepted, Has
  <2>2. CASE step = "secondary"
    <3>1. Program(m)!InitializeSecondary
      BY <2>1, <2>2 DEF Program!InitializeSecondary
    <3>2. UNCHANGED Program(m)!pauseVars /\ UNCHANGED Program(m)!splVars
      BY <2>1 DEF Program!pauseVars, Program!splVars, Authority
    <3> QED
      BY <3>1, <3>2 DEF Program!TokenNext
  <2>3. CASE step = "third"
    <3>1. Program(m)!InitializeThird
      BY <2>1, <2>3 DEF Program!InitializeThird
    <3>2. UNCHANGED Program(m)!pauseVars /\ UNCHANGED Program(m)!splVars
      BY <2>1 DEF Program!pauseVars, Program!splVars, Authority
    <3> QED
      BY <3>1, <3>2 DEF Program!TokenNext
  <2> QED
    BY <1>3, <2>2, <2>3
<1>4. CASE step = "metadata"
  <2>1. \A s \in Step \ {"metadata"} : Has(m, s)' <=> Has(m, s)
    BY <1>0, <1>4
  <2> QED
    BY <2>1, ProgramAtRest
<1>5. CASE step = "handover"
  <2>1. /\ Has(m, "initialize") /\ Has(m, "initialize")'
        /\ ~Has(m, "handover") /\ Has(m, "handover")'
        /\ Has(m, "secondary")' = Has(m, "secondary")
        /\ Has(m, "third")' = Has(m, "third")
    BY <1>0, <1>5, StepFacts DEF Accepted, Has
  <2>2. Program(m)!TransferMintAuthority(Deployer)
    BY <2>1 DEF Program!TransferMintAuthority, Program!Spl!SetMintAuthority, Authority,
                Program!rolesVars, Program!pauseVars
  <2> QED
    BY <2>2 DEF Program!TokenNext
<1> QED
  BY <1>2, <1>3, <1>4, <1>5, StepFacts

\* For every mint a step of the deployment is an instruction or nothing.
LEMMA DeploymentStepIsInstruction ==
    ASSUME DeploymentTypeOK, InitializedFirst, [DeploymentNext]_deploymentVars
    PROVE  /\ InitializedFirst'
           /\ \A m \in Mint : [Program(m)!TokenNext]_(Program(m)!tokenVars)
<1>1. CASE UNCHANGED landed
  <2>1. \A m \in Mint : UNCHANGED Program(m)!tokenVars
    BY <1>1, ProgramAtRest DEF Has
  <2> QED
    BY <1>1, <2>1 DEF InitializedFirst
<1>2. ASSUME NEW m \in Mint, NEW step \in Step, Accepted(m, step),
             landed' = [landed EXCEPT ![m] = @ \cup {step}]
      PROVE  /\ InitializedFirst'
             /\ \A n \in Mint : [Program(n)!TokenNext]_(Program(n)!tokenVars)
  <2>1. InitializedFirst'
    BY <1>2 DEF DeploymentTypeOK, InitializedFirst, Accepted
  <2> QED
    BY <1>2, <2>1, LandingIsInstruction DEF DeploymentTypeOK
<1>3. \/ UNCHANGED landed
      \/ \E m \in Mint, step \in Step :
            Accepted(m, step) /\ landed' = [landed EXCEPT ![m] = @ \cup {step}]
  BY DEF DeploymentNext, StartRun, ScriptStep, Send, SimulationFails, Proceed, Stop,
         ChainStep, Land, Drop, LoseAnswer, Kill, InitializedByAnybody, deploymentVars
<1> QED
  BY <1>1, <1>2, <1>3

\* Each mint of any number of runs behaves as the program's specification says,
\* and its authority goes to the program's PDA.
THEOREM DeploymentImplementsProgram == DeploymentSpec => ImplementsProgram
<1>1. ASSUME DeploymentInit
      PROVE  InitializedFirst /\ \A m \in Mint : Program(m)!TokenInit
  <2> SUFFICES ASSUME NEW m \in Mint
               PROVE  landed[m] = {} /\ Program(m)!TokenInit
    BY DEF InitializedFirst
  <2>1. landed[m] = {}
    BY <1>1 DEF DeploymentInit
  <2>2. /\ ~Has(m, "initialize") /\ ~Has(m, "secondary") /\ ~Has(m, "third")
        /\ ~Has(m, "handover")
    BY <2>1 DEF Has
  <2>3. Program(m)!TokenInit
    BY <2>2 DEF Program!TokenInit, Program!RolesInit, Authority
  <2> QED
    BY <2>1, <2>3
<1>2. DeploymentTypeOK /\ InitializedFirst /\ [DeploymentNext]_deploymentVars
        => InitializedFirst'
  BY DeploymentStepIsInstruction
<1>3. DeploymentTypeOK /\ InitializedFirst /\ [DeploymentNext]_deploymentVars
        => [\A m \in Mint : [Program(m)!TokenNext]_(Program(m)!tokenVars)]_deploymentVars
  BY DeploymentStepIsInstruction
<1> QED
  BY <1>1, <1>2, <1>3, DeploymentTypeCorrect, PTL DEF DeploymentSpec, ImplementsProgram

-----------------------------------------------------------------------------
(* A run of the deployment that nothing interferes with *)

\* What the chain has of a run half-way if nothing interfered: exactly the steps
\* that the script has passed, and the one it waits for on its way.
QuietRun ==
    /\ \A i \in 1 .. 5 : Plan[i] \in landed[mint] <=> i < pc \/ (i = pc /\ reply = "ok")
    /\ \A step \in Step :
          <<mint, step>> \in inFlight <=> reply = "pending" /\ step = Plan[pc]
    /\ reply # "failed"

QuietInv ==
    /\ \A m \in Mint \ runs : landed[m] = {}
    /\ Running /\ ~disturbed => QuietRun

\* A run that has ended was disturbed or has deployed its mint.
EndedDeployed == mint # NoMint /\ ~Running => disturbed \/ mint \in Deployed

\* No step is planned twice.
LEMMA PlanIsInjective == \A i, j \in 1 .. 5 : Plan[i] = Plan[j] => i = j
BY PlanFacts

\* Every step is planned.
LEMMA StepPlanned == \A step \in Step : \E i \in 1 .. 5 : step = Plan[i]
<1>1. DOMAIN Plan = 1 .. 5
  BY DEF Plan
<1> QED
  BY <1>1 DEF Step, Range

\* Nothing can happen to a mint before its run starts.
LEMMA FreshStep ==
    ASSUME DeploymentTypeOK, QuietInv, [DeploymentNext]_deploymentVars
    PROVE  \A m \in Mint \ runs' : landed'[m] = {}
<1> SUFFICES ASSUME NEW n \in Mint \ runs'
             PROVE  landed'[n] = {}
  OBVIOUS
<1>1. runs \subseteq runs'
  BY DEF DeploymentNext, StartRun, ScriptStep, Send, SimulationFails, Proceed, Stop,
         ChainStep, Land, Drop, LoseAnswer, Kill, InitializedByAnybody, deploymentVars
<1>2. landed[n] = {} /\ n \notin runs
  BY <1>1 DEF QuietInv
<1>3. ASSUME NEW m \in Mint, NEW step \in Step, Land(m, step)
      PROVE  landed'[n] = {}
  <2>1. m \in runs
    BY <1>3 DEF Land, DeploymentTypeOK
  <2> QED
    BY <1>2, <1>3, <2>1 DEF Land, DeploymentTypeOK
<1>4. ASSUME NEW m \in Mint, NEW step \in Step, InitializedByAnybody(m, step)
      PROVE  landed'[n] = {}
  <2>1. landed[m] # {}
    BY <1>4 DEF InitializedByAnybody, Accepted
  <2> QED
    BY <1>2, <1>4, <2>1 DEF InitializedByAnybody, DeploymentTypeOK
<1>5. CASE UNCHANGED landed
  BY <1>2, <1>5
<1> QED
  BY <1>3, <1>4, <1>5
     DEF DeploymentNext, StartRun, ScriptStep, Send, SimulationFails, Proceed, Stop,
         ChainStep, Drop, LoseAnswer, Kill, deploymentVars

\* The next step of a quiet run is accepted: the chain has all the steps before
\* it and none after it.
LEMMA QuietIsAccepted ==
    ASSUME DeploymentTypeOK, Running, QuietRun, reply = "none"
    PROVE  Accepted(mint, Plan[pc])
<1>1. pc \in 1 .. 5
  BY PlanFacts DEF DeploymentTypeOK, Running
<1>2. \A i \in 1 .. 5 : Plan[i] \in landed[mint] <=> i < pc
  BY <1>1 DEF QuietRun
<1>3. Plan[pc] \notin landed[mint]
  BY <1>1, <1>2
<1>4. Plan[pc] # "initialize" => "initialize" \in landed[mint]
  BY <1>1, <1>2, PlanFacts
<1>5. Plan[pc] = "metadata" => "handover" \notin landed[mint]
  BY <1>1, <1>2, PlanFacts
<1> QED
  BY <1>3, <1>4, <1>5 DEF Accepted

\* While nothing interferes the run stays quiet.
LEMMA QuietStep ==
    ASSUME DeploymentTypeOK, QuietInv, [DeploymentNext]_deploymentVars,
           Running', ~disturbed'
    PROVE  QuietRun'
<1>1. CASE StartRun
  <2>1. PICK m \in Mint \ runs : mint' = m
    BY <1>1 DEF StartRun
  <2>2. landed'[mint'] = {} /\ pc' = 1 /\ reply' = "none" /\ inFlight' = inFlight
    BY <1>1, <2>1 DEF StartRun, QuietInv
  <2>3. \A step \in Step : <<mint', step>> \notin inFlight'
    BY <2>1, <2>2 DEF DeploymentTypeOK
  <2> QED
    BY <2>2, <2>3 DEF QuietRun
<1>2. ASSUME UNCHANGED mint, Running, ~disturbed
      PROVE  QuietRun /\ mint \in runs /\ pc \in 1 .. 5 /\ Plan[pc] \in Step
  <2>1. pc \in 1 .. 5
    BY <1>2, PlanFacts DEF DeploymentTypeOK, Running
  <2> QED
    BY <1>2, <2>1, PlannedStep DEF QuietInv, DeploymentTypeOK
<1>3. CASE Send
  <2>1. QuietRun /\ pc \in 1 .. 5 /\ Plan[pc] \in Step
    BY <1>2, <1>3 DEF Send
  <2>2. /\ reply = "none" /\ reply' = "pending"
        /\ inFlight' = inFlight \cup {<<mint, Plan[pc]>>}
        /\ UNCHANGED <<mint, pc, landed>>
    BY <1>3 DEF Send
  <2> QED
    BY <2>1, <2>2 DEF QuietRun
<1>4. CASE SimulationFails
  BY <1>2, <1>4, QuietIsAccepted DEF SimulationFails
<1>5. CASE Proceed
  <2>1. QuietRun /\ pc \in 1 .. 5
    BY <1>2, <1>5 DEF Proceed
  <2>2. /\ reply = "ok" /\ reply' = "none"
        /\ pc' = pc + 1
        /\ UNCHANGED <<mint, landed, inFlight>>
    BY <1>5, <2>1, PlanFacts DEF Proceed, Running
  <2>3. \A i \in 1 .. 5 : i < pc + 1 <=> i < pc \/ i = pc
    BY <2>1
  <2> QED
    BY <2>1, <2>2, <2>3 DEF QuietRun
<1>6. CASE Stop \/ Kill
  BY <1>6 DEF Stop, Kill, Running
<1>7. CASE LoseAnswer
  BY <1>7 DEF LoseAnswer
<1>8. ASSUME NEW m \in Mint, NEW step \in Step, Land(m, step)
      PROVE  QuietRun'
  <2>1. QuietRun /\ pc \in 1 .. 5 /\ Plan[pc] \in Step
    BY <1>2, <1>8 DEF Land, Running
  <2>2. /\ <<m, step>> \in inFlight
        /\ inFlight' = inFlight \ {<<m, step>>}
        /\ landed' = [landed EXCEPT ![m] = @ \cup {step}]
        /\ UNCHANGED <<mint, pc>>
    BY <1>8 DEF Land
  <2>3. CASE m = mint
    <3>1. reply = "pending" /\ step = Plan[pc]
      BY <2>1, <2>2, <2>3 DEF QuietRun
    <3>2. reply' = "ok"
      BY <1>8, <2>2, <2>3, <3>1 DEF Land, Answer, Running
    <3>3. landed'[mint] = landed[mint] \cup {Plan[pc]}
      BY <2>2, <2>3, <3>1 DEF DeploymentTypeOK
    <3>4. \A i \in 1 .. 5 : Plan[i] \in landed'[mint] <=> i < pc \/ i = pc
      BY <2>1, <3>1, <3>3, PlanIsInjective DEF QuietRun
    <3> QED
      BY <2>1, <2>2, <2>3, <3>1, <3>2, <3>4 DEF QuietRun
  <2>4. CASE m # mint
    <3>1. reply' = reply /\ landed'[mint] = landed[mint]
      BY <1>8, <2>2, <2>4 DEF Land, Answer
    <3> QED
      BY <2>1, <2>2, <2>4, <3>1 DEF QuietRun
  <2> QED
    BY <2>3, <2>4
<1>9. ASSUME NEW m \in Mint, NEW step \in Step, Drop(m, step)
      PROVE  QuietRun'
  <2>1. QuietRun /\ m # mint
    BY <1>2, <1>9 DEF Drop, Running
  <2>2. /\ inFlight' = inFlight \ {<<m, step>>}
        /\ reply' = reply
        /\ UNCHANGED <<mint, pc, landed>>
    BY <1>9, <2>1 DEF Drop, Answer
  <2> QED
    BY <2>1, <2>2 DEF QuietRun
<1>10. ASSUME NEW m \in Mint, NEW step \in Step, InitializedByAnybody(m, step)
      PROVE  QuietRun'
  <2>1. QuietRun /\ m # mint
    BY <1>2, <1>10 DEF InitializedByAnybody, Running
  <2>2. /\ landed'[mint] = landed[mint]
        /\ UNCHANGED <<mint, pc, reply, inFlight>>
    BY <1>10, <2>1 DEF InitializedByAnybody
  <2> QED
    BY <2>1, <2>2 DEF QuietRun
<1>11. CASE UNCHANGED deploymentVars
  BY <1>2, <1>11 DEF deploymentVars, QuietRun, Running
<1> QED
  BY <1>1, <1>3, <1>4, <1>5, <1>6, <1>7, <1>8, <1>9, <1>10, <1>11
     DEF DeploymentNext, ScriptStep, ChainStep

\* A quiet run ends after its last step, and what is deployed stays deployed.
LEMMA EndedStep ==
    ASSUME DeploymentTypeOK, QuietInv, EndedDeployed, [DeploymentNext]_deploymentVars
    PROVE  EndedDeployed'
<1> SUFFICES ASSUME mint' # NoMint, ~Running', ~disturbed'
             PROVE  mint' \in Deployed'
  BY DEF EndedDeployed
<1>1. ~disturbed /\ mint' = mint
  <2>1. ~StartRun
    BY DEF StartRun, Running
  <2>2. mint' = mint
    BY <2>1 DEF DeploymentNext, ScriptStep, Send, SimulationFails, Proceed, Stop,
         ChainStep, Land, Drop, LoseAnswer, Kill, InitializedByAnybody, deploymentVars
  <2>3. disturbed => disturbed'
    BY <2>1, Zenon
       DEF DeploymentNext, ScriptStep, Send, SimulationFails, Proceed, Stop,
         ChainStep, Land, Drop, LoseAnswer, Kill, InitializedByAnybody, deploymentVars
  <2> QED
    BY <2>2, <2>3
<1>2. mint \in Mint /\ landed[mint] \subseteq Step /\ landed'[mint] \subseteq Step
  BY <1>1, DeploymentTypeStep DEF DeploymentTypeOK
<1>3. landed[mint] \subseteq landed'[mint]
  BY <1>2 DEF DeploymentNext, StartRun, ScriptStep, Send, SimulationFails, Proceed, Stop,
         ChainStep, Land, Drop, LoseAnswer, Kill, InitializedByAnybody, deploymentVars,
         DeploymentTypeOK
<1>4. landed[mint] = Step
  <2>1. CASE ~Running
    BY <1>1, <1>2, <2>1 DEF EndedDeployed, Deployed
  <2>2. CASE Running
    <3>1. QuietRun /\ pc \in 1 .. 5
      BY <1>1, <2>2, PlanFacts DEF QuietInv, DeploymentTypeOK, Running
    <3>2. Proceed /\ pc = 5
      <4>1. pc' # pc
        BY <2>2 DEF Running
      <4>2. Proceed \/ Stop \/ Kill \/ StartRun
        BY <4>1 DEF DeploymentNext, ScriptStep, Send, SimulationFails, ChainStep, Land, Drop,
                    LoseAnswer, InitializedByAnybody, deploymentVars
      <4>3. ~Stop /\ ~Kill /\ ~StartRun
        BY <2>2, <3>1 DEF QuietRun, Stop, Kill, StartRun, Running
      <4>4. pc < 5 => pc + 1 > 0
        BY <3>1
      <4> QED
        BY <3>1, <4>2, <4>3, <4>4, PlanFacts DEF Proceed, Running
    <3>3. \A i \in 1 .. 5 : Plan[i] \in landed[mint]
      BY <3>1, <3>2 DEF QuietRun, Proceed
    <3> QED
      BY <1>2, <3>3, StepPlanned
  <2> QED
    BY <2>1, <2>2
<1> QED
  BY <1>1, <1>2, <1>3, <1>4 DEF Deployed

\* What a run may count on holds as long as the deployment goes on.
LEMMA DeploymentQuiet == DeploymentSpec => [](QuietInv /\ EndedDeployed)
<1>1. DeploymentInit => QuietInv /\ EndedDeployed
  BY DEF DeploymentInit, QuietInv, EndedDeployed, Running
<1>2. DeploymentTypeOK /\ QuietInv /\ EndedDeployed /\ [DeploymentNext]_deploymentVars
        => (QuietInv /\ EndedDeployed)'
  BY FreshStep, QuietStep, EndedStep DEF QuietInv
<1> QED
  BY <1>1, <1>2, DeploymentTypeCorrect, PTL DEF DeploymentSpec

\* No step of a run fails unless something interferes with that run, whatever
\* earlier runs left on their way: the next step is always one that the chain
\* accepts (deploy.ts:43-113).
THEOREM DeploymentFailsOnlyDisturbed ==
    DeploymentSpec => [](Running /\ reply = "failed" => disturbed)
<1>1. QuietInv => (Running /\ reply = "failed" => disturbed)
  BY DEF QuietInv, QuietRun
<1> QED
  BY <1>1, DeploymentQuiet, PTL

\* When no run is going on, the last one was disturbed or all steps of its mint
\* took effect (deploy.ts:43-131).
THEOREM DeploymentEndsDeployed == DeploymentSpec => []EndedDeployed
BY DeploymentQuiet, PTL

\* So an undisturbed run deploys if only it ends, which depends on fairness alone.
THEOREM DeploymentDeploysIfItEnds == DeploymentSpec /\ RunEnds => UndisturbedRunDeploys
<1>1. DeploymentTypeOK /\ EndedDeployed
        => (mint # NoMint => Running \/ disturbed \/ mint \in Deployed)
  BY DEF EndedDeployed
<1>2. DeploymentTypeOK => (pc = 1 => Running /\ mint # NoMint)
  BY DeploymentAssumption DEF DeploymentTypeOK, Running
<1>3. mint # NoMint /\ DeploymentTypeOK /\ [DeploymentNext]_deploymentVars => (mint # NoMint)'
  BY DeploymentAssumption
     DEF DeploymentTypeOK, DeploymentNext, StartRun, ScriptStep, Send, SimulationFails,
         Proceed, Stop, ChainStep, Land, Drop, LoseAnswer, Kill, InitializedByAnybody,
         deploymentVars
<1> QED
  BY <1>1, <1>2, <1>3, DeploymentTypeCorrect, DeploymentEndsDeployed, PTL
     DEF DeploymentSpec, RunEnds, UndisturbedRunDeploys

-----------------------------------------------------------------------------
(* The transfer of the EVM contracts *)

\* The contracts in the order they are handed over.
LEMMA OrderFacts ==
    /\ Len(Order) = 4
    /\ Order[1] = "Admin" /\ Order[2] = "Forwarder"
    /\ Order[3] = "nTZS" /\ Order[4] = "ProxyAdmin"
BY DEF Order

\* Whatever the script is at is a contract.
LEMMA OrderedContract == \A i \in 1 .. 4 : Order[i] \in Contract
<1>1. DOMAIN Order = 1 .. 4
  BY DEF Order
<1> QED
  BY <1>1 DEF Contract, Range

\* Every contract is handed over.
LEMMA ContractOrdered == \A c \in Contract : \E i \in 1 .. 4 : c = Order[i]
<1>1. DOMAIN Order = 1 .. 4
  BY DEF Order
<1> QED
  BY <1>1 DEF Contract, Range

\* No contract is handed over twice.
LEMMA OrderIsInjective == \A i, j \in 1 .. 4 : Order[i] = Order[j] => i = j
BY OrderFacts

\* Mining the first of several transactions leaves the last one last.
LEMMA TailEndsAlike ==
    ASSUME NEW S, NEW s \in Seq(S), s # <<>>, Len(s) # 1
    PROVE  Tail(s) # <<>> /\ Tail(s)[Len(Tail(s))] = s[Len(s)]
<1>1. Len(s) \in Nat /\ Len(s) > 1
  BY EmptySeq
<1>2. Len(Tail(s)) = Len(s) - 1
  BY HeadTailProperties
<1>3. Len(Tail(s)) \in 1 .. Len(Tail(s))
  BY <1>1, <1>2
<1>4. Tail(s) # <<>>
  BY <1>1, <1>2
<1> QED
  BY <1>1, <1>2, <1>3, <1>4, HeadTailProperties

\* What the proofs need to know of the variables of the transfer.
OwnershipTypeOK ==
    /\ compiled \subseteq Contract
    /\ ownedBy \in [Contract -> {"deployer", "new owner", "nobody"}]
    /\ phase \in {"idle", "look", "send", "wait", "mined", "reverted"}
    /\ at \in 1 .. Len(Order)
    /\ pending \in Seq(Contract)
    /\ interfered \in BOOLEAN

\* Types are kept by every step of the script and of its chain.
LEMMA OwnershipTypeStep ==
    ASSUME OwnershipTypeOK, [OwnershipNext]_ownershipVars
    PROVE  OwnershipTypeOK'
<1>1. pending' \in Seq(Contract)
  <2>1. CASE SendTransfer
    <3>1. Order[at] \in Contract /\ pending \in Seq(Contract)
      BY OrderFacts, OrderedContract DEF OwnershipTypeOK
    <3> QED
      BY <2>1, <3>1 DEF SendTransfer
  <2>2. CASE Mine
    <3>1. pending \in Seq(Contract) /\ pending # <<>> /\ pending' = Tail(pending)
      BY <2>2 DEF Mine, OwnershipTypeOK
    <3> QED
      BY <3>1, HeadTailProperties
  <2>3. CASE UNCHANGED pending
    BY <2>3 DEF OwnershipTypeOK
  <2> QED
    BY <2>1, <2>2, <2>3 DEF OwnershipNext, TransferStep, StartTransfer,
       GetContractFails, LookAtOwner, Waited, KillTransfer, TransferByHand,
       ownershipVars
<1>2. at' \in 1 .. Len(Order)
  <2>1. Len(Order) = 4 /\ at \in 1 .. 4
    BY OrderFacts DEF OwnershipTypeOK
  <2>2. at' = 1 \/ at' = at \/ (at # Len(Order) /\ at' = at + 1)
    BY DEF OwnershipNext, TransferStep, StartTransfer, GetContractFails,
       LookAtOwner, SendTransfer, Waited, Mine, KillTransfer, TransferByHand,
       GiveUp, Advance, ownershipVars
  <2> QED
    BY <2>1, <2>2
<1>3. phase' \in {"idle", "look", "send", "wait", "mined", "reverted"}
  BY OrderFacts DEF OwnershipTypeOK, OwnershipNext, TransferStep, StartTransfer,
     GetContractFails, LookAtOwner, SendTransfer, Waited, Mine, KillTransfer,
     TransferByHand, GiveUp, Advance, ownershipVars
<1>4. ownedBy' \in [Contract -> {"deployer", "new owner", "nobody"}] /\ compiled' \subseteq Contract
  BY DEF OwnershipTypeOK, OwnershipNext, TransferStep, StartTransfer,
     GetContractFails, LookAtOwner, SendTransfer, Waited, Mine, KillTransfer,
     TransferByHand, ownershipVars
<1>5. interfered' \in BOOLEAN
  BY ZenonT(30) DEF OwnershipTypeOK, OwnershipNext, TransferStep, StartTransfer,
     GetContractFails, LookAtOwner, SendTransfer, Waited, Mine, KillTransfer,
     TransferByHand, ownershipVars
<1> QED
  BY <1>1, <1>2, <1>3, <1>4, <1>5 DEF OwnershipTypeOK

\* Every variable of the transfer has its type.
LEMMA OwnershipTypeCorrect == OwnershipSpec => []OwnershipTypeOK
<1>1. OwnershipInit => OwnershipTypeOK
  <2> SUFFICES ASSUME OwnershipInit PROVE OwnershipTypeOK
    OBVIOUS
  <2>1. <<>> \in Seq(Contract) /\ 1 \in 1 .. Len(Order)
    BY OrderFacts
  <2>2. ownedBy \in [Contract -> {"deployer", "new owner", "nobody"}]
    BY DEF OwnershipInit
  <2> QED
    BY <2>1, <2>2 DEF OwnershipInit, OwnershipTypeOK
<1> QED
  BY <1>1, OwnershipTypeStep, PTL DEF OwnershipSpec

-----------------------------------------------------------------------------

\* The contracts before the i-th have left the deployer.
Passed(i) == \A j \in 1 .. 4 : j < i => Order[j] \notin Deployers

\* The script is at a contract only once the earlier ones are transferred, and
\* so is everything it has sent.  It waits for the last transaction it sent.
TransferInv ==
    /\ Passed(at)
    /\ \A k \in 1 .. Len(pending), i \in 1 .. 4 : pending[k] = Order[i] => Passed(i)
    /\ phase = "wait" => pending # <<>> /\ pending[Len(pending)] = Order[at]
    /\ phase = "mined" => Order[at] \notin Deployers

\* No step gives a contract back to the deployer.
LEMMA DeployerLoses ==
    ASSUME OwnershipTypeOK, [OwnershipNext]_ownershipVars
    PROVE  Deployers' \subseteq Deployers
<1>1. CASE Mine
  BY <1>1 DEF Mine, OwnershipTypeOK, Deployers
<1>2. CASE \E c \in Contract : TransferByHand(c)
  BY <1>2 DEF TransferByHand, OwnershipTypeOK, Deployers
<1>3. CASE UNCHANGED ownedBy
  BY <1>3 DEF Deployers
<1> QED
  BY <1>1, <1>2, <1>3 DEF OwnershipNext, TransferStep, StartTransfer,
     GetContractFails, LookAtOwner, SendTransfer, Waited, KillTransfer,
     ownershipVars

\* What is not the deployer's does not become his again.
LEMMA PassedStays ==
    ASSUME OwnershipTypeOK, [OwnershipNext]_ownershipVars, NEW i \in Int, Passed(i)
    PROVE  Passed(i)'
BY DeployerLoses DEF Passed

\* The script passes over what is not the deployer's only.
LEMMA PassedOver ==
    ASSUME OwnershipTypeOK, LookAtOwner
    PROVE  \/ UNCHANGED at /\ phase' = "send"
           \/ Order[at] \notin Deployers /\ Advance
<1>1. Order[at] \in Contract
  BY OrderFacts, OrderedContract DEF OwnershipTypeOK
<1>2. CASE Order[at] = "ProxyAdmin"
  <2>1. CASE ownedBy[Order[at]] # "nobody"
    BY <1>2, <2>1 DEF LookAtOwner
  <2>2. CASE ownedBy[Order[at]] = "nobody"
    <3>1. Order[at] \notin Deployers
      BY <2>2 DEF Deployers
    <3> QED
      BY <1>2, <2>2, <3>1 DEF LookAtOwner
  <2> QED
    BY <2>1, <2>2
<1>3. CASE Order[at] # "ProxyAdmin"
  BY <1>3 DEF LookAtOwner
<1> QED
  BY <1>2, <1>3

\* The script moves on from a contract that is not the deployer's.
LEMMA PassedAt ==
    ASSUME OwnershipTypeOK, TransferInv, [OwnershipNext]_ownershipVars
    PROVE  Passed(at')
<1>1. at \in 1 .. 4 /\ Len(Order) = 4 /\ Passed(at)
  BY OrderFacts DEF OwnershipTypeOK, TransferInv
<1>2. CASE at' = 1 \/ at' = at
  BY <1>1, <1>2 DEF Passed
<1>3. CASE at' = at + 1 /\ Order[at] \notin Deployers
  BY <1>1, <1>3 DEF Passed
<1>4. CASE LookAtOwner
  BY <1>1, <1>2, <1>3, <1>4, PassedOver DEF Advance
<1>5. CASE Waited
  <2>1. phase = "mined" => Order[at] \notin Deployers
    BY DEF TransferInv
  <2> QED
    BY <1>1, <1>2, <1>3, <1>5, <2>1 DEF Waited, Advance, GiveUp
<1> QED
  BY <1>2, <1>4, <1>5 DEF OwnershipNext, TransferStep, StartTransfer,
     GetContractFails, SendTransfer, Mine, KillTransfer, TransferByHand,
     GiveUp, ownershipVars

\* What is on its way was sent when the earlier contracts were transferred.
LEMMA PassedPending ==
    ASSUME OwnershipTypeOK, TransferInv, [OwnershipNext]_ownershipVars,
           NEW k \in 1 .. Len(pending'), NEW i \in 1 .. 4, pending'[k] = Order[i]
    PROVE  Passed(i)
<1>1. /\ at \in 1 .. 4 /\ Order[at] \in Contract
      /\ pending \in Seq(Contract)
      /\ Passed(at)
      /\ \A n \in 1 .. Len(pending) : pending[n] = Order[i] => Passed(i)
  BY OrderFacts, OrderedContract DEF OwnershipTypeOK, TransferInv
<1>2. CASE UNCHANGED pending
  BY <1>1, <1>2
<1>3. CASE pending' = Append(pending, Order[at])
  <2>1. CASE k \in 1 .. Len(pending)
    BY <1>1, <1>3, <2>1, AppendProperties
  <2>2. CASE k = Len(pending) + 1
    <3>1. Order[i] = Order[at]
      BY <1>1, <1>3, <2>2, AppendProperties
    <3> QED
      BY <1>1, <3>1, OrderIsInjective
  <2> QED
    BY <1>1, <1>3, <2>1, <2>2, AppendProperties
<1>4. CASE Mine
  <2>1. pending # <<>> /\ pending' = Tail(pending)
    BY <1>4 DEF Mine
  <2>2. k + 1 \in 1 .. Len(pending) /\ pending[k + 1] = pending'[k]
    BY <1>1, <2>1, HeadTailProperties
  <2> QED
    BY <1>1, <2>2
<1> QED
  BY <1>2, <1>3, <1>4 DEF OwnershipNext, TransferStep, StartTransfer,
     GetContractFails, LookAtOwner, SendTransfer, Waited, KillTransfer,
     TransferByHand, ownershipVars

\* The transaction the script waits for is the last one, and is its own.
LEMMA WaitsForItsOwn ==
    ASSUME OwnershipTypeOK, TransferInv, [OwnershipNext]_ownershipVars
    PROVE  /\ phase' = "wait" => pending' # <<>> /\ pending'[Len(pending')] = Order[at']
           /\ phase' = "mined" => Order[at'] \notin Deployers'
<1>1. /\ at \in 1 .. 4 /\ Order[at] \in Contract
      /\ pending \in Seq(Contract)
      /\ phase = "wait" => pending # <<>> /\ pending[Len(pending)] = Order[at]
      /\ phase = "mined" => Order[at] \notin Deployers
  BY OrderFacts, OrderedContract DEF OwnershipTypeOK, TransferInv
<1>2. CASE SendTransfer /\ phase' = "wait"
  <2>1. pending' = Append(pending, Order[at]) /\ at' = at
    BY <1>2 DEF SendTransfer, GiveUp
  <2> QED
    BY <1>1, <1>2, <2>1, AppendProperties
<1>3. CASE Mine
  <2>1. pending # <<>> /\ pending' = Tail(pending) /\ at' = at
    BY <1>3 DEF Mine
  <2>2. CASE Len(pending) = 1 /\ phase = "wait"
    <3>1. Head(pending) = Order[at]
      BY <1>1, <2>1, <2>2, HeadTailProperties
    <3>2. Order[at] \notin Deployers'
      BY <1>1, <1>3, <3>1 DEF Mine, Deployers, OwnershipTypeOK
    <3> QED
      BY <1>3, <2>1, <2>2, <3>2 DEF Mine
  <2>3. CASE Len(pending) # 1 \/ phase # "wait"
    <3>1. phase' = phase
      BY <1>3, <2>3 DEF Mine
    <3>2. phase = "wait" =>
            pending' # <<>> /\ pending'[Len(pending')] = pending[Len(pending)]
      BY <1>1, <2>1, <2>3, TailEndsAlike
    <3> QED
      BY <1>1, <2>1, <3>1, <3>2, DeployerLoses
  <2> QED
    BY <2>2, <2>3
<1>4. CASE phase' \notin {"wait", "mined"}
  BY <1>4
<1>5. CASE UNCHANGED <<phase, at, pending>>
  BY <1>1, <1>5, DeployerLoses
<1> QED
  BY <1>2, <1>3, <1>4, <1>5 DEF OwnershipNext, TransferStep, StartTransfer,
     GetContractFails, LookAtOwner, SendTransfer, Waited, KillTransfer,
     TransferByHand, Advance, GiveUp, ownershipVars

\* Everything before the contract that the script is at has been given away.
LEMMA TransferInvStep ==
    ASSUME OwnershipTypeOK, TransferInv, [OwnershipNext]_ownershipVars
    PROVE  TransferInv'
<1>1. Passed(at)'
  BY PassedAt, DeployerLoses DEF Passed
<1>2. ASSUME NEW k \in 1 .. Len(pending'), NEW i \in 1 .. 4, pending'[k] = Order[i]
      PROVE  Passed(i)'
  BY <1>2, PassedPending, PassedStays
<1> QED
  BY <1>1, <1>2, WaitsForItsOwn DEF TransferInv

\* Contracts are handed over in the order of the script, for any number of runs
\* and of transactions they leave behind.
THEOREM OwnershipHandedOverInOrder == OwnershipSpec => HandedOverInOrder
<1>1. OwnershipInit => TransferInv
  BY DEF OwnershipInit, TransferInv, Passed
<1>2. OwnershipTypeOK /\ TransferInv => InOrder
  <2> SUFFICES ASSUME OwnershipTypeOK, TransferInv,
                      pending # <<>>,
                      NEW i \in 1 .. 4, Head(pending) = Order[i]
               PROVE  Passed(i)
    BY OrderFacts DEF InOrder, Passed
  <2>1. pending \in Seq(Contract) /\ pending # <<>>
    BY DEF OwnershipTypeOK
  <2>2. 1 \in 1 .. Len(pending) /\ pending[1] = Order[i]
    BY <2>1, HeadTailProperties
  <2> QED
    BY <2>2 DEF TransferInv
<1> QED
  BY <1>1, <1>2, TransferInvStep, OwnershipTypeCorrect, PTL
  DEF OwnershipSpec, HandedOverInOrder

-----------------------------------------------------------------------------
(* A run of the transfer that nothing interferes with *)

\* Half-way through such a run there is no transaction but the script's own, and
\* the contract that it is about, or has in hand, is still the deployer's; only
\* of the ProxyAdmin does the script not know.
QuietTransfer ==
    /\ phase # "wait" => pending = <<>>
    /\ phase = "wait" => pending = <<Order[at]>> /\ Order[at] \in Deployers
    /\ phase = "send" => at = 4 \/ Order[at] \in Deployers
    /\ phase # "reverted"

QuietTransferInv == ~Idle /\ ~interfered => QuietTransfer

\* A transaction of the script that is alone on its way is not reverted.
LEMMA QuietMine ==
    ASSUME OwnershipTypeOK, QuietTransfer, Mine
    PROVE  phase' = "mined" /\ pending' = <<>>
<1>1. pending = <<Order[at]>> /\ phase = "wait" /\ Order[at] \in Deployers
  BY DEF QuietTransfer, Mine
<1>2. Len(pending) = 1 /\ Head(pending) = Order[at] /\ Tail(pending) = <<>>
  BY <1>1
<1> QED
  BY <1>1, <1>2 DEF Mine

\* While nothing interferes the run stays quiet.
LEMMA QuietTransferStep ==
    ASSUME OwnershipTypeOK, QuietTransferInv, [OwnershipNext]_ownershipVars
    PROVE  QuietTransferInv'
<1> SUFFICES ASSUME ~Idle', ~interfered'
             PROVE  QuietTransfer'
  BY DEF QuietTransferInv
<1>0. at \in 1 .. 4 /\ Len(Order) = 4
  BY OrderFacts DEF OwnershipTypeOK
<1>1. CASE StartTransfer
  BY <1>1 DEF StartTransfer, QuietTransfer
<1>2. ASSUME ~Idle, ~interfered
      PROVE  QuietTransfer
  BY <1>2 DEF QuietTransferInv
<1>3. CASE GetContractFails
  BY <1>3 DEF GetContractFails, GiveUp, Idle
<1>4. CASE LookAtOwner
  <2>1. pending = <<>> /\ pending' = <<>>
    BY <1>2, <1>4 DEF LookAtOwner, Idle, QuietTransfer
  <2>2. phase' = "send" => at' = at /\ (at = 4 \/ Order[at] \in Deployers')
    BY <1>0, <1>4, OrderFacts DEF LookAtOwner, Advance, Deployers
  <2>3. phase' \in {"send", "look", "idle"}
    BY <1>4 DEF LookAtOwner, Advance
  <2> QED
    BY <2>1, <2>2, <2>3 DEF QuietTransfer
<1>5. CASE SendTransfer
  <2>1. pending = <<>>
    BY <1>2, <1>5 DEF SendTransfer, Idle, QuietTransfer
  <2>2. Order[at] \in Deployers
    BY <1>5 DEF SendTransfer, GiveUp, Idle
  <2>3. pending' = <<Order[at]>> /\ phase' = "wait" /\ UNCHANGED <<at, ownedBy>>
    BY <1>5, <2>1, <2>2 DEF SendTransfer
  <2> QED
    BY <2>2, <2>3 DEF QuietTransfer, Deployers
<1>6. CASE Waited
  <2>1. pending' = <<>>
    BY <1>2, <1>6 DEF Waited, Idle, QuietTransfer
  <2>2. phase' \in {"look", "idle"}
    BY <1>6 DEF Waited, Advance, GiveUp
  <2> QED
    BY <2>1, <2>2 DEF QuietTransfer
<1>7. CASE Mine
  <2>1. ~Idle
    BY <1>7 DEF Mine, Idle
  <2>2. QuietTransfer
    BY <1>2, <1>7, <2>1 DEF Mine
  <2> QED
    BY <1>7, <2>2, QuietMine DEF QuietTransfer
<1>8. CASE KillTransfer
  BY <1>8 DEF KillTransfer
<1>9. CASE \E c \in Contract : TransferByHand(c)
  BY <1>9 DEF TransferByHand
<1>10. CASE UNCHANGED ownershipVars
  BY <1>2, <1>10 DEF ownershipVars, QuietTransfer, Deployers, Idle
<1> QED
  BY <1>1, <1>3, <1>4, <1>5, <1>6, <1>7, <1>8, <1>9, <1>10
     DEF OwnershipNext, TransferStep

\* The step that ends a run of which all artifacts exist: it was interfered with
\* or leaves nothing with the deployer.
LEMMA TransferEnds ==
    ASSUME OwnershipTypeOK, TransferInv, QuietTransferInv,
           [OwnershipNext]_ownershipVars, ~Idle, Idle', compiled = Contract
    PROVE  interfered' \/ Deployers' = {}
<1> SUFFICES ASSUME ~interfered'
             PROVE  Deployers' = {}
  OBVIOUS
<1>0. at \in 1 .. 4 /\ Len(Order) = 4 /\ Order[at] \in compiled
  BY OrderFacts, OrderedContract DEF OwnershipTypeOK
<1>1. interfered' = interfered
  BY DEF OwnershipNext, TransferStep, StartTransfer, GetContractFails, LookAtOwner,
         SendTransfer, Waited, Mine, KillTransfer, TransferByHand, ownershipVars, Idle
<1>2. QuietTransfer
  BY <1>1 DEF QuietTransferInv
<1>3. /\ at = 4 /\ Order[4] \notin Deployers
      /\ UNCHANGED ownedBy
  <2>1. CASE LookAtOwner
    <3>1. UNCHANGED <<ownedBy, pending>> /\ phase' = "idle"
      BY <2>1 DEF LookAtOwner, Idle
    <3>2. Order[at] \notin Deployers /\ Advance
      BY <2>1, <3>1, PassedOver
    <3> QED
      BY <1>0, <3>1, <3>2 DEF Advance
  <2>2. CASE SendTransfer
    BY <1>0, <1>2, <2>2 DEF SendTransfer, QuietTransfer, Idle
  <2>3. CASE Waited
    BY <1>0, <1>2, <2>3 DEF Waited, Advance, QuietTransfer, TransferInv, Idle
  <2>4. ~GetContractFails /\ ~KillTransfer /\ ~StartTransfer
    BY <1>0 DEF GetContractFails, KillTransfer, StartTransfer
  <2>5. ~Mine /\ ~(\E c \in Contract : TransferByHand(c)) /\ ~UNCHANGED ownershipVars
    BY <1>2, QuietMine DEF TransferByHand, ownershipVars, Idle
  <2> QED
    BY <2>1, <2>2, <2>3, <2>4, <2>5 DEF OwnershipNext, TransferStep
<1>4. \A i \in 1 .. 4 : Order[i] \notin Deployers
  BY <1>3 DEF TransferInv, Passed
<1>5. Deployers = {}
  BY <1>4, ContractOrdered DEF Deployers
<1> QED
  BY <1>3, <1>5 DEF Deployers

\* What a run may count on holds as long as ownership is transferred.
LEMMA TransferQuiet == OwnershipSpec => [](TransferInv /\ QuietTransferInv)
<1>1. OwnershipInit => TransferInv /\ QuietTransferInv
  BY DEF OwnershipInit, TransferInv, Passed, QuietTransferInv, Idle
<1>2. OwnershipTypeOK /\ TransferInv /\ QuietTransferInv /\ [OwnershipNext]_ownershipVars
        => (TransferInv /\ QuietTransferInv)'
  BY TransferInvStep, QuietTransferStep
<1> QED
  BY <1>1, <1>2, OwnershipTypeCorrect, PTL DEF OwnershipSpec

\* No transfer of the script is refused by the chain unless something interferes
\* with that run: what an earlier run sent is mined before, or counts as
\* interference (transfer-ownership.js:31-104).
THEOREM OwnershipRevertsOnlyInterfered ==
    OwnershipSpec => [](phase = "reverted" => interfered)
<1>1. QuietTransferInv => (phase = "reverted" => interfered)
  BY DEF QuietTransferInv, QuietTransfer, Idle
<1> QED
  BY <1>1, TransferQuiet, PTL

\* A run that ends leaves nothing with the deployer unless something interfered
\* with it or an artifact is missing, also when earlier runs stopped half-way
\* (transfer-ownership.js:31-104).
THEOREM OwnershipEndsComplete ==
    OwnershipSpec =>
      [][~Idle /\ Idle' /\ compiled = Contract => interfered' \/ Deployers' = {}]_ownershipVars
<1>1. OwnershipTypeOK /\ TransferInv /\ QuietTransferInv /\ [OwnershipNext]_ownershipVars
        => [~Idle /\ Idle' /\ compiled = Contract => interfered' \/ Deployers' = {}]_ownershipVars
  BY TransferEnds
<1> QED
  BY <1>1, TransferQuiet, OwnershipTypeCorrect, PTL DEF OwnershipSpec

\* So an undisturbed run completes if only it ends, which depends on fairness alone.
THEOREM OwnershipCompletesIfItEnds ==
    OwnershipSpec /\ TransferRunEnds => UndisturbedTransferCompletes
<1> DEFINE Complete == Idle /\ (interfered \/ Deployers = {})
           AllCompiled == compiled = Contract
<1>1. OwnershipTypeOK /\ TransferInv /\ QuietTransferInv /\ [OwnershipNext]_ownershipVars
        /\ ~Idle /\ Idle' /\ AllCompiled => Complete'
  BY TransferEnds
<1>2. AllCompiled /\ [OwnershipNext]_ownershipVars => AllCompiled'
  BY DEF OwnershipNext, TransferStep, StartTransfer, GetContractFails, LookAtOwner,
         SendTransfer, Waited, Mine, KillTransfer, TransferByHand, ownershipVars, Contract
<1>3. phase = "look" /\ at = 1 /\ AllCompiled => ~Idle /\ AllCompiled
  BY DEF Idle
<1> QED
  BY <1>1, <1>2, <1>3, TransferQuiet, OwnershipTypeCorrect, PTL
     DEF OwnershipSpec, TransferRunEnds, UndisturbedTransferCompletes
=============================================================================
