----------------------------- MODULE DevelopmentLab -----------------------------
(***************************************************************************)
(* npm run cloud:deploy and cloud:destroy: one supervisor owns three local *)
(* processes (the mock vendor, the tunnel to it, the user interface), one  *)
(* CloudFormation stack deployed through GitHub runs, one endpoint at      *)
(* Stripe and one parameter with its secret.  A file records what it owns, *)
(* so that a later command can take over from a supervisor that died, from *)
(* a step that failed, or from a run nobody waited for.                    *)
(*                                                                         *)
(* A step first records what the previous step made and then makes the     *)
(* next thing, so a death strikes between a thing and its record.  At the  *)
(* start of every step the supervisor's own state is the file's: it saves  *)
(* each change and reloads the file when a step throws.                    *)
(***************************************************************************)
EXTENDS Identifiers, Naturals, FiniteSets

CONSTANTS
  Commits,      \* reviewed commits
  MaxDeploys,   \* bound on cloud:deploy commands
  MaxDeaths,    \* bound on deaths of the supervisor
  MaxFailures   \* bound on failing steps, runs and processes

ASSUME LabConstants ==
  /\ Commits # {} /\ {MaxDeploys, MaxDeaths, MaxFailures} \subseteq Nat
  /\ Undefined \notin Nat \cup Commits \cup {"success", "failure"}

VARIABLES
  file,        \* state.json
  supervisor,  \* where the command at work stands
  running,     \* the local processes the lab started
  secret,      \* lab-secrets.json: the webhook signing secret
  cloud,       \* the stack, its change sets, its artifacts, the GitHub secret
  runs,        \* GitHub runs that have not completed
  stripe,      \* the lab's endpoints at Stripe, the parameter with the secret
  made,        \* how many things were made: the next identifier
  spent        \* how much of each bound was used, and whether a run was abandoned

labVars == <<file, supervisor, running, secret, cloud, runs, stripe, made, spent>>

Empty == [phase |-> "absent", vendor |-> Undefined, tunnel |-> Undefined, ui |-> Undefined,
          endpoint |-> Undefined, commit |-> Undefined, digest |-> Undefined]

\* "resume" is what deployStack may take over, "run" the awaited run, "ended"
\* its conclusion, "set" the change set to execute, "cloud" cloudMayExist,
\* "api" the deployed API, "started" the process the last step started.
Off == [at |-> "off", shutdown |-> FALSE, commit |-> Undefined, resume |-> {},
        run |-> Undefined, ended |-> Undefined, set |-> Undefined, cloud |-> FALSE,
        api |-> Undefined, errors |-> FALSE, started |-> Undefined]

DeploySteps   == {"checking", "boundary", "vendor", "tunnel", "stack", "preparing", "prepared",
                  "executing", "deployed", "endpoint", "stored", "hooked", "ui", "uiRecorded",
                  "active", "ending"}
TeardownSteps == {"cleanUi", "cleanEndpoint", "cleanParameter", "cleanRecord", "cleanCloud",
                  "destroying", "verifying", "cleanLocal", "closing"}

\* What is made is numbered: processes, runs, endpoints, secrets.  The commit
\* of a run is Undefined where the command that dispatched it has none.
Identifier     == Nat \cup {Undefined}
OptionalCommit == Commits \cup {Undefined}

OwnKinds     == {"vendor", "tunnel", "ui"}
OwnProcesses == [pid : Nat, kind : OwnKinds, port : Nat, api : Identifier]
Processes    == [pid : Nat, kind : OwnKinds \cup {"other"}, port : Nat, api : Identifier]

ChangeSets == [run : Nat, commit : OptionalCommit, url : Identifier, digest : Identifier]
Stacks     == [status : {"review", "busy", "complete", "failed"}, commit : OptionalCommit,
               url : Identifier, digest : Identifier, api : Identifier]
GitHubRuns == [id : Nat, operation : {"prepare", "execute", "destroy"},
               commit : OptionalCommit, url : Identifier,
               set : ChangeSets \cup {Undefined}, status : {"queued", "running"}]

Files == [phase : {"absent", "deploying", "activating", "active", "cleanup-required", "destroyed"},
          vendor : OwnProcesses \cup {Undefined}, tunnel : OwnProcesses \cup {Undefined},
          ui : OwnProcesses \cup {Undefined}, endpoint : Identifier,
          commit : OptionalCommit, digest : Identifier]

Supervisors == [at : DeploySteps \cup TeardownSteps \cup {"off"}, shutdown : BOOLEAN,
                commit : OptionalCommit, resume : SUBSET {"prepared", "deployed"},
                run : Identifier, ended : {"success", "failure", Undefined},
                set : ChangeSets \cup {Undefined}, cloud : BOOLEAN, api : Identifier,
                errors : BOOLEAN, started : OwnProcesses \cup {Undefined}]

Clouds == [stack : Stacks \cup {Undefined}, sets : SUBSET ChangeSets, artifacts : BOOLEAN,
           secret : Identifier]

Stripes == [endpoints : SUBSET Nat, parameter : Identifier]

Spendings == [deploys : Nat, deaths : Nat, lost : Nat, failures : Nat, abandoned : BOOLEAN]

ASSUME UndefinedIsNothingMade == Undefined \notin Processes \cup ChangeSets \cup Stacks

Stable == {"complete"}

LabInit ==
  /\ file = Empty
  /\ supervisor = Off
  /\ running = {}
  /\ secret = Undefined
  /\ cloud = [stack |-> Undefined, sets |-> {}, artifacts |-> FALSE, secret |-> Undefined]
  /\ runs = {}
  /\ stripe = [endpoints |-> {}, parameter |-> Undefined]
  /\ made = 0
  /\ spent = [deploys |-> 0, deaths |-> 0, lost |-> 0, failures |-> 0, abandoned |-> FALSE]

Fresh == made + 1

At(step)   == supervisor.at = step
GoTo(step) == supervisor' = [supervisor EXCEPT !.at = step]

\* Nobody waits any more for the runs that go on.
Abandoning(used) == [used EXCEPT !.abandoned = @ \/ runs # {}]

\* The command ends and gives the lock back.
Leave(used) == supervisor' = Off /\ spent' = Abandoning(used)

(***************************************************************************)
(* Local processes: what the file says of one, and what the system says.   *)
(***************************************************************************)
Observed(p)  == { r \in running : r.pid = p.pid }
Blocked(p)   == p # Undefined /\ \E r \in Observed(p) : r.kind # p.kind
Alive(p)     == p # Undefined /\ p \in running
TunnelAnswers(tunnel) ==
  Alive(tunnel) /\ \E v \in running : v.kind = "vendor" /\ v.port = tunnel.port

\* stopOwnedProcess, for processes that are not blocked.
Stopped(owned) == running \ owned

\* Replace processes by a new one.
Start(kind, port, api, instead, step) ==
  LET p == [pid |-> Fresh, kind |-> kind, port |-> port, api |-> api]
  IN /\ running' = Stopped(instead) \cup {p}
     /\ made' = Fresh
     /\ supervisor' = [supervisor EXCEPT !.at = step, !.started = p]

(***************************************************************************)
(* Deployment.                                                             *)
(***************************************************************************)
StartDeploy ==
  /\ At("off")
  /\ spent.deploys < MaxDeploys
  /\ spent' = [spent EXCEPT !.deploys = @ + 1]
  /\ GoTo("checking")
  /\ UNCHANGED <<file, running, secret, cloud, runs, stripe, made>>

\* The secret of an earlier deployment, or a new one.
LabSecret == IF secret = Undefined THEN Fresh ELSE secret

\* Identity, budget, commit, local secrets and GitHub's copy of them.
ChecksPass ==
  /\ At("checking")
  /\ \E c \in Commits : supervisor' = [supervisor EXCEPT !.at = "boundary", !.commit = c]
  /\ secret' = LabSecret
  /\ made' = IF secret = Undefined THEN Fresh ELSE made
  /\ cloud' = [cloud EXCEPT !.secret = secret']
  /\ UNCHANGED <<file, running, runs, stripe, spent>>

BoundaryReusable ==
  Alive(file.vendor) /\ TunnelAnswers(file.tunnel) /\ file.tunnel.port = file.vendor.port

CanResume ==
  /\ file.phase \in {"active", "deploying"}
  /\ file.commit = supervisor.commit
  /\ file.digest = secret

Deploying(tunnel) ==
  /\ file' = [file EXCEPT !.tunnel = tunnel, !.phase = "deploying",
                          !.commit = supervisor.commit, !.digest = secret]
  /\ supervisor' = [supervisor EXCEPT
       !.at = "stack",
       !.started = Undefined,
       !.cloud = cloud.stack # Undefined,
       !.resume = IF ~CanResume THEN {}
                  ELSE IF file.phase = "active" THEN {"prepared", "deployed"} ELSE {"prepared"}]

ReuseBoundary ==
  /\ At("boundary")
  /\ BoundaryReusable
  /\ Deploying(file.tunnel)
  /\ UNCHANGED <<running, secret, cloud, runs, stripe, made, spent>>

ReplaceBoundary ==
  /\ At("boundary")
  /\ ~BoundaryReusable
  /\ ~Blocked(file.vendor) /\ ~Blocked(file.tunnel)
  /\ Start("vendor", Fresh, Undefined, {file.vendor, file.tunnel}, "vendor")
  /\ UNCHANGED <<file, secret, cloud, runs, stripe, spent>>

NewestProcess == supervisor.started

\* Faulty variant: the vendor is recorded together with the tunnel.
VendorRecordLate == file' = file

VendorRecord == file' = [file EXCEPT !.vendor = NewestProcess, !.tunnel = Undefined]

StartTunnel ==
  /\ At("vendor")
  /\ VendorRecord
  /\ Start("tunnel", NewestProcess.port, Undefined, {}, "tunnel")
  /\ UNCHANGED <<secret, cloud, runs, stripe, spent>>

RecordTunnel ==
  /\ At("tunnel")
  /\ Deploying(NewestProcess)
  /\ UNCHANGED <<running, secret, cloud, runs, stripe, made, spent>>

(***************************************************************************)
(* deployStack and the GitHub runs.                                        *)
(***************************************************************************)
Url == file.tunnel.pid

StackIs(statuses) == cloud.stack # Undefined /\ cloud.stack.status \in statuses

SameDeployment(s) == s.commit = supervisor.commit /\ s.url = Url

PreparedSets == IF "prepared" \in supervisor.resume
                THEN { s \in cloud.sets : s.commit = supervisor.commit /\ s.url = Url } ELSE {}

\* A run of this operation that is still active is awaited instead of a new
\* one, whatever its inputs were.
Dispatch(operation, url, set, step) ==
  LET active == { r \in runs : /\ r.operation = operation
                               /\ r.commit = supervisor.commit \/ operation = "destroy" }
      new    == [id |-> Fresh, operation |-> operation, commit |-> supervisor.commit,
                 url |-> url, set |-> set, status |-> "queued"]
  IN \/ /\ active = {}
        /\ runs' = { r \in runs : r.status # "queued" } \cup {new}   \* a group keeps one pending
        /\ made' = Fresh
        /\ supervisor' = [supervisor EXCEPT !.at = step, !.run = Fresh, !.ended = Undefined]
     \/ \E r \in active :
          /\ supervisor' = [supervisor EXCEPT !.at = step, !.run = r.id, !.ended = Undefined]
          /\ UNCHANGED <<runs, made>>

AdoptPrepared ==
  /\ At("stack")
  /\ ~StackIs({"busy"})
  /\ \E s \in PreparedSets : supervisor' = [supervisor EXCEPT !.at = "prepared", !.set = s]
  /\ UNCHANGED <<file, running, secret, cloud, runs, stripe, made, spent>>

ReuseDeployed ==
  /\ At("stack")
  /\ PreparedSets = {}
  /\ "deployed" \in supervisor.resume
  /\ StackIs(Stable) /\ SameDeployment(cloud.stack)
  /\ supervisor' = [supervisor EXCEPT !.at = "deployed", !.cloud = TRUE,
                                      !.api = cloud.stack.api]
  /\ UNCHANGED <<file, running, secret, cloud, runs, stripe, made, spent>>

DispatchPrepare ==
  /\ At("stack")
  /\ PreparedSets = {}
  /\ ~StackIs({"busy", "failed"})
  /\ StackIs(Stable) /\ SameDeployment(cloud.stack) => "deployed" \notin supervisor.resume
  /\ Dispatch("prepare", Url, Undefined, "preparing")
  /\ UNCHANGED <<file, running, secret, cloud, stripe, spent>>

\* The prepared change set is found by the run's number and the commit.
PrepareSucceeded ==
  /\ At("preparing")
  /\ supervisor.ended = "success"
  /\ \E s \in cloud.sets :
       s.run = supervisor.run /\ supervisor' = [supervisor EXCEPT !.at = "prepared", !.set = s]
  /\ UNCHANGED <<file, running, secret, cloud, runs, stripe, made, spent>>

DispatchExecute ==
  /\ At("prepared")
  /\ ~supervisor.shutdown
  /\ Dispatch("execute", Undefined, supervisor.set, "executing")
  /\ UNCHANGED <<file, running, secret, cloud, stripe, spent>>

ExecuteSucceeded ==
  /\ At("executing")
  /\ supervisor.ended = "success"
  /\ StackIs(Stable)
  /\ supervisor' = [supervisor EXCEPT !.at = "deployed", !.cloud = TRUE,
                                      !.api = cloud.stack.api]
  /\ UNCHANGED <<file, running, secret, cloud, runs, stripe, made, spent>>

(***************************************************************************)
(* Activation.                                                             *)
(***************************************************************************)

\* The operator is created, endpoints the lab owned before are deleted, and
\* a new one is created.
CreateEndpoint ==
  /\ At("deployed")
  /\ ~supervisor.shutdown
  /\ file' = [file EXCEPT !.phase = "activating"]
  /\ stripe' = [stripe EXCEPT !.endpoints = {Fresh}]
  /\ made' = Fresh
  /\ \/ GoTo("endpoint") /\ UNCHANGED spent
     \/ /\ spent.failures < MaxFailures          \* Stripe's answer was lost
        /\ spent' = [spent EXCEPT !.failures = @ + 1, !.lost = @ + 1]
        /\ supervisor' = [supervisor EXCEPT !.at = "ending", !.shutdown = TRUE]
  /\ UNCHANGED <<running, secret, cloud, runs>>

\* Faulty variant: the secret is stored before the endpoint is recorded.
EndpointRecordLate == file' = file

EndpointRecord == file' = [file EXCEPT !.endpoint = made]

StoreSecret ==
  /\ At("endpoint")
  /\ EndpointRecord
  /\ stripe' = [stripe EXCEPT !.parameter = made]
  /\ GoTo("stored")
  /\ UNCHANGED <<running, secret, cloud, runs, made, spent>>

\* Faulty variant: the vendor comes back on a port of its own choice.
VendorPortAnew == Fresh

VendorPort == file.vendor.port

\* The vendor is started again, on its port, with the webhook's address.
RestartVendor ==
  /\ At("stored")
  /\ ~Blocked(file.vendor)
  /\ Start("vendor", VendorPort, supervisor.api, {file.vendor}, "hooked")
  /\ UNCHANGED <<file, secret, cloud, runs, stripe, spent>>

UiReusable == Alive(file.ui) /\ file.ui.api = supervisor.api

PortTaken == \E p \in running : p.kind = "ui" /\ p # file.ui

ReuseUi ==
  /\ At("hooked")
  /\ UiReusable
  /\ file' = [file EXCEPT !.vendor = NewestProcess]
  /\ supervisor' = [supervisor EXCEPT !.at = "uiRecorded", !.started = Undefined]
  /\ UNCHANGED <<running, secret, cloud, runs, stripe, made, spent>>

StartUi ==
  /\ At("hooked")
  /\ ~UiReusable /\ ~Blocked(file.ui) /\ ~PortTaken
  /\ file' = [file EXCEPT !.vendor = NewestProcess, !.ui = Undefined]
  /\ Start("ui", 0, supervisor.api, {file.ui}, "ui")
  /\ UNCHANGED <<secret, cloud, runs, stripe, spent>>

RecordUi ==
  /\ At("ui")
  /\ file' = [file EXCEPT !.ui = NewestProcess]
  /\ supervisor' = [supervisor EXCEPT !.at = "uiRecorded", !.started = Undefined]
  /\ UNCHANGED <<running, secret, cloud, runs, stripe, made, spent>>

Activate ==
  /\ At("uiRecorded")
  /\ Alive(file.ui)
  /\ file' = [file EXCEPT !.phase = "active"]
  /\ GoTo("active")
  /\ UNCHANGED <<running, secret, cloud, runs, stripe, made, spent>>

(***************************************************************************)
(* Failures and interrupts.                                                *)
(***************************************************************************)

\* What makes a step throw without any new failure.
CannotGoOn ==
  \/ At("boundary") /\ (Blocked(file.vendor) \/ Blocked(file.tunnel))
  \/ At("stack") /\ PreparedSets = {} /\ StackIs({"failed"})
  \/ At("preparing") /\ supervisor.ended # Undefined
       /\ (supervisor.ended = "success" => \A s \in cloud.sets : s.run # supervisor.run)
  \/ At("executing") /\ supervisor.ended # Undefined
       /\ (supervisor.ended = "success" => ~StackIs(Stable))
  \/ At("stored") /\ Blocked(file.vendor)
  \/ At("hooked") /\ ~UiReusable /\ (Blocked(file.ui) \/ PortTaken)
  \/ At("uiRecorded") /\ ~Alive(file.ui)

\* Which processes a failing step stops itself, and what it unrecords.
StepUndoes ==
  CASE supervisor.at \in {"vendor", "tunnel"} ->
         running' = Stopped({NewestProcess}) /\ UNCHANGED <<file, stripe>>
    [] At("hooked") /\ ~CannotGoOn ->        \* the vendor did not come back
         running' = Stopped({NewestProcess}) /\ UNCHANGED <<file, stripe>>
    [] At("hooked") /\ CannotGoOn ->
         file' = [file EXCEPT !.vendor = NewestProcess] /\ UNCHANGED <<running, stripe>>
    [] At("endpoint") ->                     \* it could not be recorded
         stripe' = [stripe EXCEPT !.endpoints = @ \ {made}] /\ UNCHANGED <<file, running>>
    [] At("uiRecorded") /\ ~Blocked(file.ui) ->
         /\ running' = Stopped({file.ui})
         /\ file' = [file EXCEPT !.ui = Undefined]
         /\ UNCHANGED stripe
    [] OTHER -> UNCHANGED <<file, running, stripe>>

StepFails ==
  /\ supervisor.at \in DeploySteps \ {"checking", "ui", "active", "ending"}
  /\ CannotGoOn \/ spent.failures < MaxFailures
  /\ spent' = Abandoning([spent EXCEPT !.failures = IF CannotGoOn THEN @ ELSE @ + 1])
  /\ supervisor' = [supervisor EXCEPT !.at = "ending", !.shutdown = TRUE, !.started = Undefined,
                                      !.cloud = @ \/ cloud.stack # Undefined]
  /\ StepUndoes
  /\ UNCHANGED <<secret, cloud, runs, made>>

\* Before the commit is known nothing is torn down.
ChecksFail ==
  /\ At("checking")
  /\ spent.failures < MaxFailures
  /\ Leave([spent EXCEPT !.failures = @ + 1])
  /\ UNCHANGED <<file, running, secret, cloud, runs, stripe, made>>

\* Ctrl+C, or cloud:destroy while a supervisor lives.
Interrupt ==
  /\ supervisor.at \in DeploySteps
  /\ ~supervisor.shutdown
  /\ supervisor' = [supervisor EXCEPT !.shutdown = TRUE]
  /\ UNCHANGED <<file, running, secret, cloud, runs, stripe, made, spent>>

StopDeploying ==
  /\ supervisor.at \in {"prepared", "deployed", "active"}
  /\ supervisor.shutdown
  /\ supervisor' = [supervisor EXCEPT !.at = "ending", !.cloud = TRUE]
  /\ UNCHANGED <<file, running, secret, cloud, runs, stripe, made, spent>>

SupervisorDies ==
  /\ ~At("off")
  /\ spent.deaths < MaxDeaths
  /\ Leave([spent EXCEPT !.deaths = @ + 1])
  /\ UNCHANGED <<file, running, secret, cloud, runs, stripe, made>>

(***************************************************************************)
(* Teardown, which cloud:destroy also starts by itself.                    *)
(***************************************************************************)
WorthTearingDown ==
  \/ supervisor.cloud
  \/ {file.vendor, file.tunnel, file.ui} # {Undefined}

EndDeploy ==
  /\ At("ending")
  /\ IF WorthTearingDown THEN GoTo("cleanUi") /\ UNCHANGED spent ELSE Leave(spent)
  /\ UNCHANGED <<file, running, secret, cloud, runs, stripe, made>>

StartDestroy ==
  /\ At("off")
  /\ \E c \in Commits : supervisor' = [Off EXCEPT !.at = "cleanUi", !.commit = c]
  /\ file # Empty                              \* bound: there was a deployment
  /\ UNCHANGED <<file, running, secret, cloud, runs, stripe, made, spent>>

CleanUi ==
  /\ At("cleanUi")
  /\ IF Blocked(file.ui)
     THEN /\ supervisor' = [supervisor EXCEPT !.at = "cleanEndpoint", !.errors = TRUE]
          /\ UNCHANGED <<file, running>>
     ELSE /\ GoTo("cleanEndpoint")
          /\ running' = Stopped({file.ui})
          /\ file' = [file EXCEPT !.ui = Undefined]
  /\ UNCHANGED <<secret, cloud, runs, stripe, made, spent>>

CleanEndpoint ==
  /\ At("cleanEndpoint")
  /\ IF file.endpoint = Undefined THEN GoTo("cleanCloud") ELSE GoTo("cleanParameter")
  /\ stripe' = [stripe EXCEPT !.endpoints = @ \ {file.endpoint}]
  /\ UNCHANGED <<file, running, secret, cloud, runs, made, spent>>

ParameterCleaned ==
  stripe' = [stripe EXCEPT !.parameter = Undefined] /\ UNCHANGED file

CleanParameter ==
  /\ At("cleanParameter")
  /\ ParameterCleaned
  /\ GoTo("cleanRecord")
  /\ UNCHANGED <<running, secret, cloud, runs, made, spent>>

CleanRecord ==
  /\ At("cleanRecord")
  /\ file' = [file EXCEPT !.endpoint = Undefined]
  /\ GoTo("cleanCloud")
  /\ UNCHANGED <<running, secret, cloud, runs, stripe, made, spent>>

\* Stripe or the parameter store refuses; the teardown goes on.
StripeCleanupFails ==
  /\ supervisor.at \in {"cleanEndpoint", "cleanParameter"}
  /\ file.endpoint # Undefined
  /\ spent.failures < MaxFailures
  /\ spent' = [spent EXCEPT !.failures = @ + 1]
  /\ supervisor' = [supervisor EXCEPT !.at = "cleanCloud", !.errors = TRUE]
  /\ UNCHANGED <<file, running, secret, cloud, runs, stripe, made>>

\* Faulty variant: only the stack counts.
StackIsGone == cloud.stack = Undefined

CloudIsGone == cloud.stack = Undefined /\ ~cloud.artifacts

CleanCloud ==
  /\ At("cleanCloud")
  /\ IF CloudIsGone
     THEN GoTo("verifying") /\ UNCHANGED <<runs, made>>
     ELSE Dispatch("destroy", Undefined, Undefined, "destroying")
  /\ UNCHANGED <<file, running, secret, cloud, stripe, spent>>

DestroySucceeded ==
  /\ At("destroying")
  /\ supervisor.ended = "success"
  /\ GoTo("verifying")
  /\ UNCHANGED <<file, running, secret, cloud, runs, stripe, made, spent>>

VerifyDestroyed ==
  /\ At("verifying")
  /\ CloudIsGone
  /\ GoTo("cleanLocal")
  /\ UNCHANGED <<file, running, secret, cloud, runs, stripe, made, spent>>

CleanLocal ==
  /\ At("cleanLocal")
  /\ ~Blocked(file.tunnel) /\ ~Blocked(file.vendor)
  /\ running' = Stopped({file.tunnel, file.vendor})
  /\ secret' = Undefined
  /\ GoTo("closing")
  /\ UNCHANGED <<file, cloud, runs, stripe, made, spent>>

CloseTeardown ==
  /\ At("closing")
  /\ file' = IF supervisor.errors
             THEN [Empty EXCEPT !.phase = "cleanup-required", !.ui = file.ui,
                                !.endpoint = file.endpoint]
             ELSE [Empty EXCEPT !.phase = "destroyed"]
  /\ Leave(spent)
  /\ UNCHANGED <<running, secret, cloud, runs, stripe, made>>

\* The command ends with the file as it is, for another attempt.
TeardownStuck ==
  \/ At("destroying") /\ supervisor.ended = "failure"
  \/ At("verifying") /\ ~CloudIsGone
  \/ At("cleanLocal") /\ (Blocked(file.tunnel) \/ Blocked(file.vendor))

TeardownFails ==
  /\ supervisor.at \in {"cleanCloud", "destroying", "verifying", "cleanLocal"}
  /\ TeardownStuck \/ spent.failures < MaxFailures
  /\ Leave([spent EXCEPT !.failures = IF TeardownStuck THEN @ ELSE @ + 1])
  /\ running' = IF At("cleanLocal") /\ ~Blocked(file.tunnel)
                THEN Stopped({file.tunnel}) ELSE running
  /\ UNCHANGED <<file, secret, cloud, runs, stripe, made>>

(***************************************************************************)
(* The surroundings: processes, GitHub, CloudFormation.                    *)
(***************************************************************************)

\* A process ends; its number may be given to a command of somebody else.
ProcessDies(p) ==
  /\ spent.failures < MaxFailures
  /\ spent' = [spent EXCEPT !.failures = @ + 1]
  /\ running' \in {running \ {p}, (running \ {p}) \cup {[p EXCEPT !.kind = "other"]}}
  /\ UNCHANGED <<file, supervisor, secret, cloud, runs, stripe, made>>

Conclude(r, outcome) ==
  /\ runs' = runs \ {r}
  /\ supervisor' = IF supervisor.run = r.id THEN [supervisor EXCEPT !.ended = outcome]
                   ELSE supervisor

\* A run refuses at its start what its script refuses.
Admitted(r) ==
  CASE r.operation = "prepare" ->
         /\ cloud.stack = Undefined \/ StackIs(Stable)
         /\ \E t \in running : t.pid = r.url /\ TunnelAnswers(t)
    [] r.operation = "execute" -> r.set \in cloud.sets /\ StackIs(Stable \cup {"review"})
    [] r.operation = "destroy" -> TRUE

\* Runs of the group are serialised.
RunStarts(r) ==
  /\ r.status = "queued"
  /\ \A other \in runs : other.status = "queued"
  /\ IF Admitted(r)
     THEN /\ runs' = (runs \ {r}) \cup {[r EXCEPT !.status = "running"]}
          /\ cloud' = IF r.operation = "execute" THEN [cloud EXCEPT !.stack.status = "busy"]
                      ELSE cloud
          /\ UNCHANGED supervisor
     ELSE Conclude(r, "failure") /\ UNCHANGED cloud
  /\ UNCHANGED <<file, running, secret, stripe, made, spent>>

NoStack == [status |-> "review", commit |-> Undefined, url |-> Undefined,
            digest |-> Undefined, api |-> Undefined]

Accomplished(r) ==
  CASE r.operation = "prepare" ->
         [cloud EXCEPT !.artifacts = TRUE,
                       !.stack = IF @ = Undefined THEN NoStack ELSE @,
                       !.sets = @ \cup {[run |-> r.id, commit |-> r.commit, url |-> r.url,
                                         digest |-> cloud.secret]}]
    [] r.operation = "execute" ->
         [cloud EXCEPT !.sets = {},
                       !.stack = [status |-> "complete", commit |-> r.set.commit,
                                  url |-> r.set.url, digest |-> r.set.digest,
                                  api |-> IF @.api = Undefined THEN r.id ELSE @.api]]
    [] r.operation = "destroy" ->
         [cloud EXCEPT !.stack = Undefined, !.sets = {}, !.artifacts = FALSE]

RunSucceeds(r) ==
  /\ r.status = "running"
  /\ cloud' = Accomplished(r)
  /\ Conclude(r, "success")
  /\ UNCHANGED <<file, running, secret, stripe, made, spent>>

\* A failed creation leaves a failed stack, a failed update rolls back, and
\* the smoke test may refuse what was deployed.
RunFails(r) ==
  /\ r.status = "running"
  /\ spent.failures < MaxFailures
  /\ spent' = [spent EXCEPT !.failures = @ + 1]
  /\ CASE r.operation = "prepare" -> cloud' = [cloud EXCEPT !.artifacts = TRUE]
       [] r.operation = "execute" ->
            cloud' \in {Accomplished(r),
                        [cloud EXCEPT !.stack.status =
                           IF cloud.stack.api = Undefined THEN "failed" ELSE "complete"]}
       [] r.operation = "destroy" -> cloud' = cloud
  /\ Conclude(r, "failure")
  /\ UNCHANGED <<file, running, secret, stripe, made>>

Deploy ==
  \/ StartDeploy \/ ChecksPass \/ ReuseBoundary \/ ReplaceBoundary \/ StartTunnel
  \/ RecordTunnel \/ AdoptPrepared \/ ReuseDeployed \/ DispatchPrepare \/ PrepareSucceeded
  \/ DispatchExecute \/ ExecuteSucceeded \/ CreateEndpoint \/ StoreSecret \/ RestartVendor
  \/ ReuseUi \/ StartUi \/ RecordUi \/ Activate
  \/ StepFails \/ ChecksFail \/ Interrupt \/ StopDeploying \/ SupervisorDies

Teardown ==
  \/ EndDeploy \/ StartDestroy \/ CleanUi \/ CleanEndpoint \/ CleanParameter \/ CleanRecord
  \/ StripeCleanupFails \/ CleanCloud \/ DestroySucceeded \/ VerifyDestroyed \/ CleanLocal
  \/ CloseTeardown \/ TeardownFails

LabNext ==
  \/ Deploy
  \/ Teardown
  \/ \E p \in running : ProcessDies(p)
  \/ \E r \in runs : RunStarts(r) \/ RunSucceeds(r) \/ RunFails(r)

LabSpec == LabInit /\ [][LabNext]_labVars

(***************************************************************************)
(* Properties.                                                             *)
(***************************************************************************)

\* Each variable has the shape the commands give it, the identifiers in use
\* were handed out, and a tunnel is recorded only beside the vendor it leads to.
LabTypeOK ==
  /\ file \in Files
  /\ supervisor \in Supervisors
  /\ running \subseteq Processes
  /\ secret \in Identifier
  /\ cloud \in Clouds
  /\ runs \subseteq GitHubRuns
  /\ stripe \in Stripes
  /\ made \in Nat
  /\ spent \in Spendings
  /\ file.tunnel # Undefined => file.vendor # Undefined
  /\ \A p \in running : p.pid \in 1..made
  /\ \A r \in runs : r.id \in 1..made
  /\ stripe.endpoints \subseteq 1..made
  /\ stripe.parameter \in {Undefined} \cup 1..made

Own(p) == p.kind # "other"

StrandedProcesses == { p \in running : Own(p) /\ p \notin {file.vendor, file.tunnel, file.ui} }
StrandedEndpoints == stripe.endpoints \ {file.endpoint}

\* When no command is at work, what the lab left running or registered is in
\* its file, where a later command finds it: a death of the supervisor, or an
\* answer of Stripe that was lost, strands at most one thing.
NothingStranded ==
  At("off") =>
    Cardinality(StrandedProcesses) + Cardinality(StrandedEndpoints)
      <= spent.deaths + spent.lost

\* A stored webhook secret is always covered by the record that makes a
\* later teardown delete it, wherever the supervisor dies.
SecretIsRecoverable == stripe.parameter # Undefined => file.endpoint # Undefined

\* Once the file says destroyed, nothing that costs money is left, unless a
\* command ended before a run it had started.
DestroyedMeansGone ==
  file.phase = "destroyed" /\ ~spent.abandoned =>
    cloud.stack = Undefined /\ cloud.sets = {} /\ ~cloud.artifacts

\* "PAYMENT LAB READY" is said of a lab whose parts belong together: the one
\* endpoint at Stripe is the one whose secret is stored, and the stack calls
\* this tunnel, verifies with this lab's secret, and is what the user interface
\* talks to -- whatever was resumed or reused, unless an abandoned run
\* changed the stack.
ActiveLabIsWhole ==
  At("active") /\ ~spent.abandoned =>
    /\ stripe.endpoints = {file.endpoint} /\ stripe.parameter = file.endpoint
    /\ StackIs(Stable)
    /\ cloud.stack.url = file.tunnel.pid /\ cloud.stack.digest = secret
    /\ file.tunnel.port = file.vendor.port
    /\ file.ui.api = cloud.stack.api /\ file.vendor.api = cloud.stack.api
=============================================================================
