# kibertas in TLA+

kibertas is a command-line program that tests the components of a Kubernetes
cluster end to end: it creates a namespace with some objects in it, waits until
the cluster has reacted (pods run, a DNS record exists, logs arrive in S3, ...),
deletes what it created and reports to a Chatwork room. It runs by hand or as a
Job. This directory holds its models, the TLC runs that check them and the
proofs about them.

## 1. Inventory

| Component | Code | State | Operations |
|---|---|---|---|
| Resource helpers | `util/k8s/resources.go` | none of its own; the objects in the API server | `CreateNamespace`, `CreateDeployment`, `CreateService`, `CreateIngress` (create, update on AlreadyExists, two of them poll), `Delete*` |
| Five checks | `cmd/*/` | namespace and object names, `ReplicaCount`, `Debug` | `New*`, `Check`, `createResources`, `cleanUpResources`, the waits |
| Notifier | `util/notify/chatwork.go` | `Messages` (a `strings.Builder`), `Site` | `NewChatwork`, `AddMessage`, `Send` |
| Program | `main.go`, `cmd/checker.go` | flag variables, logger, context, one `Checker` and one `Chatwork` for everything | `initLogger`, cobra commands, `newSignalContext`, error path |
| `SleepContext` | `util/util.go` | none | a sleep that ends with the context |
| Clients | `config/config.go` | none | build Kubernetes and AWS clients |
| Deployment | `manifests/`, `Makefile`, `goreleaser.yaml` | - | Jobs, RBAC, release |

How they interact. `main` makes one logger, one `Chatwork` and one context, and
hands them to a check in a `Checker`. The check calls the resource helpers and
`PollUntilContextTimeout` with that context, adds messages to the `Chatwork`,
and has deferred, in this order, `Send` and the clean-up (so the clean-up runs
first). `test all` runs five checks one after the other on the same `Checker`.
One more goroutine waits for a signal, adds a message to the same `Chatwork`
and cancels the context. Everything else that moves is outside: the API server
and its controllers, DNS, the HTTP endpoint, S3, Datadog, Chatwork.

What is hard here, and what makes the components right:

* *Failure.* Any request may fail, be lost after it was applied, or be given up
  and applied later, when something else is in its place. What a check created
  must be deleted, or its room must hear that it was not; a check must not pass
  on objects it did not apply.
* *Time.* Each wait has a poll timer and a deadline that race each other and
  the cancellation. Some requests have neither a deadline nor the context.
* *Signals.* The handler cancels the context at any point of a check, and
  writes to the message buffer while the main goroutine does. After the
  cancellation nothing more may be created, the check must end and clean up.
* *The cluster changes.* Nodes and pods come and go while the
  cluster-autoscaler check reasons about how many there are.
* *One shared notifier.* Messages of all checks pass through one buffer that is
  read, posted and reset, whatever the answer of the room is.
* *What an answer proves.* A check concludes that a component works from a
  status, a listing, a DNS record, an HTTP 200 or a series of points, each of
  which is behind the thing it speaks of, or may be another's.
* *Kills and retries.* As a Job a check may be killed anywhere, and run again in
  a namespace with the remains of the attempt before.

`PROJECT.json` lists each hazard at its line with the properties that cover it.

## 2. Modules

| Module | Stands for | Checked and proved in |
|---|---|---|
| `KubeApi` | the API server, for the objects of one namespace (external) | `Check` |
| `CheckSteps` | the five checks as data: calls in order, clean-up in order, and how the calls differ from each other | `Check` |
| `Check` | one run of `Check()` with its deferred calls, the server, the signal and the poll timers | `MCCheck`, `CheckProofs`, `CheckContractProofs` |
| `CheckContract` | abstract specification: what a check promises to whoever runs it | `MCCheck`, `MCSession`, `CheckContractProofs` |
| `CheckRefinement` | the mapping under which `Check` implements `CheckContract` | `MCCheck`, `CheckContractProofs` |
| `Job` | `Check` as the pod of a Job: kills and retries in a fixed namespace | `MCJob`, `CheckContractProofs` |
| `Chatwork` | the message buffer and `Send` | `Session` |
| `Command` | one run of the program: flags, sub-commands, error path, signal goroutine | `MCCommand`, `CommandProofs` |
| `Session` | `Command` with `CheckContract` in the place of each check | `MCSession`, `CommandProofs` |
| `ScaleUp` | what the pass of the cluster-autoscaler check says of the cluster | `MCScaleUp`, `ScaleUpProofs` |
| `Rollout` | what `CreateDeployment` may conclude from the status it polls | `MCRollout`, `RolloutProofs` |
| `IngressPath` | what the ingress check concludes from DNS and HTTP | `MCIngressPath`, `IngressPathProofs` |
| `FluentLogs` | what the fluent check concludes from the log bucket | `MCFluentLogs`, `FluentLogsProofs` |
| `DatadogMetrics` | what the datadog-agent check concludes from its queries | `MCDatadogMetrics`, `DatadogProofs` |

The modules are composed in two directions. Downwards, `Check` has the course of
a check, and leaves the truth of each condition to the environment; `ScaleUp`,
`Rollout`, `IngressPath`, `FluentLogs` and `DatadogMetrics` each take one wait of
one check and model what its condition reads. Upwards, `Check` implements
`CheckContract`, and `Session` runs the program with that contract instead of the
checks; `Job` runs `Check` again and again.

### Check

The five checks run the same few kinds of call, so `Check` is an interpreter
and `CheckSteps` is its program. `conf` is one check with its settings:
`steps`, the calls of `Check()` and `createResources()`; `undo`, the deletions
of `cleanUpResources()`; `debug`; and `fresh`, whether the namespace has a new
random name or a fixed one in which something may have been left. `pc` and
`step` say where the main goroutine is.

| Code | Actions |
|---|---|
| `Nodes().List` | `ListNodes`, `ListNodesFails` (returns before the clean-up is deferred) |
| `SleepContext` | `SleepOver`, `SleepCancelled` |
| `Create*` of `resources.go`, `client.Create` | `CreateStored`, `CreateAlreadyExists`, `CreateFails`, `UpdateStored`, `UpdateFails` |
| `PollUntilContextTimeout` | `WaitBegin`, `Tick`, `TimerFires`, `WaitExpires` |
| a poll's condition | `ProbeTrue`, `ProbeFalse`, `ProbeFails` |
| `cleanUpResources`, `Send` | `SkipCleanup`, `DeleteNext`, `Send` |
| `newSignalContext` | `Interrupt` |
| the server, later | `LateArrive`, `LateUpdate`, `Finalize` |

`CreateFails` has three outcomes for the cluster: nothing was stored; the object
was stored and the answer lost; or the request was given up and is in
`inflight`, whatever is in its place when it is sent. `LateArrive` brings it to
the server at any time, even after the check; the server then stores the object,
if none of its name is there and its namespace is live, or refuses. An Update
that was given up is in `delayed` and may change what it finds (`LateUpdate`).
`revived` remembers which objects came to life by a late create after the
clean-up had sent their deletion. Time (`Tick`) passes in a slow condition also
past the deadline; a request with the poll's context ends there, the GET does not.

The differences between the helpers that matter are operators of
`CheckSteps`: who updates on AlreadyExists (`Upserts`), who swallows its error
(`CarriesOn`), whose Update ignores the context (`UpdateHonoursContext`), which
polls are immediate, which conditions use the poll's context, and which end the
poll on an error. Whether the condition is true is a choice of the environment,
limited by `Needs`: pods need a deployment, a certificate its issuer.

### CheckContract and Session

The contract has a verdict, what the check owns (`owned`), what of it is or may
become live (`loose`), what it has said it could not delete (`told`), and the objects of
requests it gave up that may yet arrive or came behind its clean-up (`astray`). Its
steps are those a caller can rely on: `Acquire` only before the verdict and, once
cancelled, only of the namespace (its Update has no context); `Decide` for "pass"
only with everything due; `Accounts`, that a check
which is over has told of all that is loose, unless it was to be kept (debug) or,
in a namespace that was used before, is astray. What is due is all that the check creates in a fresh
namespace, nothing in a reused one. The mapping is in `CheckRefinement`: `phase` and
`verdict` from `pc` and `result`, `loose` from the server and the requests on
their way, `told` from the deletions reported, `astray` from `inflight`, `delayed` and `revived`.

In `Session` the check of `Command`, between its first and its last message,
takes the steps of the contract (`Work`); `Says` and `Returns` are `CheckSays` and
`CheckReturns` with what the clean-up has to say and the outcome that `Check()`
returns. `Begin` takes the debug flag, and a used namespace for the fluent check only
(RESOURCE_NAMESPACE; the namespace of the others is new in this program). That Send is deferred before the clean-up,
and so runs after it, is `DeferredLast`. A check begun with a cancelled context
does not pass: `DoomedFails`, checked and proved of `Check`. `left` and `said`
remember, per check, what was loose at its return and what it told.

### Job

`Go(A)` is a step of `Check`. `Kill` ends the process where it is: requests on
their way stay in `inflight`. `Retry` starts the next pod with what is in the
namespace, as long as `backoffLimit` allows: five pods in all. `ran` remembers what
any attempt has applied. The instance is the fluent check: no other reads the name
of its namespace from its environment.

### Chatwork and Command

`AddMessage` is two steps, the load of the buffer and the store of the longer
one; a store that finds another writer in between overwrites it or leaves
mangled bytes, which are the outcomes of this data race. `Send` is four:
read, post, return or panic, and the deferred reset. `posted` is what the requests
made so far have contained, in order, and `room` what the room holds. A request is
answered with 200 (`Accepted`: the text is in the room), or with 401, 429, 500
(`Refused`: the status is logged and the text dropped; it goes to `refused`), or not
at all (`Unanswered`: `SendFails`, the panic). `Command` runs `initLogger` before
`Execute`, as `main` does, then each check of the sub-command as New, first
message, last message, outcome and Send; the course in between is module
`Check`. A check begun with a cancelled context fails (`doomed`). A constructor
fails in three ways: without Datadog keys before its message (`NoKeys`), without
clients after it (`NewFails`), and with the end of the process when `GetConfigOrDie`
finds no configuration (`NewDies`).

### ScaleUp

The nodes with the label, the deployment's pods and where they run, and
`Status.ReadyReplicas`, which `UpdateStatus` sets to the present count whenever
it runs. Required node affinity and required anti-affinity are `Schedulable`.
A node may lose its label and keep its pod (`IgnoredDuringExecution`) or go with
it; a pod may die and be scheduled elsewhere. It is the course in a namespace
of its own, which this check always has. A status "ready" is a pod that is
on a node: a pod that is there but not ready only makes the check wait longer.

### Rollout

| Code | Actions |
|---|---|
| `CreateDeployment`: Create | `CreateStored`, `CreateFails` (any other error: logged, and the poll begins) |
| its Update on AlreadyExists | `UpdateStored`, `UpdateFails` |
| its poll of `Status.ReadyReplicas` | `PodsReady`, `PollFails` |
| a create that was given up | `CreateArrives` |
| deployment, pods and status | `PodReady`, `PodGone`, `UpdateStatus`, `Gone` |

`found` is what an earlier run left: nothing, a deployment with the same template,
or with another one, with replicas, pods and a status of its own, and perhaps being
deleted (`dying`). The poll compares the status with the `replicas` of whatever
deployment is there. The status is written whenever the controller likes, with
the number of ready pods of all templates. `asked` remembers that the server has
stored the Spec of this check, `peak` the most pods that were ready at one time.

### IngressPath

| Code | Actions |
|---|---|
| `CreateIngress` and its wait for an address (ALB) | `CreateIngress`, `AddressAvailable` |
| `checkDNSRecord`, `checkHTTP` | `CheckDNSRecord`, `CheckHTTP` |
| ingress controller, external-dns, resolvers | `Reconcile`, `ExternalDNS`, `Refresh` |

The host name is fixed, so each thing may be the check's own, an earlier run's or a
stranger's (`foreign`): what answers under the name, the record, what a resolver
remembers. `before` is the world as the check finds it. external-dns replaces
records it has made itself and leaves those it has not; what is foreign stays as it
is throughout a check. The DNS check asks 8.8.8.8 and the HTTP client the local resolver.
With an ALB each ingress has its own address; the others share one.
HTTPCheckEndpoint goes past DNS with the host name in the Host header.

### FluentLogs

| Code | Actions |
|---|---|
| `NewFluent`: the prefix with the day | `NewFluent` |
| `checkS3Object`: start, listing, deadline | `Deployed`, `ListFinds`, `ListFindsNot`, `Expire` |
| pods, fluentd, time | `Log`, `Upload`, `Tick` |

Objects have a name, a writer, a day and an upload time. `Listed` is the first
page in the order of names. The day may change at any tick.

### DatadogMetrics

| Code | Actions |
|---|---|
| `Check`, `SleepContext` | `Begin`, `SleepOver`, which fixes the window |
| the poll's condition | `Query(a)` for each answer, decided by `Condition` |
| its deadline | `Expire` |
| agents, ingestion, time | `StartOrStop`, `Ingest`, `Minute` |

`KeysUsed` is what `client.go` makes of the client's own keys and those of the
environment. `scoped` says whether the query names the cluster.

## 3. Runs

| Run | Shows |
|---|---|
| `check_safety` | in every check, with every setting: `LeakIsReported`, `PassMeansApplied`, `ReverseTeardown`, `NoApplyAfterCancel`; and `KeepsContract`: each implements `CheckContract` |
| `check_liveness` | `HangsOnlyInRequests`: a check ends unless it is stuck in one request that is never answered; `CleansUp`: without a reported deletion error everything disappears; `DoomedFails`: a check begun after the signal fails, and creates and updates nothing |
| `session` | the program with its checks: `LeaksReachTheRoom`, `ExitZeroMeansDone`, `ExitTellsOutcome`, `ExitIsTold`, `PostedInOrder`, `RarelyTwice` |
| `job` | `JobPassMeansApplied`; `JobLeakIsReported`: a clean-up leaves nothing live in silence, of no attempt, but what a late request revives; `LastAttemptCleansUp`: the last clean-up also removes what killed attempts left |
| `scale_up` | `PassMeansScaledUp` and the spread of the pods, `Scheduling` |
| `rollout` | `PassMeansPodsRan`: as many pods as the deployment polled has replicas, and at least one, were ready together; whose pods, and whose number |
| `ingress_path` | `PassMeansReached`: what a pass rests on, among the check's own, an earlier run's and a stranger's |
| `fluent_logs` | `PassMeansShipped`; `TimeoutMeansMisplaced`: a timeout with logs in the bucket has two reasons only |
| `datadog_metrics` | `PassMeansAlive`, `TimeoutMeansSilence`, `OwnKeysPrevail` |

Three runs show a place where the repository says one thing and the program
does another; `PROJECT.json` "findings" quotes the lines.

| Run | Said | Done |
|---|---|---|
| `check_signal` | main.go:236 "Exiting..." | the GET of the ingress check has no context |
| `check_reused` | resources.go:32, Create stands in for Apply | CreateDeployment passes on the leftover of an earlier run after a failed Create |
| `command_send` | chatwork.go:44, errors are only logged | the nil response is dereferenced |

Others were met on the way. They can be read off the models and have no run of
their own:

* main.go:196 calls `--timeout` the check's timeout; every wait has it to itself
  (`WaitBegin` sets `left` to `Timeout`), and a GET may outlast it.
* fluent.go:43 allows a fixed namespace. There a check can leave an object and say
  nothing: a create is given up over a leftover, the leftover is deleted, the
  deletion of the namespace fails or comes after it, or the next run makes the
  namespace again, and the create arrives. `LeakIsReported`, `ReverseTeardown`, the
  contract and `JobLeakIsReported` leave out exactly the objects this happened to
  (`Astray`).
* chatwork.go:77 logs the status of an answer and looks no further: after a 401, 429
  or 500 the text is dropped (line 46), and the program may exit with 0 although the
  room heard nothing. `ExitIsTold` and `LeaksReachTheRoom` count such messages as
  `refused`, not as told.
* main.go:235 takes one signal; `signal.Notify` swallows those that follow.
* main.go:198, `--log-level`: the logger is made before the flags are parsed
  (`InitLogger` before `Execute`), and has the default level always.
* main.go:212 "to skip the dns check, please specify false": true skips (`SkipsDns`).
* chatwork_test.go:60 sets `Site`; `Send` never reads it, and posts to a fixed host (`Post`
  has no target).
* resources.go:98 "All Pods are ready": after the Update of a deployment with
  another template the ready pods may be the old ones; after a Create that failed
  they may be fewer than the check asked for, those of the leftover.
  `PassMeansPodsRan` says what is left in each case.
* ingress.go:329 "the service endpoint": any server that answers 200 under the
  host name, and any A record. `PassMeansReached` says which others there can be.
* The default query of the datadog-agent check, and a LOG_PATH of the fluent check,
  accept what other clusters or namespaces produce: `PassMeansAlive` and
  `PassMeansShipped` say what is left.

Some properties need a word. `PassMeansApplied` is about a fresh
namespace: there CreateDeployment's swallowed error does no harm, because
the wait for its pods ends with an error when there is no deployment (`pods`
needs one, and nobody else creates it). In a reused namespace this argument
fails, which is `check_reused`; `JobPassMeansApplied` is what remains of it when
the earlier runs are attempts of the same Job. `LeakIsReported` leaves
"terminating" objects out (their deletion was accepted) and debug mode, which
deletes nothing; in a fresh namespace it has no other exception, since there a create
that is still on its way had nothing to collide with, so that the deletion of its
object failed and was reported. `LeaksReachTheRoom` speaks of runs without a signal: with one,
the race on the buffer may lose any message.

### Bounds, and why they are enough

* `check_safety`: `Timeout = 2` ticks of one polling interval. With 1 no wait that
  is not immediate could succeed (the timer would fire at the deadline); with 2
  there is a poll before the deadline, one that starts before and ends after it,
  and the race at the deadline. A longer wait repeats the loop in the same state.
  `Timeout` is a parameter in the proofs.
* `Confs` is not a bound but the program: the five checks, debug or not; ingress
  with an ALB or not, with and without its DNS and HTTP checks; for `fluent`
  and `ingress`, whose namespace can be fixed by RESOURCE_NAMESPACE or by the
  caller, every prefix of an earlier run as leftover, in a namespace that is
  live or terminating. The context may be cancelled from the start: `test all`
  begins its next check with whatever context it has.
* One signal: the handler takes only one. One abandoned request per object: an
  object is created once.
* `check_liveness` and `check_signal` take the fresh, non-debug settings of all
  checks; debug adds a shorter path, leftovers only other starting points.
* `session` runs `test all` with its five checks and one command of one check,
  debug or not. One object per check is enough for one to be left and not told; two
  messages for a check are enough to see order, loss and duplication. Its
  `CONSTRAINT` `SignalOrIncident` cuts off runs in which a signal comes and something
  is left, told or refused as well: `LeaksReachTheRoom` and `ExitIsTold` speak of runs
  without a signal only, and those about runs with one read none of these variables.
  In the proofs there is no such bound.
* `job`: `BackoffLimit = 4`, as in the manifest.
* `scale_up` has three nodes, interchangeable, any of them labelled at first.
* `rollout`: 0, 2, 3 and 6 nodes, for one, two and three replicas, and the edge
  where the division steps. Leftovers have the replicas, pods and status that an
  earlier run with any of these node counts may have had.
* `ingress_path` has no bound: settings, owners and resolvers are finite.
* `fluent_logs`: two names and a page of one, so that a prefix may outgrow its
  page and an object may be before or after another in it; three ticks, so that a
  wait lists before, at and after an upload; a wait that begins at tick 1 or 2 (`LastWait`).
* `datadog_metrics`: two agents, the cluster's and another's; a timeout of two
  minutes, points that come up to two minutes late; a check that begins at minute 0 or 1
  (`LastStart`), so that points may be older than the check. Three logins: good keys in
  the client and bad ones in the environment, the reverse, and a client that lacks one
  key where the environment has both.
  The theorems about these last modules, and about `ScaleUp`, cover any number.

### Fairness

`FairSpec` assumes weak fairness of the main goroutine's own steps, of time (`Tick`)
and of the removal of terminating objects. It assumes nothing of a request without
a deadline while it is on its way, which is `MayHang`: `Nodes().List`, the creates
and the updates carry `Checker.Ctx` and end when that is cancelled, not before;
the Update of a namespace and all deletions are sent with `context.TODO()`, the GET of
`checkHTTP` and the POST of `Send` with no context, and end only when they are
answered (`config.go` sets no timeout on a client). Requests of a poll carry the
poll's context and end with it, and a DNS exchange has a timeout of its own. So
`HangsOnlyInRequests` says that nothing else keeps a check from ending: no wait, no
sleep, and no endless sequence of polls, retries or deletions; and that it can be
stuck in one request only, the last. That a due timer and a deadline are ready
together does no harm: `PollUntilContextTimeout` looks at the context before it calls
the condition (`TimerFires`). Nothing is assumed of signals or of abandoned requests.
That terminating objects go assumes that no finalizer is stuck.

`JobSpec` assumes only that last one, of `Finalize`: `LastAttemptCleansUp` begins when
the Job is over. The other runs check safety and assume nothing.

## 4. Proofs

Checked by tlapm with SMT (Z3), Zenon and LS4, for every value of the constants
that satisfies the named assumptions.

**`CheckProofs`**, from `TimeoutAssumption` and `ConfsAssumption`. The latter
says what every check of this program has in common: it lists nodes first if at
all, creates each object at most once, and its clean-up deletes everything it
creates. TLC evaluates it for the real checks.

* `TypeCorrect`: `Spec => []TypeOK`, from `Typed`, which adds what the
  interpreter needs of `conf`.
* `LeaksAreReported`: `Spec => []LeakIsReported`. The property speaks of the end
  of a check and is not inductive. `IInv` adds what holds on the way:
  `OnlyOwnObjects` (what was applied, or is on its way, is an object of a call made
  so far, so the clean-up will come to it); `Swept` (of what the clean-up has visited
  nothing is live that is neither reported nor came back behind it); and, of a fresh
  namespace, `FreshKnown`: all there is was applied by this check, an abandoned
  create has nothing in its place (`InflightAbsent`), and so its deletion finds nothing
  and is reported (`FreshSwept`), before it arrives or after (`FreshRevived`). The
  last is why the exception `Astray` needs a used namespace: deleting an object that
  is not there is an error too.
* `CancelStopsRequests`: the action property `NoApplyAfterCancel`, action by action
  from the type invariant.

**`CheckContractProofs`**, from the same and `DeploymentAssumption`: the call after
the create of a deployment waits for its pods, as `CreateDeployment` does.

* `PassesAreEarned`: `Spec => []PassMeansApplied`. `Earned` adds `NothingForeign` (in
  a fresh namespace whatever exists or existed was applied by this check) and
  `EarnedSoFar`: every call made so far has applied its object, except a deployment
  whose create failed and whose pods are being waited for. That exception is why
  the property is not inductive: the wait that follows closes it.
* `TeardownIsReversed`: `ReverseTeardown`, under the hypothesis `UndoReverses` that
  the clean-up's list reverses the creates, from `Swept`.
* `ChecksKeepTheContract`: `Spec => KeepsContract`. Each action of `Check` is a step
  of `CheckContract` or a stutter under `CheckRefinement`, given `IInv /\ Earned`: the
  pass needs the latter, `Accounts` the former (lemma `Accounting`).

* `DoomedChecksFail`: `Spec => DoomedFails`, under the hypothesis `Heeds` that some call of
  each check is neither the sleep nor the DNS or HTTP wait. A check whose context was
  cancelled gets past those three, and past the create of its deployment, which is
  not sent (`Passable`); `DoomedInv` says that it got past nothing else, and it cannot
  get past all, since the wait for the pods follows that create.
* `JobsAreTyped`, `JobPassesAreEarned`: `JobTypeOK` and `JobPassMeansApplied`. The
  lemmas of `PassesAreEarned` speak of any set that holds all there is and all that is
  applied; with `ran` for this set they serve the Job, whose namespace is not fresh.
* `JobLeaksAreReported`: `JobLeakIsReported`, for every check; an attempt whose node list
  failed has no clean-up (`CleanUpRan`). `Swept` carries over from `Check`, and
  `JobOwns` says that all there is, or is on its way, is of some attempt, and so is
  on the list of each.

**`CommandProofs`**, from `CommandsAssumption` (a sub-command runs at least one check, and
none twice) and `LinesAssumption`.

* `ExitCodeTells`: `Spec => []ExitTellsOutcome`. `CommandInv` counts the checks that
  returned nil by where the program is (`PassedSoFar`), and knows that a pending
  outcome is always one of three.
* `SessionsAreRuns`: a run of `Session` is a run of `Command`.
* `ExitZeroIsEarned`: `ExitZeroMeansDone`, for any set of objects. `SessionInv` carries the
  contract from the verdict and the clean-up to the return of the check.
* `CommandTyped`, `SessionTyped`: type correctness of `Command` and of `Session`.
* `NothingIsLost`: `Spec => []PostedInOrder`. `OrderInv` adds what the main goroutine
  has loaded (the buffer as it is: nobody else writes before a signal) and what Send is
  posting. `WriterInv` says who may be in `AddMessage`, and with which message;
  `AddedInv` that nothing is said twice, for which a command must not hold a check twice.
* `EveryExitIsTold`: `ExitIsTold`, from `OrderInv`, `RoomInv` (what was in a request is in
  the room or was refused, and in the room in order if nothing was refused) and
  `FatalInv` (on its way to exit 1 main has added its error last). `LeaksAreTold`:
  `LeaksReachTheRoom`, from these, `SessionInv` (all that was left is among what was
  said, since the contract accounts for it) and `EndsSaid` (a check that has returned
  has added its last message); that nothing of it is still in the buffer at the
  exit needs `NothingEnded`: the buffer of an unfinished check holds no end.
* `NoMessageThrice`: `Spec => []RarelyTwice`, signal or not. `TracedInv` follows one message
  through the buffer, the two loads, the body of Send and the requests. Until the handler
  stores (`Early`), what was posted is kept nowhere but in the handler's load, so that it
  is posted once. The store may put it back (`Kept`) once, and the Send that posts it
  again leaves nothing of it behind.

**`ScaleUpProofs`**, from `NodesAssumption`.

* `PassProvesScaleUp`: `Spec => []PassMeansScaledUp`. `IInv` (in `ScaleUp`) says
  that running pods are on different nodes, each listed or joined since, and that a
  status which counts every pod was written after a node joined. The step that
  needs it is `UpdateStatus`: if no node had joined, `n + 1` pods would be on the
  `n` listed nodes, one each, which the pigeonhole lemma refutes.
* `TypeCorrect` and `PodsAreSpread` are parts of the same invariant.

**`RolloutProofs`**, from `NodeCountsAssumption`. `PassProvesPods`: the status never says
more than the most pods that were ready at once (`StatusOfPods`), the most own pods
where none of another template was found (`StatusOfOwnPods`); the number it is compared
with is the check's own once its Spec was stored, and a leftover's otherwise
(`AskedFor`); and it is never 0. `TypeCorrect`.

**`IngressPathProofs`**, from `SettingsAssumption`. `PassProvesPath`: in the cluster and in
DNS nothing leads to a server that was not there before, but the check's own
(`Servers`, `Names`), and to that only once its record was published; what was waited
for stays (`Progress`), and so it is what satisfied the waits (`Resolution`, `Service`).
`TypeCorrect`.

**`FluentLogsProofs`**, from `LogsAssumption`. `PassProvesShipping`: in a namespace of
its own there is no log of an earlier run, in a chunk or in the bucket
(`NoEarlierLogs`); the rest is what the listing found. `TimeoutIsExplained`: `Spec =>
[]TimeoutMeansMisplaced`. `WaitInv` says that a log of the day which a listing since
its upload has missed is behind a full page (`MissedIsBeyond`; `BeyondThePage` counts
the keys). `TypeCorrect`.

**`DatadogProofs`**, from `MetricsAssumption` and `LoginsAssumption`.

* `PassProvesLife`: the window lies within the sleep (`WindowFixed`), so that what is
  found in it was reported during the sleep.
* `TimeoutProvesSilence`: points are indexed within the delay (`Indexed`), and as long
  as the check polls, all queries so far were in vain (`InVain`), which says of
  every own point in the window that it came after the last query.
* `KeysDecide`, `TypeCorrect`.

**Only model-checked:** the liveness properties `HangsOnlyInRequests`, `CleansUp` and
`LastAttemptCleansUp`, and everything about ENABLED and fairness (out of the prover's
reach). Of the last two the safety half is proved: `LeakIsReported` and
`JobLeakIsReported` say that nothing unreported is live at the end, and what is not live
only has to be finalized. That the composition of `Session` with `Check` in the place of
`CheckContract` has no other runs follows from `ChecksKeepTheContract` and `DoomedChecksFail`;
the composition itself is not written out.

## 5. Not modelled

* The payload of the objects (images, labels, probes, the certificate's names),
  except the replica counts, the affinities in `ScaleUp`, and the host in `IngressPath`.
* Logging, wording of messages, random names (a random name is a fresh
  namespace). `config.go` keeps no state: its failures are `NewFails` and `NewDies`.
* Certificates: whether a secret is there is a choice of the environment, and
  with a fresh namespace nobody else can have made it.
* `Send` when the request cannot even be built (an impossible room id): it
  panics as after a failed POST, but no request is made.
* The data race of the message buffer beyond lost and mangled bytes.
* RBAC, Makefile, release and CI; help output; helpers of
  the end-to-end tests.

## 6. Plan

Written: everything in section 2. What could still be added:

1. `Poll`: an abstract wait (pending, then true, failed or expired, within its
   time) that the four actions of `PollUntilContextTimeout` implement, to replace the
   waits of `ScaleUp`, `Rollout`, `IngressPath`, `FluentLogs` and `DatadogMetrics` by one.
2. Two runs at a time in one fixed namespace: two instances of `Check` on one server.
3. `Session` with `Check` itself in the place of `CheckContract`, and the theorem that it
   implements `Session`: `ChecksKeepTheContract` for each check in turn.
