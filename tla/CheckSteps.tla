---------------------------- MODULE CheckSteps -----------------------------
(***************************************************************************)
(* The five checks as data: the calls Check() makes, in order, and the     *)
(* objects its deferred cleanUpResources() deletes, in order.  Module      *)
(* Check executes them.                                                    *)
(***************************************************************************)
EXTENDS KubeApi, Sequences

\* CoreV1().Nodes().List, before the clean-up is deferred.
List      == [op |-> "list",   arg |-> "nodes"]
\* util.SleepContext.
Sleep     == [op |-> "sleep",  arg |-> "window"]
Create(o) == [op |-> "create", arg |-> o]
\* wait.PollUntilContextTimeout on a condition.
Await(w)  == [op |-> "wait",   arg |-> w]

Step == {List, Sleep} \cup {Create(o) : o \in Objects}
                      \cup {Await(w) : w \in Conditions}

\* CreateNamespace, CreateDeployment, CreateService and CreateIngress turn an
\* AlreadyExists answer into an Update; the cert-manager objects are created
\* with a plain client.Create, for which AlreadyExists is an error.
Upserts(o) == o \in {"namespace", "deployment", "service", "ingress"}

\* Mutant: every create function swallows its error.
AllCarryOn(o) == TRUE

\* CreateDeployment alone logs any other Create error and carries on.
CarriesOn(o) == o = "deployment"

\* Mutant: CreateDeployment updates with context.TODO() as well.
DeploymentUpdateDetached(o) == o \notin {"namespace", "deployment"}

\* CreateNamespace passes context.TODO() to Update; the others pass ctx.
UpdateHonoursContext(o) == o # "namespace"

\* PollUntilContextTimeout's "immediate" argument.
Immediate(w) == w \in {"caSecret", "certSecret", "metrics"}

\* Mutant: QueryMetrics is given a context of its own.
MetricsIgnoreContext(w) == w \notin {"dns", "http", "metrics"}

\* The conditions that hand ctx to the request they make: all but the DNS
\* exchange and the HTTP GET.
HonoursContext(w) == w \notin {"dns", "http"}

\* The conditions that answer (_, err) when their request fails, which ends
\* the poll; the others answer (false, nil) and are polled again.
AbortsOnError(w) == w \in {"pods", "address", "metrics"}

\* checkHTTP answers (_, err) too, when it cannot even make its request.
MayAbort(w) == AbortsOnError(w) \/ w = "http"

-----------------------------------------------------------------------------
(* The calls of Check() and of the createResources() inside it.  A name    *)
(* ending in Cleanup is the order of the check's cleanUpResources().       *)

ClusterAutoscalerCleanup == <<"deployment", "namespace">>

ClusterAutoscaler ==
    [steps |-> <<List, Create("namespace"), Create("deployment"), Await("pods")>>,
     undo  |-> ClusterAutoscalerCleanup]

IngressCleanup == <<"ingress", "service", "deployment", "namespace">>

Ingress(alb, noDnsCheck, noHTTPCheck) ==
    [steps |-> <<Create("namespace"), Create("deployment"), Await("pods"),
                 Create("service"), Create("ingress")>>
               \o (IF alb THEN <<Await("address")>> ELSE <<>>)
               \o (IF noDnsCheck THEN <<>> ELSE <<Await("dns")>>)
               \o (IF noHTTPCheck THEN <<>> ELSE <<Await("http")>>),
     undo  |-> IngressCleanup]

FluentCleanup == <<"deployment", "namespace">>

Fluent ==
    [steps |-> <<List, Create("namespace"), Create("deployment"), Await("pods"),
                 Await("s3")>>,
     undo  |-> FluentCleanup]

\* Mutant: the issuer is deleted before the certificate it issues.
IssuerDeletedFirst == <<"issuer", "certificate", "rootCA", "namespace">>

CertManagerCleanup == <<"certificate", "issuer", "rootCA", "namespace">>

CertManager ==
    [steps |-> <<Create("namespace"), Create("rootCA"), Await("caSecret"),
                 Create("issuer"), Create("certificate"), Await("certSecret")>>,
     undo  |-> CertManagerCleanup]

DatadogAgent ==
    [steps |-> <<Sleep, Await("metrics")>>,
     undo  |-> <<>>]
=============================================================================
