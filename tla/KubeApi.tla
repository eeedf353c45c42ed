------------------------------ MODULE KubeApi ------------------------------
(***************************************************************************)
(* What kibertas can observe of the Kubernetes API server, for the objects *)
(* of one test namespace.  The server is not part of the repository: it is *)
(* modelled from the calls util/k8s/resources.go and                       *)
(* cmd/cert-manager/cert-manager.go make and the answers they distinguish. *)
(***************************************************************************)
EXTENDS Naturals

\* The objects a check may own: a namespace and what it puts inside.
Objects == {"namespace", "deployment", "service", "ingress",
            "rootCA", "issuer", "certificate"}

ObjectState == {"absent", "live", "terminating"}

\* The conditions a check waits for.
Conditions == {"pods", "address", "dns", "http", "s3",
               "caSecret", "certSecret", "metrics"}

NothingThere == [o \in Objects |-> "absent"]

\* The server stores a new object only if none of that name is there and,
\* for a namespaced object, its namespace exists and is not being deleted.
Admits(objs, o) ==
    /\ objs[o] = "absent"
    /\ o # "namespace" => objs["namespace"] = "live"

Stored(objs, o) == [objs EXCEPT ![o] = "live"]

\* Deletion is asynchronous: foreground propagation, finalizers and the
\* namespace controller leave the object terminating for a while.
Deleted(objs, o) == [objs EXCEPT ![o] = "terminating"]

\* A terminating object goes; a terminating namespace takes its content with it.
Finalized(objs, o) ==
    IF o = "namespace" THEN NothingThere ELSE [objs EXCEPT ![o] = "absent"]

\* What must be there before a controller of the cluster can bring a condition
\* about.  DNS, HTTP, S3 and Datadog answer from outside the API server: a
\* record or a backend of an earlier run may already satisfy them.
Needs(w) ==
    CASE w = "pods"       -> {"deployment"}
      [] w = "address"    -> {"ingress"}
      [] w = "caSecret"   -> {"rootCA"}
      [] w = "certSecret" -> {"rootCA", "issuer", "certificate"}
      [] OTHER            -> {}
=============================================================================
