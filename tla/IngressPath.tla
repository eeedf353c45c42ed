---------------------------- MODULE IngressPath ----------------------------
(***************************************************************************)
(* What the ingress check concludes from DNS and HTTP.  Its ingress asks   *)
(* for one host name, EXTERNAL_HOSTNAME, which is the same in every run:   *)
(* an earlier run may have left an ingress, a DNS record, or only the      *)
(* answers that resolvers remember, and somebody else may have a record or *)
(* a server under the name.  The ingress controller, external-dns and the  *)
(* resolvers each follow what is before them, late.                        *)
(***************************************************************************)
EXTENDS Naturals

CONSTANT Settings   \* [alb, noDnsCheck, noHTTPCheck, endpoint]

\* alb: the class gives each ingress a load balancer; the others share one.
\* endpoint: HTTPCheckEndpoint is set, to the address of the shared one.
ASSUME SettingsAssumption ==
    /\ Settings \subseteq [alb : BOOLEAN, noDnsCheck : BOOLEAN,
                           noHTTPCheck : BOOLEAN, endpoint : BOOLEAN]
    /\ \A s \in Settings : s.endpoint => ~s.alb

\* Who may have a record and a server under the host name, and resolvers: the
\* one checkDNSRecord asks, and the one http.DefaultClient asks.
Owners    == {"earlier", "foreign", "own"}
Resolvers == {"8.8.8.8", "local"}
Nobody    == "nobody"

VARIABLES
    setting,      \* of this check
    before,       \* history: the world as the check found it
    phase,        \* of the check: before its ingress, the wait it is in, the end
    ingresses,    \* the ingresses of kibertas with this host in the API server
    routed,       \* who answers under the name, behind the controller's load
                  \*   balancer or, if it is foreign, elsewhere
    record,       \* whose address the DNS zone holds
    answers,      \* what each resolver answers
    published,    \* history: the zone has held the address of this check
    resolved,     \* history: whose address satisfied the DNS wait
    servedBy      \* history: whose answer satisfied the HTTP wait

check == <<phase, resolved, servedBy>>
world == <<ingresses, routed, record, answers, published>>
vars  == <<setting, before, check, world>>

Init ==
    /\ setting \in Settings
    /\ phase = "create" /\ resolved = Nobody /\ servedBy = Nobody
    /\ ingresses \in SUBSET {"earlier"} /\ routed \in SUBSET {"earlier", "foreign"}
    /\ record \in {Nobody, "earlier", "foreign"}
    /\ answers \in [Resolvers -> {Nobody, "earlier", "foreign"}]
    /\ published = FALSE
    /\ before = [ingresses |-> ingresses, routed |-> routed,
                 record |-> record, answers |-> answers]

-----------------------------------------------------------------------------
(* The check, from CreateIngress on.                                       *)

AfterDns     == IF setting.noHTTPCheck THEN "passed" ELSE "http"
AfterIngress == IF setting.noDnsCheck THEN AfterDns ELSE "dns"

CreateIngress ==
    /\ phase = "create"
    /\ ingresses' = ingresses \cup {"own"}
    /\ phase' = IF setting.alb THEN "address" ELSE AfterIngress
    /\ UNCHANGED <<setting, before, resolved, servedBy, routed, record, answers, published>>

AddressAvailable ==
    /\ phase = "address"
    /\ "own" \in routed
    /\ phase' = AfterIngress
    /\ UNCHANGED <<setting, before, resolved, servedBy, world>>

\* Mutant: an empty answer counts as well.
RecordUnchecked ==
    /\ phase = "dns"
    /\ phase' = AfterDns
    /\ resolved' = answers["8.8.8.8"]
    /\ UNCHANGED <<setting, before, servedBy, world>>

\* An A record, whatever it says.
CheckDNSRecord ==
    /\ phase = "dns"
    /\ answers["8.8.8.8"] # Nobody
    /\ phase' = AfterDns
    /\ resolved' = answers["8.8.8.8"]
    /\ UNCHANGED <<setting, before, servedBy, world>>

\* Who may answer at the load balancer that o's address leads to: behind a
\* shared one, any ingress with the Host of the request.
Reached(o) == IF setting.alb THEN routed \cap {o} ELSE routed

\* Mutant: the request has the endpoint for its Host, and gets the default
\* site of the controller.
HostForgotten ==
    IF setting.endpoint THEN {"default"}
    ELSE IF answers["local"] = Nobody THEN {} ELSE Reached(answers["local"])

\* Who may answer 200 to a GET of the endpoint with Host: ExternalHostname.
Respondents ==
    IF setting.endpoint THEN routed
    ELSE IF answers["local"] = Nobody THEN {} ELSE Reached(answers["local"])

CheckHTTP ==
    /\ phase = "http"
    /\ servedBy' \in Respondents
    /\ phase' = "passed"
    /\ UNCHANGED <<setting, before, resolved, world>>

Fails ==
    /\ phase \in {"create", "address", "dns", "http"}
    /\ phase' = "failed"
    /\ UNCHANGED <<setting, before, resolved, servedBy, world>>

Over == phase \in {"passed", "failed"}

-----------------------------------------------------------------------------
(* The cluster and DNS.                                                    *)

\* The clean-up of an earlier run, late.
EarlierDeleted ==
    /\ ~Over
    /\ "earlier" \in ingresses
    /\ ingresses' = ingresses \ {"earlier"}
    /\ UNCHANGED <<setting, before, check, routed, record, answers, published>>

\* The controller follows the ingresses one by one.  What is foreign stays.
Reconcile(o) ==
    /\ ~Over
    /\ o # "foreign"
    /\ routed' = IF o \in ingresses THEN routed \cup {o} ELSE routed \ {o}
    /\ UNCHANGED <<setting, before, check, ingresses, record, answers, published>>

\* external-dns leaves a record that is foreign or whose ingress is there, and
\* replaces the others.
ExternalDNS ==
    /\ ~Over
    /\ record \notin ingresses \cup {"foreign"}
    /\ record' \in IF ingresses \cap routed = {} THEN {Nobody} ELSE ingresses \cap routed
    /\ published' = (published \/ record' = "own")
    /\ UNCHANGED <<setting, before, check, ingresses, routed, answers>>

\* What a resolver remembers expires.
Refresh(r) ==
    /\ ~Over
    /\ answers' = [answers EXCEPT ![r] = record]
    /\ UNCHANGED <<setting, before, check, ingresses, routed, record, published>>

Done == Over /\ UNCHANGED vars

Next == \/ CreateIngress \/ AddressAvailable \/ CheckDNSRecord \/ CheckHTTP \/ Fails
        \/ EarlierDeleted \/ ExternalDNS \/ Done
        \/ \E o \in Owners : Reconcile(o)
        \/ \E r \in Resolvers : Refresh(r)

Spec == Init /\ [][Next]_vars

-----------------------------------------------------------------------------
TypeOK ==
    /\ setting \in Settings /\ published \in BOOLEAN
    /\ phase \in {"create", "address", "dns", "http", "passed", "failed"}
    /\ ingresses \subseteq Owners /\ routed \subseteq Owners
    /\ record \in Owners \cup {Nobody}
    /\ answers \in [Resolvers -> Owners \cup {Nobody}]
    /\ resolved \in Owners \cup {Nobody} /\ servedBy \in Owners \cup {Nobody}

(***************************************************************************)
(* What a pass of the ingress check rests on, through the caches of two    *)
(* resolvers and controllers that lag behind each other.  The DNS check    *)
(* accepts a stranger's or an earlier run's address only if the zone, the  *)
(* cache of 8.8.8.8 or an earlier ingress had it before.  The HTTP check   *)
(* sees through what DNS remembers: it accepts another server only if one  *)
(* was there before.  Where each ingress has its own load balancer, an     *)
(* answer of its own says that its record was published, even if DNS was   *)
(* not checked, and the load balancer is there even if nothing was.        *)
(***************************************************************************)
PassMeansReached ==
    phase = "passed" =>
        /\ ~setting.noDnsCheck =>
              /\ resolved \in {"own", before.record, before.answers["8.8.8.8"]}
                              \cup before.ingresses
              /\ resolved # Nobody /\ (resolved = "own" => published)
        /\ ~setting.noHTTPCheck =>
              /\ servedBy \in {"own"} \cup before.routed \cup before.ingresses
              /\ setting.alb /\ servedBy = "own" => published
        /\ setting.alb => "own" \in routed
=============================================================================
