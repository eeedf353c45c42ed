------------------------- MODULE IngressPathProofs -------------------------
(***************************************************************************)
(* What the ingress check knows when it passes, for every set of settings  *)
(* and whatever others have, or earlier runs left, under the host name.    *)
(***************************************************************************)
EXTENDS IngressPath, TLAPS

\* Nothing leads to what was never there: to a server other than the check's own
\* only if it answered before or its ingress was there ...
Servers ==
    /\ ingresses \subseteq {"own"} \cup before.ingresses
    /\ routed \subseteq {"own"} \cup before.routed \cup before.ingresses

\* ... and in DNS only if the zone or this very cache had it, or its ingress was
\* there.  The check's own address is in a cache only once it was published.
Known(a, cached) ==
    /\ a \in {Nobody, "own", before.record, cached} \cup before.ingresses
    /\ a = "own" => published

Names ==
    /\ Known(record, Nobody)
    /\ \A r \in Resolvers : before.answers[r] # "own" /\ Known(answers[r], before.answers[r])

\* The check's own ingress is there from its creation on, and what it waited
\* for stays so.
Progress ==
    /\ phase \notin {"create", "failed"} => "own" \in ingresses
    /\ phase \in {"dns", "http", "passed"} /\ setting.alb => "own" \in routed

Resolution ==
    phase \in {"http", "passed"} /\ ~setting.noDnsCheck =>
        resolved # Nobody /\ Known(resolved, before.answers["8.8.8.8"])

Service ==
    phase = "passed" /\ ~setting.noHTTPCheck =>
        /\ servedBy \in {"own"} \cup before.routed \cup before.ingresses
        /\ setting.alb /\ servedBy = "own" => published

Evidence == Servers /\ Names /\ Resolution /\ Service

IInv == TypeOK /\ Progress /\ Evidence

LEMMA InitInv ==
    ASSUME Init
    PROVE  IInv
<1>1. TypeOK
  BY DEF Init, TypeOK, Owners, Resolvers, Nobody
<1>2. Progress /\ Resolution /\ Service
  BY DEF Init, Progress, Resolution, Service
<1>3. /\ before.ingresses = ingresses /\ before.routed = routed
      /\ before.record = record /\ before.answers = answers
      /\ record # "own" /\ \A r \in Resolvers : answers[r] # "own"
  BY DEF Init, Nobody
<1>4. Servers /\ Names
  BY <1>3 DEF Servers, Names, Known
<1> QED
  BY <1>1, <1>2, <1>4 DEF IInv, Evidence

LEMMA SettingFacts ==
    ASSUME TypeOK
    PROVE  /\ setting.alb \in BOOLEAN /\ setting.noDnsCheck \in BOOLEAN
           /\ setting.noHTTPCheck \in BOOLEAN /\ setting.endpoint \in BOOLEAN
BY SettingsAssumption DEF TypeOK

LEMMA TypeStep ==
    ASSUME TypeOK, [Next]_vars
    PROVE  TypeOK'
<1> USE DEF TypeOK, world, check
<1>1. CASE CreateIngress \/ AddressAvailable
  BY <1>1 DEF CreateIngress, AddressAvailable, AfterIngress, AfterDns, Owners
<1>2. CASE CheckDNSRecord
  BY <1>2 DEF CheckDNSRecord, AfterDns, Resolvers
<1>3. CASE CheckHTTP
  <2>1. Respondents \subseteq Owners
    BY DEF Respondents, Reached
  <2> QED
    BY <1>3, <2>1 DEF CheckHTTP
<1>4. CASE Fails
  BY <1>4 DEF Fails
<1>5. CASE EarlierDeleted \/ ExternalDNS
  BY <1>5 DEF EarlierDeleted, ExternalDNS
<1>6. ASSUME NEW o \in Owners, Reconcile(o) PROVE TypeOK'
  BY <1>6 DEF Reconcile
<1>7. ASSUME NEW r \in Resolvers, Refresh(r) PROVE TypeOK'
  BY <1>7 DEF Refresh
<1>8. CASE Done \/ UNCHANGED vars
  BY <1>8 DEF Done, vars
<1> QED
  BY <1>1, <1>2, <1>3, <1>4, <1>5, <1>6, <1>7, <1>8 DEF Next

LEMMA ProgressStep ==
    ASSUME IInv, [Next]_vars
    PROVE  Progress'
<1> USE DEF IInv, Progress, world, check
<1>1. CASE CreateIngress
  BY <1>1, SettingFacts DEF CreateIngress
<1>2. CASE AddressAvailable
  BY <1>2 DEF AddressAvailable
<1>3. CASE CheckDNSRecord \/ CheckHTTP \/ Fails
  BY <1>3 DEF CheckDNSRecord, CheckHTTP, Fails, AfterDns
<1>4. CASE EarlierDeleted \/ ExternalDNS
  BY <1>4 DEF EarlierDeleted, ExternalDNS
<1>5. ASSUME NEW o \in Owners, Reconcile(o) PROVE Progress'
  BY <1>5 DEF Reconcile, Over
<1>6. ASSUME NEW r \in Resolvers, Refresh(r) PROVE Progress'
  BY <1>6 DEF Refresh
<1>7. CASE Done \/ UNCHANGED vars
  BY <1>7 DEF Done, vars
<1> QED
  BY <1>1, <1>2, <1>3, <1>4, <1>5, <1>6, <1>7 DEF Next

LEMMA Before ==
    ASSUME [Next]_vars
    PROVE  before' = before /\ setting' = setting /\ (published => published')
<1>1. CASE ExternalDNS
  <2>1. published => published'
    BY Zenon, <1>1 DEF ExternalDNS
  <2> QED
    BY <1>1, <2>1 DEF ExternalDNS
<1>2. CASE ~ExternalDNS
  BY <1>2 DEF Next, CreateIngress, AddressAvailable, CheckDNSRecord, CheckHTTP, Fails,
              EarlierDeleted, Reconcile, Refresh, Done, vars, world
<1> QED
  BY <1>1, <1>2

LEMMA ServersStep ==
    ASSUME IInv, [Next]_vars
    PROVE  Servers'
<1> USE Before DEF IInv, Evidence, Servers, world, check
<1>1. CASE CreateIngress
  BY <1>1 DEF CreateIngress
<1>2. CASE AddressAvailable \/ CheckDNSRecord \/ CheckHTTP \/ Fails
  BY <1>2 DEF AddressAvailable, CheckDNSRecord, CheckHTTP, Fails
<1>3. CASE EarlierDeleted \/ ExternalDNS
  BY <1>3 DEF EarlierDeleted, ExternalDNS
<1>4. ASSUME NEW o \in Owners, Reconcile(o) PROVE Servers'
  BY <1>4 DEF Reconcile
<1>5. ASSUME NEW r \in Resolvers, Refresh(r) PROVE Servers'
  BY <1>5 DEF Refresh
<1>6. CASE Done \/ UNCHANGED vars
  BY <1>6 DEF Done, vars
<1> QED
  BY <1>1, <1>2, <1>3, <1>4, <1>5, <1>6 DEF Next

LEMMA NamesStep ==
    ASSUME IInv, [Next]_vars
    PROVE  Names'
<1> USE Before DEF IInv, Evidence, Names, Known, world, check
<1>1. CASE CreateIngress
  BY <1>1 DEF CreateIngress
<1>2. CASE AddressAvailable \/ CheckDNSRecord \/ CheckHTTP \/ Fails
  BY <1>2 DEF AddressAvailable, CheckDNSRecord, CheckHTTP, Fails
<1>3. CASE EarlierDeleted
  BY <1>3 DEF EarlierDeleted
<1>4. CASE ExternalDNS
  <2>1. record' \in {Nobody, "own"} \cup before.ingresses /\ (record' = "own" => published')
    BY <1>4 DEF ExternalDNS, Servers
  <2>2. answers' = answers
    BY <1>4 DEF ExternalDNS
  <2> QED
    BY <2>1, <2>2
<1>5. ASSUME NEW o \in Owners, Reconcile(o) PROVE Names'
  BY <1>5 DEF Reconcile
<1>6. ASSUME NEW r \in Resolvers, Refresh(r) PROVE Names'
  <2>1. \A q \in Resolvers : answers'[q] = answers[q] \/ answers'[q] = record
    BY <1>6 DEF Refresh, TypeOK
  <2>2. UNCHANGED <<record, published>>
    BY <1>6 DEF Refresh
  <2> QED
    BY <2>1, <2>2
<1>7. CASE Done \/ UNCHANGED vars
  BY <1>7 DEF Done, vars
<1> QED
  BY <1>1, <1>2, <1>3, <1>4, <1>5, <1>6, <1>7 DEF Next

LEMMA ResolutionStep ==
    ASSUME IInv, [Next]_vars
    PROVE  Resolution'
<1> USE Before DEF IInv, Evidence, Resolution, Known, world, check
<1>1. CASE CreateIngress \/ AddressAvailable
  BY <1>1, SettingFacts DEF CreateIngress, AddressAvailable, AfterIngress, AfterDns
<1>2. CASE CheckDNSRecord
  BY <1>2 DEF CheckDNSRecord, Names, Resolvers
<1>3. CASE UNCHANGED resolved /\ (phase' \in {"http", "passed"} => phase \in {"http", "passed"})
  BY <1>3
<1>4. CheckHTTP \/ Fails \/ EarlierDeleted \/ ExternalDNS
      => UNCHANGED resolved /\ (phase' \in {"http", "passed"} => phase \in {"http", "passed"})
  BY DEF CheckHTTP, Fails, EarlierDeleted, ExternalDNS
<1>5. \A o \in Owners : Reconcile(o) => UNCHANGED <<phase, resolved>>
  BY DEF Reconcile
<1>6. \A r \in Resolvers : Refresh(r) => UNCHANGED <<phase, resolved>>
  BY DEF Refresh
<1>7. Done \/ UNCHANGED vars => UNCHANGED <<phase, resolved>>
  BY DEF Done, vars
<1> QED
  BY <1>1, <1>2, <1>3, <1>4, <1>5, <1>6, <1>7 DEF Next

LEMMA ServiceStep ==
    ASSUME IInv, [Next]_vars
    PROVE  Service'
<1> USE Before DEF IInv, Evidence, Service, world, check
<1>1. CASE CreateIngress \/ AddressAvailable \/ CheckDNSRecord
  BY <1>1, SettingFacts
  DEF CreateIngress, AddressAvailable, CheckDNSRecord, AfterIngress, AfterDns
<1>2. CASE CheckHTTP
  <2>1. servedBy' \in routed /\ published' = published
    BY <1>2 DEF CheckHTTP, Respondents, Reached
  <2>2. setting.alb => servedBy' = answers["local"]
    BY <1>2, SettingsAssumption DEF CheckHTTP, Respondents, Reached, TypeOK
  <2>3. answers["local"] = "own" => published
    BY DEF Names, Known, Resolvers
  <2> QED
    BY <2>1, <2>2, <2>3 DEF Servers
<1>3. CASE UNCHANGED servedBy /\ (phase' = "passed" => phase = "passed")
  BY <1>3
<1>4. Fails \/ EarlierDeleted \/ ExternalDNS
      => UNCHANGED servedBy /\ (phase' = "passed" => phase = "passed")
  BY DEF Fails, EarlierDeleted, ExternalDNS
<1>5. \A o \in Owners : Reconcile(o) => UNCHANGED <<phase, servedBy>>
  BY DEF Reconcile
<1>6. \A r \in Resolvers : Refresh(r) => UNCHANGED <<phase, servedBy>>
  BY DEF Refresh
<1>7. Done \/ UNCHANGED vars => UNCHANGED <<phase, servedBy>>
  BY DEF Done, vars
<1> QED
  BY <1>1, <1>2, <1>3, <1>4, <1>5, <1>6, <1>7 DEF Next

LEMMA Invariance == Spec => []IInv
<1>1. IInv /\ [Next]_vars => IInv'
  BY TypeStep, ProgressStep, ServersStep, NamesStep, ResolutionStep, ServiceStep
  DEF IInv, Evidence
<1> QED
  BY <1>1, InitInv, PTL DEF Spec

(***************************************************************************)
(* Module IngressPath is type correct, for every set of settings.          *)
(***************************************************************************)
THEOREM TypeCorrect == Spec => []TypeOK
<1>1. IInv => TypeOK
  BY DEF IInv
<1> QED
  BY <1>1, Invariance, PTL

(***************************************************************************)
(* For every set of settings: the DNS check accepts only an address of its *)
(* own or one that DNS had before, the HTTP check only a server of its own *)
(* or one that answered, or was about to, before, whatever DNS remembers;  *)
(* and behind load balancers of their own an answer of the check's own     *)
(* ingress says that its record was published.                             *)
(***************************************************************************)
THEOREM PassProvesPath == Spec => []PassMeansReached
<1>1. IInv => PassMeansReached
  BY DEF IInv, Progress, Evidence, Resolution, Service, Known, PassMeansReached
<1> QED
  BY <1>1, Invariance, PTL
=============================================================================
