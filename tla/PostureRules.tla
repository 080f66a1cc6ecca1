---------------------------- MODULE PostureRules ----------------------------
(***************************************************************************)
(* The catalog of posture.go: which objects of a cluster fail each of its  *)
(* rules; and the pod security page's own reading of a pod spec            *)
(* (pod_security.go).  Pure: each rule is an operator, true of what fails. *)
(*                                                                         *)
(* Fields a manifest may leave out hold "unset".  A capability, path or    *)
(* image is as far apart from another as the rules tell; the details a     *)
(* failure is shown with are left out.  A container holds the AppArmor     *)
(* annotation that names it.                                               *)
(***************************************************************************)
EXTENDS Sequences, SequencesExt, FiniteSets

\* Some container of the workload, or one that is not an init container.
eachContainer(w, withInit, Fails(_)) ==
    \E c \in w.containers : (withInit \/ ~c.init) /\ Fails(c)

-----------------------------------------------------------------------------
(* Names. *)

\* Capabilities are compared in capitals and without the prefix.
CapName(c) ==
    CASE c \in {"all", "CAP_ALL"} -> "ALL" [] c = "CAP_SYS_ADMIN" -> "SYS_ADMIN"
      [] c = "cap_net_raw" -> "NET_RAW"   [] OTHER -> c
CapNames(cs) == {CapName(c) : c \in cs}
baselineCapabilities ==
    {"AUDIT_WRITE", "CHOWN", "DAC_OVERRIDE", "FOWNER", "FSETID", "KILL", "MKNOD",
     "NET_BIND_SERVICE", "SETFCAP", "SETGID", "SETPCAP", "SETUID", "SYS_CHROOT"}
dangerousCapabilities ==
    {"SYS_ADMIN", "SYS_PTRACE", "SYS_MODULE", "NET_ADMIN", "DAC_READ_SEARCH", "SYS_BOOT"}

\* A path is the sequence of its parts once it is cleaned, and whether it was so
\* before.
sensitiveHostPaths ==
    {<<>>, <<"etc">>, <<"var", "run", "docker.sock">>, <<"var", "run", "containerd">>,
     <<"var", "run", "crio">>, <<"var", "lib", "kubelet">>, <<"proc">>, <<"root">>,
     <<"var", "run", "secrets">>}
sensitiveHostPathBelow(p) ==
    \E s \in sensitiveHostPaths \ {<<>>} : s # p.parts /\ IsPrefix(s, p.parts)
sensitiveHostPath(p) ==
    \/ p.parts \in sensitiveHostPaths
    \/ \E s \in sensitiveHostPaths \ {<<>>} : IsPrefix(s, p.parts) \/ IsPrefix(p.parts, s)

\* An image is a record of its digest, its tag and the port of its registry.
imageUnpinned(image) == ~image.digest /\ image.tag \in {"", "latest"}

seLinuxViolation(o) ==
    \/ o.type \notin {"", "container_t", "container_init_t", "container_kvm_t", "container_engine_t"}
    \/ o.user # "" \/ o.role # ""

-----------------------------------------------------------------------------
\* The rule, if it is failed.
Fail(condition, rule) == IF condition THEN {rule} ELSE {}

(* Workloads. *)

Or(value, default) == IF value = "unset" THEN default ELSE value
Uid(w, c) == Or(c.uid, w.uid)
NonRoot(w, c) == Or(c.nonRoot, w.nonRoot)
effectiveSeccomp(w, c) == Or(c.seccomp, w.seccomp)

automountsToken(w, accounts) ==
    LET account == IF w.serviceAccount = "" THEN "default" ELSE w.serviceAccount
        of == IF account \in DOMAIN accounts THEN accounts[account] ELSE "unset"
    IN  Or(Or(w.automount, of), "true") = "true"

Privileged(w) == eachContainer(w, TRUE, LAMBDA c : c.privileged = "true")
Escalates(w) == eachContainer(w, TRUE, LAMBDA c : c.escalation # "false")
SensitivePath(w) == \E p \in w.hostPaths : sensitiveHostPath(p)
DangerousCaps(w) ==
    eachContainer(w, TRUE, LAMBDA c : CapNames(c.add) \cap (dangerousCapabilities \cup {"ALL"}) # {})
SecretsInEnv(w) == eachContainer(w, TRUE, LAMBDA c : c.env \cup c.envFrom # {})
\* Told apart from the other rules: here the prefix stays.
KeepsSomeCaps(w) == eachContainer(w, TRUE, LAMBDA c : c.drop \cap {"ALL", "all"} = {})
RunsAsRoot(w) ==
    eachContainer(w, TRUE, LAMBDA c :
        Uid(w, c) = "0" \/ (NonRoot(w, c) # "true" /\ Uid(w, c) = "unset"))
WritableRoot(w) == eachContainer(w, TRUE, LAMBDA c : c.readOnly # "true")
Unlimited(w) == eachContainer(w, FALSE, LAMBDA c : {"cpu", "memory"} \ c.limits # {})
Unfiltered(w) ==
    eachContainer(w, TRUE, LAMBDA c : effectiveSeccomp(w, c) \notin {"RuntimeDefault", "Localhost"})
MovingTag(w) == eachContainer(w, TRUE, LAMBDA c : imageUnpinned(c.image))
HostPorts(w) ==
    eachContainer(w, TRUE, LAMBDA c : \E i \in DOMAIN c.ports : c.ports[i].host)
Unrequested(w) == eachContainer(w, FALSE, LAMBDA c : {"cpu", "memory"} \ c.requests # {})
AddsCaps(w) == eachContainer(w, TRUE, LAMBDA c : CapNames(c.add) \ baselineCapabilities # {})
RawSockets(w) ==
    eachContainer(w, TRUE, LAMBDA c :
        \/ c.privileged = "true"
        \/ CapNames(c.add) \cap {"NET_RAW", "ALL"} # {}
        \/ CapNames(c.drop) \cap {"NET_RAW", "ALL"} = {})
DefaultAccount(w) == w.serviceAccount \in {"", "default"}
Unwatched(w) == w.longRunning /\ eachContainer(w, FALSE, LAMBDA c : ~c.liveness)
Unready(w) == w.longRunning /\ eachContainer(w, FALSE, LAMBDA c : ~c.readiness)
Relabelled(w) ==
    seLinuxViolation(w.seLinux) \/ eachContainer(w, TRUE, LAMBDA c : seLinuxViolation(c.seLinux))
Unconfined(w) ==
    eachContainer(w, TRUE, LAMBDA c : c.apparmor \notin {"unset", "runtime/default", "localhost/custom"})
ProcUnmasked(w) == eachContainer(w, TRUE, LAMBDA c : c.procMount \notin {"unset", "Default"})

\* What the distribution put into a system namespace carries one of its labels.
postureNamespaceExcluded(ns) == ns \in {"kube-system", "kube-public", "kube-node-lease"}
distributionComponent(labels) ==
    labels \cap {"tier=control-plane", "kubernetes.io/cluster-service=true", "k8s-app",
                 "component", "addonmanager.kubernetes.io/mode"} # {}

\* The rules a workload fails by its pod spec, by a security context, by what
\* else its containers say; in a system namespace only one rule is about it.
PodRules(w, accounts) ==
    Fail(w.hostNetwork, "WL-002")
    \cup Fail(w.hostPID, "WL-004")
    \cup Fail(w.hostIPC, "WL-005")
    \cup Fail(SensitivePath(w), "WL-006")
    \cup Fail(w.hostPaths # {}, "WL-008")
    \cup Fail(automountsToken(w, accounts), "WL-016")
    \cup Fail(w.ns = "default", "WL-017")
    \cup Fail(DefaultAccount(w), "WL-018")
ContextRules(w) ==
    Fail(Privileged(w), "WL-001")
    \cup Fail(Escalates(w), "WL-003")
    \cup Fail(DangerousCaps(w), "WL-007")
    \cup Fail(KeepsSomeCaps(w), "WL-009")
    \cup Fail(RunsAsRoot(w), "WL-010")
    \cup Fail(WritableRoot(w), "WL-011")
    \cup Fail(Unfiltered(w), "WL-013")
    \cup Fail(AddsCaps(w), "WL-022")
    \cup Fail(RawSockets(w), "WL-024")
    \cup Fail(Relabelled(w), "WL-025")
    \cup Fail(Unconfined(w), "WL-026")
    \cup Fail(ProcUnmasked(w), "WL-027")
ContainerRules(w) ==
    Fail(SecretsInEnv(w), "SEC-001")
    \cup Fail(Unlimited(w), "WL-012")
    \cup Fail(MovingTag(w), "WL-014")
    \cup Fail(HostPorts(w), "WL-015")
    \cup Fail(Unrequested(w), "WL-019")
    \cup Fail(Unwatched(w), "WL-020")
    \cup Fail(Unready(w), "WL-021")
WorkloadRules(w, accounts) ==
    IF ~postureNamespaceExcluded(w.ns) THEN PodRules(w, accounts) \cup ContextRules(w) \cup ContainerRules(w)
    ELSE IF distributionComponent(w.labels) THEN {} ELSE {"WL-023"}

-----------------------------------------------------------------------------
(* Roles: a role is the set of its rules, each a record of sets. *)

policyRuleGrants(r, groups, resources, verbs) ==
    IF \/ r.names # {} \/ r.resources = {}
       \/ r.groups \cap (groups \cup {"*"}) = {}
       \/ r.resources \cap (resources \cup {"*"}) = {}
    THEN {} ELSE IF "*" \in r.verbs THEN {"*"} ELSE r.verbs \cap verbs
roleGrants(rules, groups, resources, verbs) ==
    UNION {policyRuleGrants(r, groups, resources, verbs) : r \in rules} # {}

writeVerbs == {"create", "update", "patch", "delete", "deletecollection"}
readSecretVerb == {"get", "list", "watch"}
ReadsSecrets(rules) == roleGrants(rules, {""}, {"secrets"}, readSecretVerb)
Impersonates(rules) ==
    \/ roleGrants(rules, {"", "authentication.k8s.io"},
                  {"users", "groups", "serviceaccounts", "uids", "userextras/scopes"}, {"impersonate"})
    \/ roleGrants(rules, {"rbac.authorization.k8s.io"}, {"roles", "clusterroles"}, {"bind", "escalate"})
ProxiesNodes(rules) ==
    roleGrants(rules, {""}, {"nodes/proxy"}, readSecretVerb \cup (writeVerbs \ {"deletecollection"}))
\* Both halves are needed, from one rule or from two.
ApprovesCertificates(rules) ==
    /\ roleGrants(rules, {"certificates.k8s.io"}, {"certificatesigningrequests/approval"}, {"update", "patch"})
    /\ roleGrants(rules, {"certificates.k8s.io"}, {"signers"}, {"approve"})
EditsWebhooks(rules) ==
    roleGrants(rules, {"admissionregistration.k8s.io"},
               {"mutatingwebhookconfigurations", "validatingwebhookconfigurations"}, writeVerbs)
CreatesPods(rules) ==
    \/ roleGrants(rules, {""}, {"pods", "replicationcontrollers"}, {"create"})
    \/ roleGrants(rules, {"apps"}, {"deployments", "statefulsets", "daemonsets", "replicasets"}, {"create"})
    \/ roleGrants(rules, {"batch"}, {"jobs", "cronjobs"}, {"create"})
Wildcards(rules) == \E r \in rules : r.resources # {} /\ "*" \in r.verbs \cup r.resources
discoveryURL == {"/api", "/apis", "/version", "/version/", "/healthz", "/livez", "/readyz",
                 "/openapi", "/.well-known/openid-configuration", "/openid/v1/jwks"}
OpensURLs(rules) ==
    \E r \in rules : r.urls # {} /\ (r.verbs \ {"get", "head"} # {} \/ r.urls \ discoveryURL # {})
CreatesVolumes(rules) == roleGrants(rules, {""}, {"persistentvolumes"}, {"create"})
MintsTokens(rules) == roleGrants(rules, {""}, {"serviceaccounts/token"}, {"create"})

RoleRules(rules) ==
    Fail(ReadsSecrets(rules), "RBAC-001")
    \cup Fail(Impersonates(rules), "RBAC-002")
    \cup Fail(ProxiesNodes(rules), "RBAC-003")
    \cup Fail(ApprovesCertificates(rules), "RBAC-004")
    \cup Fail(EditsWebhooks(rules), "RBAC-005")
    \cup Fail(CreatesPods(rules), "RBAC-006")
    \cup Fail(Wildcards(rules), "RBAC-007")
    \cup Fail(OpensURLs(rules), "RBAC-010")
    \cup Fail(CreatesVolumes(rules), "RBAC-011")
    \cup Fail(MintsTokens(rules), "RBAC-012")

-----------------------------------------------------------------------------
(* Bindings, namespaces. *)

postureSubjectExcluded(s) == s.system \/ (s.kind = "ServiceAccount" /\ postureNamespaceExcluded(s.ns))
BindingRules(b) ==
    (IF b.role = "cluster-admin" /\ \E s \in b.subjects : ~postureSubjectExcluded(s)
     THEN {"RBAC-008"} ELSE {})
    \cup
    (IF \E s \in b.subjects :
          \/ s.kind = "Group" /\ s.name \in {"system:anonymous", "system:unauthenticated", "system:authenticated"}
          \/ s.kind = "User" /\ s.name = "system:anonymous"
     THEN {"RBAC-009"} ELSE {})

isDefaultDenyIngress(np) ==
    np.anyPod /\ (np.types = {} \/ "Ingress" \in np.types) /\ np.ingress = {}
NamespaceRules(policies) ==
    Fail(policies = {}, "NET-001")
    \cup (IF \E np \in policies : isDefaultDenyIngress(np) THEN {} ELSE {"NET-002"})

-----------------------------------------------------------------------------
(* The pod security page, which reads a pod spec on its own.  Each finding  *)
(* is its kind and how severe it is.                                        *)

PodFindings(w) ==
    {f \in {<<"host_network", "critical">>, <<"host_pid", "critical">>, <<"host_ipc", "critical">>} :
        CASE f[1] = "host_network" -> w.hostNetwork [] f[1] = "host_pid" -> w.hostPID
          [] OTHER -> w.hostIPC}
    \cup {<<"host_path", IF p.tidy /\ p.parts \in sensitiveHostPaths THEN "critical" ELSE "warning">> :
              p \in w.hostPaths}
    \cup (IF w.automount # "false" THEN {<<"token_mounted", "info">>} ELSE {})

mutableTag(image) ==
    ~image.digest /\ (image.tag = "latest" \/ (image.tag = "" /\ ~image.port))
\* What the container says of its user stands before what the pod says.
MayBeRoot(w, c) ==
    /\ c.uid \in {"unset", "0"} /\ c.nonRoot # "true"
    /\ w.uid \in {"unset", "0"} /\ w.nonRoot # "true"
ContainerFindings(w, c) == UNION {
    IF c.privileged = "true" THEN {<<"privileged", "critical">>}
    ELSE IF MayBeRoot(w, c) THEN {<<"run_as_root", "warning">>} ELSE {},
    IF c.escalation = "true" THEN {<<"privilege_escalation", "warning">>} ELSE {},
    IF c.add \cap dangerousCapabilities # {} THEN {<<"capability", "critical">>} ELSE {},
    IF c.readOnly # "true" THEN {<<"writable_root", "info">>} ELSE {},
    IF mutableTag(c.image) THEN {<<"mutable_tag", "warning">>} ELSE {},
    IF c.fetches THEN {<<"fetches_at_start", "warning">>} ELSE {},
    IF c.env # {} THEN {<<"secret_in_env", "info">>} ELSE {}}

inspectPodSecurity(w) == PodFindings(w) \cup UNION {ContainerFindings(w, c) : c \in w.containers}

\* The catalog's rule about the same thing.
RuleOf(f) ==
    CASE f[1] = "host_network" -> "WL-002" [] f[1] = "host_pid" -> "WL-004"
      [] f[1] = "host_ipc" -> "WL-005"     [] f = <<"host_path", "critical">> -> "WL-006"
      [] f = <<"host_path", "warning">> -> "WL-008"
      [] f[1] = "token_mounted" -> "WL-016" [] f[1] = "privileged" -> "WL-001"
      [] f[1] = "run_as_root" -> "WL-010"  [] f[1] = "privilege_escalation" -> "WL-003"
      [] f[1] = "capability" -> "WL-007"   [] f[1] = "writable_root" -> "WL-011"
      [] f[1] = "mutable_tag" -> "WL-014"  [] OTHER -> "SEC-001"

(* What the pod security page warns of outside the system namespaces, the   *)
(* posture page fails too: its rule about the same thing.  Two exceptions:  *)
(* what a container fetches at its start is no rule's matter, and a token   *)
(* the service account turns off is mounted for the pod security page       *)
(* alone, which does not look there.                                        *)
PagesAgreeOn(w, accounts) ==
    postureNamespaceExcluded(w.ns) \/ \A f \in inspectPodSecurity(w) :
        \/ f[1] = "fetches_at_start"
        \/ RuleOf(f) \in WorkloadRules(w, accounts)
        \/ f[1] = "token_mounted" /\ w.automount = "unset"
=============================================================================
