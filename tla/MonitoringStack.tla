-------------------------- MODULE MonitoringStack --------------------------
(***************************************************************************)
(* The renderers of the production monitoring namespace and what applying  *)
(* their manifests leaves in the cluster: scripts/prod_*_render.py, the    *)
(* opt-ins that prod_grafana_terraform_input.py composes, and the          *)
(* disposable acceptance Pod.                                              *)
(*                                                                         *)
(* A ConfigMap key holds a text: what it is made of, the edition of the    *)
(* source it was rendered from, the connections it makes the processes     *)
(* open, and the series a scrape keeps or a dashboard or a rule queries:   *)
(* pairs of a job and a group of metrics.  A Deployment is its Pod         *)
(* template: the keys it mounts, the digest in its checksum annotation and *)
(* the rest.  A Pod reads its keys when it starts and never again; it is   *)
(* started anew when its template changes.                                 *)
(* SHA-256 is taken as injective: a digest is the list of what it hashes.  *)
(* A host is the address its name resolves to.                             *)
(***************************************************************************)
EXTENDS Naturals, Sequences, SequencesExt

CONSTANTS
    Sites,      \* the private site files of the outside-in renderer
    Queries,    \* the queries of Terraform's external data source
    Edited,     \* the source texts that a commit may change
    MaxEdits,   \* bound: commits that change one of them
    None        \* a model value: no target, no Pod

VARIABLES
    edition,    \* source text -> how often a commit has changed it
    objects,    \* the applied ConfigMaps, Deployments and NetworkPolicies
    protected,  \* the objects Terraform holds under prevent_destroy
    pods        \* Deployment -> mounted key -> the text the Pod has read, or None

vars == <<edition, objects, protected, pods>>

PodNames == {"blackbox", "prometheus", "alertmanager", "loki", "gateway", "grafana",
             "snmp", "syslog", "nfs", "files", "exporter", "portal", "negative"}

----------------------------------------------------------------------------
(* Manifests.                                                              *)

Text(parts, n, calls, series) ==
    [parts |-> parts, edition |-> n, calls |-> calls, series |-> series]

\* _deployment, and the same Pod template in the other renderers: the digest
\* ties the template to the texts, as no process reloads a mounted ConfigMap.
Deployment(mounts, digest, calls) ==
    [mounts |-> mounts, digest |-> digest, calls |-> calls, extra |-> {}]

\* A NetworkPolicy governs the directions of its policyTypes.
Policy(pod, ingress, egress) ==
    [pod |-> pod, types |-> {"Ingress", "Egress"}, ingress |-> ingress, egress |-> egress]
IngressPolicy(pod, ingress) == [Policy(pod, ingress, {}) EXCEPT !.types = {"Ingress"}]
EgressPolicy(pod, egress) == [Policy(pod, {}, egress) EXCEPT !.types = {"Egress"}]

Dns == {<<"any", 53>>}
KubeDns == {<<"kube-dns", 53>>}
Resolves(pod) == {<<pod, "kube-dns", 53>>}

\* Two mappings in one: the first wins.
f ++ g == [x \in DOMAIN f \union DOMAIN g |-> IF x \in DOMAIN f THEN f[x] ELSE g[x]]

Manifest(cms, deps, pols) == [cms |-> cms, deps |-> deps, pols |-> pols]
Merge(m, n) == Manifest(n.cms ++ m.cms, n.deps ++ m.deps, n.pols ++ m.pols)

----------------------------------------------------------------------------
(* O1 and O2: Prometheus and the Blackbox exporter.                        *)

\* _names
Names(items, maximum) == Len(items) <= maximum

Distinct(s) == \A i, j \in DOMAIN s : s[i] = s[j] => i = j
Field(s, f) == [i \in DOMAIN s |-> s[i][f]]
Endpoint(t) == <<t.host, t.port>>
Optional(t) == IF t = None THEN <<>> ELSE <<t>>

\* _valid_host
ValidHost(t) == t.kind \in {"ipv4", "dns"}

Differ(t, others) ==
    \A i \in DOMAIN others : t.name # others[i].name /\ Endpoint(t) # Endpoint(others[i])

\* The prod target of validate_site: a name needs the address it stands for,
\* an address given twice is the same address.
ProdAccepted(s) ==
    s.prod # None =>
        /\ ValidHost(s.prod) /\ s.prod.port = 9100
        /\ s.prod.kind = "dns" => s.prod.address # None
        /\ s.prod.kind = "ipv4" => s.prod.address \in {None, s.prod.host}
        /\ Differ(s.prod, s.metrics \o Optional(s.openwrt))
        /\ Len(s.metrics) = 4

SiteAccepted(s) ==
    /\ s.api # <<>> /\ Names(s.api, 4) /\ Names(s.tcp, 8) /\ Names(s.metrics, 4)
    /\ s.openwrt # None =>
           s.openwrt.kind = "ipv4" /\ s.openwrt.port = 9100 /\ Differ(s.openwrt, s.metrics)
    /\ Distinct(Field(s.metrics, "name"))
    /\ \A i, j \in DOMAIN s.metrics : Endpoint(s.metrics[i]) = Endpoint(s.metrics[j]) => i = j
    /\ ProdAccepted(s)
    /\ Distinct(Field(s.api \o s.tcp, "name"))
    /\ \A i \in DOMAIN s.api : ValidHost(s.api[i]) /\ s.api[i].port \in {443, 6443}
    /\ \A t \in Range(s.tcp \o s.metrics) : ValidHost(t) /\ t.port = 9100
    /\ s.cidrs # {} /\ \A c \in s.cidrs : c.prefix >= 24

Hosts(s) == UNION {c.hosts : c \in s.cidrs}
ProdAddress(s) == IF s.prod.address = None THEN s.prod.host ELSE s.prod.address

\* job: the scrape goes to the exporter, the exporter goes to the target.
ProbeCalls(targets) ==
    {<<"prometheus", "blackbox", 9115>>} \union
    {<<"blackbox", t.host, t.port>> : t \in Range(targets)}

\* Plausible mistake: the host details are never added to the selection.
NodeGroupsPlain(s) == {"node", "filesystem"}

\* node_metric_names: temperatures, pressures, disks and throttling are kept
\* only at a site that has a prod target.
NodeGroups(s) == {"node", "filesystem"} \union {g \in {"detail"} : s.prod # None}

\* jobs: the series each job keeps.  The prod job is a copy of the job before
\* it, which is the staging one as a prod target comes with four of those.
Jobs(s) ==
    ({"self", "staging-api"} \union {j \in {"staging-tcp"} : s.tcp # <<>>}) \X {"probe"}
    \union {j \in {"staging-node-exporter"} : s.metrics # <<>>} \X NodeGroups(s)
    \union {j \in {"prod-node-exporter"} : s.prod # None} \X
              (IF s.metrics # <<>> THEN NodeGroups(s) ELSE {"probe"})
    \union {j \in {"openwrt-node-exporter"} : s.openwrt # None} \X {"node"}

ScrapeCalls(s) ==
    ProbeCalls(s.api \o s.tcp) \union Resolves("prometheus") \union Resolves("blackbox")
    \union {<<"prometheus", t.host, 9100>> : t \in Range(s.metrics \o Optional(s.openwrt))}
    \union {<<"prometheus", ProdAddress(s), 9100>> : t \in Range(Optional(s.prod))}

\* Plausible mistake: the egress rule names the target, not the address.
PrometheusEgressByTarget(s) ==
    Dns \union {<<"blackbox", 9115>>}
    \union {<<h, 9100>> : h \in IF s.metrics = <<>> THEN {} ELSE Hosts(s)}
    \union {<<t.host, 9100>> : t \in Range(Optional(s.prod) \o Optional(s.openwrt))}

\* prometheus_egress: the sections exist only with the targets they are for.
PrometheusEgress(s) ==
    Dns \union {<<"blackbox", 9115>>}
    \union {<<h, 9100>> : h \in IF s.metrics = <<>> THEN {} ELSE Hosts(s)}
    \union {<<ProdAddress(s), 9100>> : t \in Range(Optional(s.prod))}
    \union {<<t.host, 9100>> : t \in Range(Optional(s.openwrt))}

ExporterEgress(s) == Dns \union (Hosts(s) \X {443, 6443, 9100})

OutsideIn(s) ==
    LET config == Text({"jobs"}, 0, ScrapeCalls(s), Jobs(s))
        modules == Text({"modules"}, 0, {}, {})
    IN Manifest([prometheus |-> [config |-> config], blackbox |-> [config |-> modules]],
                [prometheus |-> Deployment({<<"prometheus", "config">>}, <<config>>, {}),
                 blackbox |-> Deployment({<<"blackbox", "config">>}, <<modules>>, {})],
                [blackbox_restricted |->
                     Policy("blackbox", {<<"prometheus", 9115>>}, ExporterEgress(s)),
                 prometheus_restricted |-> Policy("prometheus", {}, PrometheusEgress(s))])

----------------------------------------------------------------------------
(* O3, O3B, O4, the push gateway, the portal and the acceptance Pod.       *)

RuleText(e) ==
    Text({"staging-outside-in"}, e["rules"], {}, {"staging-api", "staging-tcp"} \X {"probe"})

AlertRules(e) == Manifest([rules |-> [alerts |-> RuleText(e)]], <<>>, <<>>)

AlertmanagerConfig ==
    Text({"slack-bot"}, 0, {<<"alertmanager", "slack", 443>>} \union Resolves("alertmanager"), {})

Alertmanager ==
    Manifest([alertmanager |-> [config |-> AlertmanagerConfig]],
             [alertmanager |->
                  Deployment({<<"alertmanager", "config">>}, <<AlertmanagerConfig>>, {})],
             [alertmanager_restricted |->
                  Policy("alertmanager", {<<"prometheus", 9093>>}, Dns \union {<<"slack", 443>>}),
              prometheus_alertmanager_egress |->
                  EgressPolicy("prometheus", {<<"alertmanager", 9093>>})])

\* A monolith: its components talk over the loopback, so no call leaves it.
LokiConfig == Text({"monolithic"}, 0, {}, {})

Loki ==
    Manifest([loki |-> [config |-> LokiConfig]],
             [loki |-> Deployment({<<"loki", "config">>}, <<LokiConfig>>, {})],
             [loki_restricted |-> Policy("loki", {<<"grafana", 3100>>}, {}),
              grafana_loki_egress |-> EgressPolicy("grafana", {<<"loki", 3100>>})])

\* nginx_config: the only upstream is Loki, found by its name.
NginxConfig == Text({"otlp"}, 0, {<<"gateway", "loki", 3100>>} \union Resolves("gateway"), {})

Gateway ==
    Manifest([gateway |-> [config |-> NginxConfig]],
             [gateway |-> Deployment({<<"gateway", "config">>}, <<NginxConfig>>,
                                     {<<"staging", "gateway", 8443>>})],
             [gateway_restricted |->
                  Policy("gateway", {<<"staging", 8443>>}, {<<"loki", 3100>>} \union KubeDns),
              gateway_to_loki |-> IngressPolicy("loki", {<<"gateway", 3100>>})])

PortalText == Text({"index", "nginx"}, 0, {}, {})

Portal ==
    Manifest([portal |-> [content |-> PortalText]],
             [portal |-> Deployment({<<"portal", "content">>}, <<PortalText>>,
                 {<<"tailnet", "portal", 8080>>, <<"tailnet", "grafana", 3000>>})],
             [portal_ingress |-> Policy("portal", {<<"tailnet", 8080>>}, {}),
              grafana_tailnet_ingress |-> IngressPolicy("grafana", {<<"tailnet", 3000>>})])

NegativeAcceptance ==
    LET config == Text({"negative"}, 0,
                       {<<"negative", "blackbox", 9115>>} \union Resolves("negative"), {})
    IN Manifest([negative |-> [config |-> config]],
                [negative |-> Deployment({<<"negative", "config">>}, <<>>, {})],
                [negative |-> IngressPolicy("blackbox", {<<"negative", 9115>>})])

----------------------------------------------------------------------------
(* The manifest that Terraform owns.                                       *)

Provisioned(m) == m.cms["grafana"]
Mounted(keys) == {<<"grafana", k>> : k \in keys}

\* Plausible mistake: the digest stays that of the base manifest.
ReprovisionKeepsDigest(m, data, extra) ==
    [m EXCEPT !.cms["grafana"] = data,
              !.deps["grafana"].mounts = Mounted(DOMAIN data),
              !.deps["grafana"].extra = @ \union extra]

\* Every add function hashes the provisioning data again after its change.
Reprovision(m, data, extra) ==
    [m EXCEPT !.cms["grafana"] = data,
              !.deps["grafana"].mounts = Mounted(DOMAIN data),
              !.deps["grafana"].digest = <<data>>,
              !.deps["grafana"].extra = @ \union extra]

DataSources ==
    Text({"prometheus", "loki"}, 0,
         {<<"grafana", "prometheus", 9090>>, <<"grafana", "loki", 3100>>} \union Resolves("grafana"), {})

Providers(boards) == Text(boards, 0, {}, {})
Dashboard(name, series) == Text({name}, 0, {}, series)

\* The series of each dashboard; those of Loki, "up" and the counts of a
\* scrape exist whatever is kept.
StagingBoard == {"staging-node-exporter"} \X {"node", "filesystem"}
                \union {"staging-api", "staging-tcp"} \X {"probe"}
OpenwrtBoard == {<<"openwrt-node-exporter", "node">>}
LogsBoard == {}
RagBoard == {<<"desktop-rag", "rag">>}
AttentionBoard == {}
HostBoard(host) == {host} \X {"node", "filesystem", "detail", "desktop"}
ProdHostsBoard == {"prod-node-exporter"} \X {"node", "filesystem", "detail"}
NasBoard == {<<"qnap-nas-snmp", "qnap">>}
SecurityBoard == {}

Boards ==
    [staging |-> StagingBoard, openwrt |-> OpenwrtBoard, logs |-> LogsBoard, rag |-> RagBoard,
     desktop |-> HostBoard("desktop"), typevt |-> HostBoard("typevt"), attention |-> AttentionBoard]
Keys(k, on) == {x \in k : on}

Grafana(q) ==
    LET optional == Keys({"rag"}, q.rag) \union Keys({"desktop", "typevt"}, q.hosts # {})
                    \union Keys({"attention"}, q.attention)
        boards == {"staging", "logs", "openwrt"} \union optional
        data == [k \in boards |-> Dashboard(k, Boards[k])] ++
                [datasource |-> DataSources, provider |-> Providers({"staging"} \union optional)]
    IN Manifest([grafana |-> data],
                [grafana |-> Deployment(Mounted(DOMAIN data), <<data>>, {})],
                [grafana_restricted |->
                     Policy("grafana", {}, Dns \union {<<"prometheus", 9090>>}),
                 prometheus_grafana_ingress |-> IngressPolicy("prometheus", {<<"grafana", 9090>>})])

\* The optional direct scrapes: the job, its target, which is its egress peer
\* too, the port and the series kept.  The hosts' jobs drop two labels only.
DirectScrapes(q) ==
    {x \in {<<"desktop-rag", "rag", 3102, {"rag"}>>} : q.rag}
    \union {<<h, h, 9100, {"node", "filesystem", "detail", "desktop"}>> : h \in q.hosts}
    \union {x \in {<<"local-llm", "llm", 8080, {"llm"}>>} : q.llm}

PrometheusConfig(q, e) ==
    LET o1 == OutsideIn(q.site)
        text == Text({"jobs", "rules"}, 0,
                     ScrapeCalls(q.site) \union {<<"prometheus", "alertmanager", 9093>>}
                     \union {<<"prometheus", x[2], x[3]>> : x \in DirectScrapes(q)},
                     Jobs(q.site) \union UNION {{x[1]} \X x[4] : x \in DirectScrapes(q)})
    IN Manifest([prometheus |-> [config |-> text]],
                [prometheus |-> Deployment({<<"prometheus", "config">>, <<"rules", "alerts">>},
                                           <<text, RuleText(e)>>, {})],
                [prometheus_restricted |-> [o1.pols.prometheus_restricted EXCEPT !.egress =
                    @ \union {<<x[2], x[3]>> : x \in DirectScrapes(q)}]])

\* update_prometheus_config: the digest is built anew from the configuration
\* and the staging rules.
UpdatePrometheus(m, parts, kept, calls, e) ==
    LET old == m.cms["prometheus"].config
        text == Text(old.parts \union parts, 0, old.calls \union calls, old.series \union kept)
    IN [m EXCEPT !.cms["prometheus"] = [config |-> text],
                 !.deps["prometheus"].digest = <<text, RuleText(e)>>]

\* The alert rules of an opt-in: mounted into Prometheus, added to the digest.
MountRules(m, cm, text) ==
    [m EXCEPT !.deps["prometheus"].mounts = @ \union {<<cm, "alerts">>},
              !.deps["prometheus"].digest = Append(@, text)]

\* On the host's network, which no policy governs.
Exporter == Manifest(<<>>, [exporter |-> Deployment({}, <<>>, {})], <<>>)

AddProdHost(m) ==
    Merge(Reprovision(m, [k \in {"prod-hosts"} |-> Dashboard(k, ProdHostsBoard)] ++
                         [Provisioned(m) EXCEPT !["provider"].parts = @ \union {"prod-hosts"}], {}),
          Exporter)

\* Panels added to the NAS dashboard.
NasPanels(m, more, series) ==
    [Provisioned(m) EXCEPT !["nas"].parts = @ \union more, !["nas"].series = @ \union series]

SnmpConfig == Text({"qnap_legacy"}, 0, {}, {})

SnmpResources ==
    Manifest([snmp |-> [config |-> SnmpConfig]],
             [snmp |-> Deployment({<<"snmp", "config">>}, <<SnmpConfig>>, {})],
             [snmp_restricted |-> Policy("snmp", {<<"prometheus", 9116>>}, {<<"nas", 161>>}),
              nas_prometheus_egress |-> EgressPolicy("prometheus", {<<"snmp", 9116>>})])

AddNas(m, e) ==
    LET scraped == UpdatePrometheus(m, {}, {<<"qnap-nas-snmp", "qnap">>},
                       {<<"prometheus", "snmp", 9116>>, <<"snmp", "nas", 161>>}, e)
        data == [nas |-> Dashboard("nas", NasBoard)] ++
                [Provisioned(m) EXCEPT !["provider"].parts = @ \union {"nas"}]
    IN Merge(Reprovision(scraped, data, {}), SnmpResources)

AlloyConfig(filter) ==
    Text({"syslog"} \union Keys({"filter"}, filter), 0,
         {<<"syslog", "loki", 3100>>} \union Resolves("syslog"), {})

SyslogResources(filter) ==
    Manifest([syslog |-> [config |-> AlloyConfig(filter)]],
             [syslog |-> Deployment({<<"syslog", "config">>}, <<AlloyConfig(filter)>>,
                                    {<<"nas", "syslog", 1514>>})],
             [syslog_restricted |-> Policy("syslog", {<<"nas", 1514>>, <<"prometheus", 12345>>},
                                           {<<"loki", 3100>>} \union KubeDns),
              nas_loki_ingress |-> IngressPolicy("loki", {<<"syslog", 3100>>})])

\* The exporter's policy exists already: the collector's peer is added to it.
AddSyslog(m, filter, e) ==
    LET scraped == UpdatePrometheus(m, {}, {<<"qnap-nas-collector", "loki">>},
                                    {<<"prometheus", "syslog", 12345>>}, e)
        allowed == [scraped EXCEPT !.pols["nas_prometheus_egress"].egress = @ \union {<<"syslog", 12345>>}]
    IN Merge(Reprovision(allowed, NasPanels(m, {"syslog"} \union Keys({"filter"}, filter), {}), {}),
             SyslogResources(filter))

NfsRules(e) == Text({"nas-nfs"}, e["nfs"], {}, {<<"qnap-nas-nfs", "nfs">>})

AddNfs(m, e) ==
    LET series == {<<"qnap-nas-nfs", "nfs">>}
        data == [code |-> Text({"nfs"}, 0, {}, {}), alerts |-> NfsRules(e)]
        scraped == UpdatePrometheus(m, {"nfs-rules"}, series, {<<"prometheus", "nfs", 9189>>}, e)
    IN Merge(Reprovision(MountRules(scraped, "nfs", NfsRules(e)), NasPanels(m, {"nfs"}, series), {}),
             Manifest([nfs |-> data],
                      [nfs |-> Deployment({<<"nfs", k>> : k \in DOMAIN data}, <<data>>,
                                          {<<"nfs", "nas", 22>>})],
                      [nfs_restricted |-> Policy("nfs", {<<"prometheus", 9189>>}, {<<"nas", 22>>}),
                       nfs_prometheus_egress |-> EgressPolicy("prometheus", {<<"nfs", 9189>>})]))

FileLogRules(e) ==
    Text({"nas-file-logs"}, e["files"], {}, {"qnap-nas-file-logs"} \X {"files", "smart"})

AddFileLogs(m, filter, e) ==
    LET series == {"qnap-nas-file-logs"} \X {"files", "smart"}
        data == [code |-> Text({"files"}, 0, {<<"files", "loki", 3100>>} \union Resolves("files"), {}),
                 alerts |-> FileLogRules(e)]
        scraped == UpdatePrometheus(m, {"files-rules"}, series, {<<"prometheus", "files", 9188>>}, e)
        viewed == Reprovision(MountRules(scraped, "files", FileLogRules(e)),
                              NasPanels(m, {"files"} \union Keys({"filter-files"}, filter),
                                        series \union {<<"qnap-nas-collector", "loki">>}), {})
    IN Merge(viewed,
             Manifest([files |-> data],
                      [files |-> [Deployment({<<"files", k>> : k \in DOMAIN data}, <<data>>,
                                             {<<"files", "nas", 22>>})
                                  EXCEPT !.extra = Keys({"filter"}, filter)]],
                      [files_restricted |-> Policy("files", {<<"prometheus", 9188>>},
                           {<<"nas", 22>>, <<"loki", 3100>>} \union KubeDns),
                       files_prometheus_egress |-> EgressPolicy("prometheus", {<<"files", 9188>>}),
                       files_loki_ingress |-> IngressPolicy("loki", {<<"files", 3100>>})]))

Alerting(paused) ==
    Text({"rules"} \union Keys({"paused"}, paused), 0, {<<"grafana", "slack", 443>>}, {})

\* A dedicated policy: the existing one and its field manager stay as they are.
AddSecurity(m, paused) ==
    LET data == [security |-> Dashboard("security", SecurityBoard), alerting |-> Alerting(paused)] ++
                [Provisioned(m) EXCEPT !["provider"].parts = @ \union {"security"}]
    IN Merge(Reprovision(m, data, {"slack-token"}),
             Manifest(<<>>, <<>>, [grafana_slack_egress |-> EgressPolicy("grafana", {<<"slack", 443>>})]))

\* What terraform_manifest refuses.
QueryAccepted(q) ==
    /\ q.paused => q.security
    /\ q.security => q.site # None
    /\ q.syslog => q.nas /\ q.site # None /\ q.site.prod # None
    /\ q.filter => q.syslog \/ q.files
    /\ q.rag => q.site # None
    /\ q.hosts # {} \/ q.llm => q.site # None
    /\ q.prodHost => q.site # None /\ q.site.prod # None
    /\ q.nas => q.site # None
    /\ q.nfs => q.nas /\ q.site # None
    /\ q.files => q.nas /\ q.site # None /\ q.site.prod # None
    /\ q.site # None => SiteAccepted(q.site)

\* terraform_manifest: the opt-ins in the order of the calls.
TerraformManifest(q, e) ==
    LET WithSite(m) == IF q.site # None THEN Merge(m, PrometheusConfig(q, e)) ELSE m
        WithProdHost(m) == IF q.prodHost THEN AddProdHost(m) ELSE m
        WithNas(m) == IF q.nas THEN AddNas(m, e) ELSE m
        WithSyslog(m) == IF q.syslog THEN AddSyslog(m, q.filter, e) ELSE m
        WithNfs(m) == IF q.nfs THEN AddNfs(m, e) ELSE m
        WithFileLogs(m) == IF q.files THEN AddFileLogs(m, q.filter, e) ELSE m
        WithSecurity(m) == IF q.security THEN AddSecurity(m, q.paused) ELSE m
    IN WithSecurity(WithFileLogs(WithNfs(WithSyslog(WithNas(WithProdHost(WithSite(Grafana(q))))))))

----------------------------------------------------------------------------
(* The cluster.                                                            *)

OptIns == {"snmp", "syslog", "nfs", "files", "exporter"}
Removable == OptIns \ {"files"}   \* the collector's state claim is protected
NasPolicies == {"snmp_restricted", "nas_prometheus_egress", "syslog_restricted", "nas_loki_ingress",
                "nfs_restricted", "nfs_prometheus_egress", "files_restricted",
                "files_prometheus_egress", "files_loki_ingress"}

Without(f, names) == [x \in DOMAIN f \ names |-> f[x]]

\* The Pod of a template, once every ConfigMap it mounts exists.
Start(dep, cms) ==
    IF \A m \in dep.mounts : m[1] \in DOMAIN cms
    THEN [m \in dep.mounts |-> cms[m[1]][m[2]]]
    ELSE None

\* Objects replace those of their name.  A Deployment whose template changed
\* starts its Pod anew, and a Pod that waits for a ConfigMap starts with it.
Applied(base, m, held) ==
    LET after == Merge(base, m)
    IN /\ objects' = after
       /\ pods' = [d \in DOMAIN after.deps |->
                       IF d \in DOMAIN pods /\ after.deps[d] = base.deps[d] /\ pods[d] # None
                       THEN pods[d]
                       ELSE Start(after.deps[d], after.cms)]
       /\ protected' = held
       /\ UNCHANGED edition

Namespace == "prometheus" \in DOMAIN objects.cms

Apply(m) == Namespace /\ Applied(objects, m, protected)

ApplyOutsideIn(s) == SiteAccepted(s) /\ Applied(objects, OutsideIn(s), protected)
ApplyRules == Apply(AlertRules(edition))
ApplyAlertmanager == Apply(Alertmanager)
ApplyLoki == Apply(Loki)
ApplyGateway == Apply(Gateway)
ApplyPortal == Apply(Portal)
ApplyNegative == Apply(NegativeAcceptance)

\* Terraform destroys the opt-in objects that it no longer finds in the manifest
\* and refuses a manifest that lacks another object of its own.
Reconciled(m) ==
    LET held == (DOMAIN m.deps \ Removable) \union (DOMAIN m.pols \ NasPolicies)
        kept == Manifest(Without(objects.cms, OptIns \ DOMAIN m.cms),
                         Without(objects.deps, OptIns \ DOMAIN m.deps),
                         Without(objects.pols, NasPolicies \ DOMAIN m.pols))
    IN protected \subseteq held /\ Applied(kept, m, held)

ApplyTerraform(q) ==
    Namespace /\ QueryAccepted(q) /\ Reconciled(TerraformManifest(q, edition))

Restart(d) ==
    /\ pods[d] \notin {None, Start(objects.deps[d], objects.cms)}
    /\ pods' = [pods EXCEPT ![d] = Start(objects.deps[d], objects.cms)]
    /\ UNCHANGED <<edition, objects, protected>>

Edit(t) ==
    /\ edition[t] < MaxEdits
    /\ edition' = [edition EXCEPT ![t] = @ + 1]
    /\ UNCHANGED <<objects, protected, pods>>

Init ==
    /\ edition = [t \in {"rules", "nfs", "files"} |-> 0]
    /\ objects = Manifest(<<>>, <<>>, <<>>)
    /\ protected = {}
    /\ pods = <<>>

Next ==
    \/ \E s \in Sites : ApplyOutsideIn(s)
    \/ ApplyRules
    \/ ApplyAlertmanager
    \/ ApplyLoki
    \/ ApplyGateway
    \/ ApplyPortal
    \/ ApplyNegative
    \/ \E q \in Queries : ApplyTerraform(q)
    \/ \E d \in DOMAIN pods : Restart(d)
    \/ \E t \in Edited : Edit(t)

Spec == Init /\ [][Next]_vars

----------------------------------------------------------------------------
(* Properties.                                                             *)

Running == {d \in DOMAIN pods : pods[d] # None}
Policies == {objects.pols[n] : n \in DOMAIN objects.pols}

\* NetworkPolicies add up: a Pod no policy selects in a direction is open in it.
Allows(rules, peer, port) == <<peer, port>> \in rules \/ <<"any", port>> \in rules

Open(f) ==
    /\ \/ \A p \in Policies : p.pod = f[1] => "Egress" \notin p.types
       \/ \E p \in Policies : p.pod = f[1] /\ "Egress" \in p.types /\ Allows(p.egress, f[2], f[3])
    /\ \/ \A p \in Policies : p.pod = f[2] => "Ingress" \notin p.types
       \/ \E p \in Policies : p.pod = f[2] /\ "Ingress" \in p.types /\ Allows(p.ingress, f[1], f[3])

Flows == UNION {(UNION {pods[d][m].calls : m \in DOMAIN pods[d]}) \union objects.deps[d].calls
                : d \in Running}

Present(x) == x \in PodNames => x \in Running

\* The targets of a site lie in its egress_cidrs, which validate_site leaves
\* to the operator.
Covered(s) == \A t \in Range(s.api \o s.tcp \o s.metrics) : t.host \in Hosts(s)

\* Every connection that the configuration of a running process makes it open,
\* to an address or to a Pod that runs, passes the egress rules of its Pod and
\* the ingress rules of the peer, whichever manifests are applied and in
\* whichever order: each renderer opens its half and relies on the others for
\* theirs (prod_prometheus_config_render.py:35, prod_o4_loki_render.py:177).
FlowsOpen ==
    (\A s \in Sites : SiteAccepted(s) => Covered(s)) =>
        \A f \in Flows : Present(f[1]) /\ Present(f[2]) => Open(f)

\* A running Pod has read the texts that the ConfigMaps of its own manifest
\* hold now: whatever is edited, switched on or off and applied, the digest in
\* the template changes with them.  The one key left out is the NFS alert
\* rules, which RulesInDigest is about.
PodsCurrent ==
    \A d \in Running : \A m \in DOMAIN pods[d] :
        (m[1] # "rules" /\ m # <<"nfs", "alerts">>) => pods[d][m] = objects.cms[m[1]][m[2]]

RuleMaps == {"rules", "nfs", "files"} \intersect DOMAIN objects.cms

Queried == UNION ({objects.cms["grafana"][k].series : k \in DOMAIN objects.cms["grafana"]}
                  \union {objects.cms[c].alerts.series : c \in RuleMaps})

\* No provisioned dashboard (but for the kernel-build board, which is not
\* modelled) and no alert rule queries a series of a job that is scraped and
\* whose selection throws it away: the selections of the scrape jobs
\* (node_metric_names, the job of the prod target copied from the one before it,
\* the opt-ins' own) keep what the other scripts show and alert on,
\* whichever site and opt-ins are applied over which.
SeriesKept ==
    {"prometheus", "grafana"} \subseteq DOMAIN objects.cms =>
        LET kept == objects.cms["prometheus"].config.series
        IN \A x \in Queried : (\E y \in kept : y[1] = x[1]) => x \in kept

\* update_prometheus_config: "Keep configuration and the mounted alert-rule
\* text in the rollout digest" (prod_nas_monitoring.py:221): the Prometheus Pod
\* has read the alert rules that its own manifest mounts into it.
RulesInDigest ==
    "prometheus" \in Running =>
        \A m \in DOMAIN pods["prometheus"] :
            m[1] # "rules" => pods["prometheus"][m] = objects.cms[m[1]][m[2]]

=============================================================================
