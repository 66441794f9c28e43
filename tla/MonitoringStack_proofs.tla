------------------------ MODULE MonitoringStack_proofs ------------------------
(***************************************************************************)
(* Invariants of the production monitoring stack, proved of Operations for *)
(* every value of its constants.                                           *)
(***************************************************************************)
EXTENDS Operations, Recursion

-----------------------------------------------------------------------------
(* MonitoringStack                                                         *)

-----------------------------------------------------------------------------
(* Manifests.                                                              *)

IsText(t) == t = MonitoringStack!Text(t.parts, t.edition, t.calls, t.series)
IsManifest(m) == m = MonitoringStack!Manifest(m.cms, m.deps, m.pols)
IsTemplate(t) == t = [mounts |-> t.mounts, digest |-> t.digest, calls |-> t.calls, extra |-> t.extra]

\* r is f over g.
Over(r, f, g) ==
    /\ DOMAIN r = DOMAIN f \cup DOMAIN g
    /\ \A x \in DOMAIN f : r[x] = f[x]
    /\ \A x \in DOMAIN g : x \notin DOMAIN f => r[x] = g[x]

\* What ++ does, in terms the proofs can use.
LEMMA OverOf == ASSUME NEW f, NEW g PROVE Over(MonitoringStack!++(f, g), f, g)
  BY DEF Over, MonitoringStack!++

LEMMA ManifestFields ==
    ASSUME NEW cms, NEW deps, NEW pols
    PROVE  LET m == MonitoringStack!Manifest(cms, deps, pols)
           IN  m.cms = cms /\ m.deps = deps /\ m.pols = pols /\ IsManifest(m)
  BY DEF MonitoringStack!Manifest, IsManifest

LEMMA TextFields ==
    ASSUME NEW parts, NEW n, NEW calls, NEW series
    PROVE  LET t == MonitoringStack!Text(parts, n, calls, series)
           IN  t.parts = parts /\ t.edition = n /\ t.calls = calls /\ t.series = series /\ IsText(t)
  BY DEF MonitoringStack!Text, IsText

LEMMA DeploymentFields ==
    ASSUME NEW volumes, NEW digest, NEW calls
    PROVE  LET t == MonitoringStack!Deployment(volumes, digest, calls)
           IN  t.mounts = volumes /\ t.digest = digest /\ t.calls = calls /\ IsTemplate(t)
  BY DEF MonitoringStack!Deployment, IsTemplate

MergedOf(r, m, n) ==
    IsManifest(r) /\ Over(r.cms, n.cms, m.cms) /\ Over(r.deps, n.deps, m.deps) /\ Over(r.pols, n.pols, m.pols)

\* A manifest over another: part by part, the objects of n win.
LEMMA MergeFields ==
    ASSUME NEW m, NEW n
    PROVE  MergedOf(MonitoringStack!Merge(m, n), m, n)
  BY ManifestFields, OverOf DEF MonitoringStack!Merge, MergedOf

\* Changes of one entry.
Changed(g, f, key, value) ==
    /\ DOMAIN g = DOMAIN f
    /\ key \in DOMAIN f => g[key] = value
    /\ \A x \in DOMAIN f \ {key} : g[x] = f[x]

Remounted(t, volumes, digest) == [t EXCEPT !.mounts = volumes, !.digest = digest]
Replaced(t, volumes, digest, extra) == [t EXCEPT !.mounts = volumes, !.digest = digest, !.extra = extra]

LEMMA TemplateFields ==
    ASSUME NEW t, IsTemplate(t), NEW volumes, NEW digest, NEW extra
    PROVE  /\ Remounted(t, volumes, digest)
              = [mounts |-> volumes, digest |-> digest, calls |-> t.calls, extra |-> t.extra]
           /\ Replaced(t, volumes, digest, extra)
              = [mounts |-> volumes, digest |-> digest, calls |-> t.calls, extra |-> extra]
<1> DEFINE calls == t.calls
           t1 == [t EXCEPT !.mounts = volumes]
           t2 == [t1 EXCEPT !.digest = digest]
           t3 == [t2 EXCEPT !.extra = extra]
<1>1. t1 = [mounts |-> volumes, digest |-> t.digest, calls |-> t.calls, extra |-> t.extra]
  BY DEF IsTemplate
<1> HIDE DEF t1
<1>2. t2 = [mounts |-> volumes, digest |-> digest, calls |-> t.calls, extra |-> t.extra]
  BY <1>1
<1> HIDE DEF t2
<1>3. t3 = [mounts |-> volumes, digest |-> digest, calls |-> t.calls, extra |-> extra]
  BY <1>2
<1> HIDE DEF t3
<1> QED BY <1>2, <1>3 DEF t1, t2, t3, Remounted, Replaced

\* What AddNas, AddNfs and the others change of Grafana: its texts, mounts and digest.
LEMMA ReprovisionFields ==
    ASSUME NEW m, NEW data, NEW extra, IsManifest(m),
           "grafana" \in DOMAIN m.deps, IsTemplate(m.deps["grafana"])
    PROVE  LET r == MonitoringStack!Reprovision(m, data, extra)
               old == m.deps["grafana"]
           IN  /\ IsManifest(r) /\ r.pols = m.pols
               /\ Changed(r.cms, m.cms, "grafana", data)
               /\ Changed(r.deps, m.deps, "grafana",
                      [mounts |-> MonitoringStack!Mounted(DOMAIN data), digest |-> <<data>>,
                       calls |-> old.calls, extra |-> old.extra \cup extra])
<1> DEFINE old == m.deps["grafana"]
           r == MonitoringStack!Reprovision(m, data, extra)
           template == [old EXCEPT !.mounts = MonitoringStack!Mounted(DOMAIN data), !.digest = <<data>>,
                                   !.extra = old.extra \cup extra]
           cms == [m.cms EXCEPT !["grafana"] = data]
           deps == [m.deps EXCEPT !["grafana"] = template]
<1>1. r = [m EXCEPT !.cms = cms, !.deps = deps]
  BY DEF MonitoringStack!Reprovision, IsManifest, MonitoringStack!Manifest
<1>2. template = [mounts |-> MonitoringStack!Mounted(DOMAIN data), digest |-> <<data>>,
                  calls |-> old.calls, extra |-> old.extra \cup extra]
  <2> DEFINE volumes == MonitoringStack!Mounted(DOMAIN data)
             digest == <<data>>
             more == old.extra \cup extra
  <2>1. IsTemplate(old)
    OBVIOUS
  <2> HIDE DEF old, volumes, digest, more
  <2>2. Replaced(old, volumes, digest, more)
        = [mounts |-> volumes, digest |-> digest, calls |-> old.calls, extra |-> more]
    BY <2>1, TemplateFields
  <2> QED BY <2>2 DEF volumes, digest, more, Replaced
<1>3. Changed(cms, m.cms, "grafana", data)
  BY DEF Changed
<1>4. Changed(deps, m.deps, "grafana", template)
  <2> HIDE DEF template
  <2> QED BY DEF Changed
<1> HIDE DEF r, cms, deps, template
<1>5. r.cms = cms /\ r.deps = deps /\ r.pols = m.pols /\ IsManifest(r)
  BY <1>1 DEF IsManifest, MonitoringStack!Manifest
<1> QED BY <1>2, <1>3, <1>4, <1>5 DEF r, old

\* What update_prometheus_config changes: the text, and the digest taken of it.
LEMMA UpdateFields ==
    ASSUME NEW m, NEW parts, NEW kept, NEW calls, NEW e, IsManifest(m),
           "prometheus" \in DOMAIN m.deps, IsTemplate(m.deps["prometheus"])
    PROVE  LET r == MonitoringStack!UpdatePrometheus(m, parts, kept, calls, e)
               old == m.deps["prometheus"]
               config == m.cms["prometheus"].config
               text == MonitoringStack!Text(config.parts \cup parts, 0, config.calls \cup calls,
                                            config.series \cup kept)
           IN  /\ IsManifest(r) /\ r.pols = m.pols
               /\ Changed(r.cms, m.cms, "prometheus", [config |-> text])
               /\ Changed(r.deps, m.deps, "prometheus",
                      [mounts |-> old.mounts, digest |-> <<text, MonitoringStack!RuleText(e)>>,
                       calls |-> old.calls, extra |-> old.extra])
<1> DEFINE old == m.deps["prometheus"]
           config == m.cms["prometheus"].config
           text == MonitoringStack!Text(config.parts \cup parts, 0, config.calls \cup calls,
                                        config.series \cup kept)
           rules == MonitoringStack!RuleText(e)
           r == MonitoringStack!UpdatePrometheus(m, parts, kept, calls, e)
           template == [old EXCEPT !.digest = <<text, rules>>]
           cms == [m.cms EXCEPT !["prometheus"] = [config |-> text]]
           deps == [m.deps EXCEPT !["prometheus"] = template]
<1>1. r = [m EXCEPT !.cms["prometheus"] = [config |-> text], !.deps["prometheus"].digest = <<text, rules>>]
  BY DEF MonitoringStack!UpdatePrometheus
<1> HIDE DEF text, rules, config
<1>2. r = [m EXCEPT !.cms = cms, !.deps = deps]
  BY <1>1 DEF IsManifest, MonitoringStack!Manifest
<1>3. template = [mounts |-> old.mounts, digest |-> <<text, rules>>, calls |-> old.calls, extra |-> old.extra]
  BY DEF IsTemplate
<1>4. Changed(cms, m.cms, "prometheus", [config |-> text])
  BY DEF Changed
<1>5. Changed(deps, m.deps, "prometheus", template)
  <2> HIDE DEF template
  <2> QED BY DEF Changed
<1> HIDE DEF r, cms, deps, template
<1>6. r.cms = cms /\ r.deps = deps /\ r.pols = m.pols /\ IsManifest(r)
  BY <1>2 DEF IsManifest, MonitoringStack!Manifest
<1> QED BY <1>3, <1>4, <1>5, <1>6 DEF r, old, text, rules, config

\* What mounting alert rules changes of Prometheus.
LEMMA MountFields ==
    ASSUME NEW m, NEW cm, NEW text, IsManifest(m),
           "prometheus" \in DOMAIN m.deps, IsTemplate(m.deps["prometheus"])
    PROVE  LET r == MonitoringStack!MountRules(m, cm, text)
               old == m.deps["prometheus"]
           IN  /\ IsManifest(r) /\ r.pols = m.pols /\ r.cms = m.cms
               /\ Changed(r.deps, m.deps, "prometheus",
                      [mounts |-> old.mounts \cup {<<cm, "alerts">>}, digest |-> Append(old.digest, text),
                       calls |-> old.calls, extra |-> old.extra])
<1> DEFINE old == m.deps["prometheus"]
           r == MonitoringStack!MountRules(m, cm, text)
           template == [old EXCEPT !.mounts = old.mounts \cup {<<cm, "alerts">>}, !.digest = Append(old.digest, text)]
           deps == [m.deps EXCEPT !["prometheus"] = template]
<1>1. r = [m EXCEPT !.deps = deps]
  BY DEF MonitoringStack!MountRules, IsManifest, MonitoringStack!Manifest
<1>2. template = [mounts |-> old.mounts \cup {<<cm, "alerts">>}, digest |-> Append(old.digest, text),
                  calls |-> old.calls, extra |-> old.extra]
  <2> DEFINE volumes == old.mounts \cup {<<cm, "alerts">>}
             digest == Append(old.digest, text)
  <2>1. IsTemplate(old)
    OBVIOUS
  <2> HIDE DEF old, volumes, digest
  <2>2. Remounted(old, volumes, digest)
        = [mounts |-> volumes, digest |-> digest, calls |-> old.calls, extra |-> old.extra]
    BY <2>1, TemplateFields
  <2> QED BY <2>2 DEF volumes, digest, Remounted
<1>3. Changed(deps, m.deps, "prometheus", template)
  <2> HIDE DEF template
  <2> QED BY DEF Changed
<1> HIDE DEF r, deps, template
<1>4. r.cms = m.cms /\ r.deps = deps /\ r.pols = m.pols /\ IsManifest(r)
  BY <1>1 DEF IsManifest, MonitoringStack!Manifest
<1> QED BY <1>2, <1>3, <1>4 DEF r, old

-----------------------------------------------------------------------------
(* What a manifest keeps: each Pod's own texts and the series.             *)

NegativeText ==
    MonitoringStack!Text({"negative"}, 0,
        {<<"negative", "blackbox", 9115>>} \cup MonitoringStack!Resolves("negative"), {})

\* The text of a key of a Pod's own ConfigMap, as its digest tells it.
ReadOf(d, digest, k) ==
    IF d \in {"grafana", "nfs", "files"} THEN digest[1][k]
    ELSE IF d = "negative" THEN NegativeText ELSE digest[1]

\* The ConfigMap holds the key and what the digest tells of it.
Told(data, d, digest, k) == k \in DOMAIN data /\ data[k] = ReadOf(d, digest, k)

RuleMounts == {<<"rules", "alerts">>, <<"nfs", "alerts">>, <<"files", "alerts">>}

\* A template mounts keys of the ConfigMap of its name, and the rules.
Template(d, t) ==
    \A x \in t.mounts :
        /\ x = <<x[1], x[2]>>
        /\ \/ x[1] = d /\ (d = "prometheus" => x[2] = "config")
           \/ d = "prometheus" /\ x \in RuleMounts

OwnTied(cms, deps) ==
    /\ "rules" \notin DOMAIN deps
    /\ \A d \in DOMAIN deps :
           /\ d # "exporter" => d \in DOMAIN cms
           /\ d = "exporter" => deps[d].mounts = {}
           /\ Template(d, deps[d])
           /\ \A x \in deps[d].mounts : x[1] = d => Told(cms[d], d, deps[d].digest, x[2])

\* No ConfigMap comes without its Deployment but the staging rules.
Housed(cms, deps) == \A c \in DOMAIN cms : c \in DOMAIN deps \/ c = "rules"

\* What the dashboards and the rules query of a job.
GroupsOf(j) ==
    IF j \in {"staging-api", "staging-tcp"} THEN {"probe"}
    ELSE IF j = "staging-node-exporter" THEN {"node", "filesystem"}
    ELSE IF j = "prod-node-exporter" THEN {"node", "filesystem", "detail"}
    ELSE IF j = "openwrt-node-exporter" THEN {"node"}
    ELSE IF j \in {"desktop", "typevt"} THEN {"node", "filesystem", "detail", "desktop"}
    ELSE IF j = "desktop-rag" THEN {"rag"}
    ELSE IF j = "qnap-nas-snmp" THEN {"qnap"}
    ELSE IF j = "qnap-nas-collector" THEN {"loki"}
    ELSE IF j = "qnap-nas-nfs" THEN {"nfs"}
    ELSE IF j = "qnap-nas-file-logs" THEN {"files", "smart"}
    ELSE {}

Queriable(series) == \A x \in series : x = <<x[1], x[2]>> /\ x[2] \in GroupsOf(x[1])
Closed(series) == \A y \in series : \A g \in GroupsOf(y[1]) : <<y[1], g>> \in series

QueriesIn(data) == \A k \in DOMAIN data : Queriable(data[k].series)

SeriesOK(cms) ==
    /\ "prometheus" \in DOMAIN cms => Closed(cms["prometheus"].config.series)
    /\ "grafana" \in DOMAIN cms => QueriesIn(cms["grafana"])
    /\ \A c \in {"rules", "nfs", "files"} : c \in DOMAIN cms => Queriable(cms[c].alerts.series)

Shape(m) ==
    /\ IsManifest(m)
    /\ OwnTied(m.cms, m.deps)
    /\ Housed(m.cms, m.deps)
    /\ "files" \notin DOMAIN m.pols
    /\ SeriesOK(m.cms)

\* The series of two manifests, one over the other.
LEMMA SeriesOver ==
    ASSUME NEW r, NEW f, NEW g, SeriesOK(f), SeriesOK(g), Over(r, f, g)
    PROVE  SeriesOK(r)
<1>1. \A c \in DOMAIN r : (c \in DOMAIN f /\ r[c] = f[c]) \/ (c \in DOMAIN g /\ r[c] = g[c])
  BY DEF Over
<1>2. ASSUME "prometheus" \in DOMAIN r PROVE Closed(r["prometheus"].config.series)
  BY <1>1, <1>2 DEF SeriesOK
<1>3. ASSUME "grafana" \in DOMAIN r PROVE QueriesIn(r["grafana"])
  BY <1>1, <1>3 DEF SeriesOK
<1>4. ASSUME NEW c \in {"rules", "nfs", "files"}, c \in DOMAIN r PROVE Queriable(r[c].alerts.series)
  BY <1>1, <1>4 DEF SeriesOK
<1> QED BY <1>2, <1>3, <1>4 DEF SeriesOK

\* What replaces a ConfigMap replaces its Deployment with it.
LEMMA TiedOver ==
    ASSUME NEW cms, NEW deps, NEW f, NEW g, NEW p, NEW q,
           OwnTied(f, p), OwnTied(g, q), Housed(f, p), Over(cms, f, g), Over(deps, p, q)
    PROVE  OwnTied(cms, deps)
<1>1. "rules" \notin DOMAIN deps
  BY DEF OwnTied, Over
<1>2. ASSUME NEW d \in DOMAIN deps
      PROVE  /\ d # "exporter" => d \in DOMAIN cms
             /\ d = "exporter" => deps[d].mounts = {}
             /\ Template(d, deps[d])
             /\ \A x \in deps[d].mounts : x[1] = d => Told(cms[d], d, deps[d].digest, x[2])
  <2>1. CASE d \in DOMAIN p
    <3>1. deps[d] = p[d] /\ (d # "exporter" => d \in DOMAIN cms /\ cms[d] = f[d])
      BY <2>1 DEF Over, OwnTied
    <3> QED BY <2>1, <3>1 DEF OwnTied
  <2>2. CASE d \notin DOMAIN p
    <3>1. d \in DOMAIN q /\ deps[d] = q[d] /\ d # "rules" /\ d \notin DOMAIN f
      BY <2>2, <1>1 DEF Over, Housed
    <3>2. d # "exporter" => d \in DOMAIN cms /\ cms[d] = g[d]
      BY <3>1 DEF Over, OwnTied
    <3> QED BY <3>1, <3>2 DEF OwnTied
  <2> QED BY <2>1, <2>2
<1> QED BY <1>1, <1>2 DEF OwnTied

\* Two manifests that keep their promises keep them when one is merged into the other.
LEMMA MergeShape ==
    ASSUME NEW m, NEW n, Shape(m), Shape(n)
    PROVE  Shape(MonitoringStack!Merge(m, n))
<1> DEFINE r == MonitoringStack!Merge(m, n)
<1>1. MergedOf(r, m, n)
  BY MergeFields
<1> HIDE DEF r
<1>2. OwnTied(r.cms, r.deps)
  BY <1>1, TiedOver DEF Shape, MergedOf
<1>3. Housed(r.cms, r.deps) /\ "files" \notin DOMAIN r.pols
  BY <1>1 DEF Shape, MergedOf, Housed, Over
<1>4. SeriesOK(r.cms)
  BY <1>1, SeriesOver DEF Shape, MergedOf
<1> QED BY <1>1, <1>2, <1>3, <1>4 DEF Shape, MergedOf, r

-----------------------------------------------------------------------------
(* The manifest that grows: what every opt-in relies on.                   *)

AreTexts(data) == \A k \in DOMAIN data : IsText(data[k])
CallsWithin(data, calls) == \A k \in DOMAIN data : data[k].calls \subseteq calls

Grown(m) ==
    /\ Shape(m)
    /\ "grafana" \in DOMAIN m.deps /\ IsTemplate(m.deps["grafana"]) /\ AreTexts(m.cms["grafana"])
    /\ "prometheus" \in DOMAIN m.cms =>
           /\ "prometheus" \in DOMAIN m.deps
           /\ IsTemplate(m.deps["prometheus"])
           /\ IsText(m.cms["prometheus"].config)

Same(f, g, names) == \A k \in names : (k \in DOMAIN f <=> k \in DOMAIN g) /\ (k \in DOMAIN g => f[k] = g[k])
SameFor(m, n, names) == Same(m.cms, n.cms, names) /\ Same(m.deps, n.deps, names)

\* The Pods that Terraform's opt-ins change.
Shared == {"grafana", "prometheus"}

\* Merging in what leaves Grafana and Prometheus alone.
LEMMA MergeGrown ==
    ASSUME NEW m, NEW n, Grown(m), Shape(n),
           "grafana" \notin DOMAIN n.cms \cup DOMAIN n.deps,
           "prometheus" \notin DOMAIN n.cms \cup DOMAIN n.deps
    PROVE  /\ Grown(MonitoringStack!Merge(m, n))
           /\ SameFor(MonitoringStack!Merge(m, n), m, Shared)
           /\ MergedOf(MonitoringStack!Merge(m, n), m, n)
<1> DEFINE r == MonitoringStack!Merge(m, n)
<1>1. MergedOf(r, m, n) /\ Shape(r)
  BY MergeFields, MergeShape DEF Grown
<1> HIDE DEF r
<1>2. SameFor(r, m, Shared)
  BY <1>1 DEF MergedOf, Over, Shared, Same, SameFor
<1>3. /\ "grafana" \in DOMAIN m.deps /\ "grafana" \in DOMAIN m.cms
      /\ "prometheus" \in DOMAIN r.cms => "prometheus" \in DOMAIN m.cms /\ "prometheus" \in DOMAIN m.deps
  BY <1>2 DEF Grown, Shape, OwnTied, SameFor, Same, Shared
<1>4. /\ "grafana" \in DOMAIN r.deps /\ r.deps["grafana"] = m.deps["grafana"]
      /\ r.cms["grafana"] = m.cms["grafana"]
      /\ "prometheus" \in DOMAIN r.cms =>
             "prometheus" \in DOMAIN r.deps /\ r.deps["prometheus"] = m.deps["prometheus"]
             /\ r.cms["prometheus"] = m.cms["prometheus"]
  BY <1>2, <1>3 DEF SameFor, Same, Shared
<1>5. Grown(r)
  BY <1>1, <1>3, <1>4 DEF Grown
<1> QED BY <1>1, <1>2, <1>5 DEF r

\* One ConfigMap and its Deployment change: the rest stays as it was.
LEMMA ChangedTied ==
    ASSUME NEW cms, NEW deps, NEW f, NEW g, NEW d, NEW data, NEW t,
           OwnTied(f, g), d \in DOMAIN g, d # "exporter", Changed(cms, f, d, data), Changed(deps, g, d, t),
           Template(d, t), \A x \in t.mounts : x[1] = d => Told(data, d, t.digest, x[2])
    PROVE  OwnTied(cms, deps)
<1>1. d \in DOMAIN f /\ d \in DOMAIN deps /\ cms[d] = data /\ deps[d] = t
  BY DEF OwnTied, Changed
<1>2. "rules" \notin DOMAIN deps
  BY DEF OwnTied, Changed
<1>3. ASSUME NEW y \in DOMAIN deps
      PROVE  /\ y # "exporter" => y \in DOMAIN cms
             /\ y = "exporter" => deps[y].mounts = {}
             /\ Template(y, deps[y])
             /\ \A x \in deps[y].mounts : x[1] = y => Told(cms[y], y, deps[y].digest, x[2])
  <2>1. CASE y = d
    BY <1>1, <2>1 DEF Changed
  <2>2. CASE y # d
    <3>1. y \in DOMAIN g /\ deps[y] = g[y] /\ (y # "exporter" => y \in DOMAIN cms /\ cms[y] = f[y])
      BY <2>2 DEF Changed, OwnTied
    <3> QED BY <3>1 DEF OwnTied
  <2> QED BY <2>1, <2>2
<1> QED BY <1>2, <1>3 DEF OwnTied

LEMMA MountedKeys ==
    ASSUME NEW names
    PROVE  \A x \in MonitoringStack!Mounted(names) : x = <<x[1], x[2]>> /\ x[1] = "grafana" /\ x[2] \in names
  BY DEF MonitoringStack!Mounted

\* Provisioning more dashboards: the digest is of all the texts then mounted.
LEMMA ReprovisionGrown ==
    ASSUME NEW m, NEW data, NEW extra, Grown(m), AreTexts(data), QueriesIn(data)
    PROVE  LET r == MonitoringStack!Reprovision(m, data, extra)
           IN  /\ Grown(r) /\ r.pols = m.pols
               /\ SameFor(r, m, {"prometheus", "files"})
               /\ DOMAIN r.cms = DOMAIN m.cms /\ DOMAIN r.deps = DOMAIN m.deps
               /\ r.cms["grafana"] = data
<1> DEFINE r == MonitoringStack!Reprovision(m, data, extra)
           old == m.deps["grafana"]
           t == [mounts |-> MonitoringStack!Mounted(DOMAIN data), digest |-> <<data>>,
                 calls |-> old.calls, extra |-> old.extra \cup extra]
<1>1. "grafana" \in DOMAIN m.deps /\ "grafana" \in DOMAIN m.cms /\ IsTemplate(old) /\ IsManifest(m)
  BY DEF Grown, Shape, OwnTied
<1>2. /\ IsManifest(r) /\ r.pols = m.pols
      /\ Changed(r.cms, m.cms, "grafana", data)
      /\ Changed(r.deps, m.deps, "grafana", t)
  BY <1>1, ReprovisionFields
<1>3. Template("grafana", t) /\ IsTemplate(t) /\ t.digest = <<data>>
  BY MountedKeys DEF Template, IsTemplate
<1> HIDE DEF r, old, t
<1>4. \A x \in t.mounts : x[1] = "grafana" => Told(data, "grafana", t.digest, x[2])
  BY <1>3, MountedKeys DEF ReadOf, Told, t
<1>5. OwnTied(r.cms, r.deps)
  BY <1>1, <1>2, <1>3, <1>4, ChangedTied DEF Grown, Shape
<1>6. SeriesOK(r.cms)
  BY <1>1, <1>2 DEF SeriesOK, Changed, Grown, Shape
<1>7. Shape(r)
  BY <1>2, <1>5, <1>6 DEF Shape, Grown, Housed, Changed
<1>8. SameFor(r, m, {"prometheus", "files"})
  BY <1>2 DEF SameFor, Same, Changed
<1>9. Grown(r)
  BY <1>1, <1>2, <1>3, <1>7 DEF Grown, Changed
<1> QED BY <1>1, <1>2, <1>8, <1>9 DEF Changed, r

LEMMA ClosedUnion ==
    ASSUME NEW s, NEW t, Closed(s), Closed(t) PROVE Closed(s \cup t)
  BY DEF Closed

\* A configuration with more jobs: the digest is of the new text.
LEMMA UpdateGrown ==
    ASSUME NEW m, NEW parts, NEW kept, NEW calls, NEW e, Grown(m), "prometheus" \in DOMAIN m.cms, Closed(kept)
    PROVE  LET r == MonitoringStack!UpdatePrometheus(m, parts, kept, calls, e)
           IN  /\ Grown(r) /\ r.pols = m.pols
               /\ SameFor(r, m, {"grafana"})
               /\ DOMAIN r.cms = DOMAIN m.cms /\ DOMAIN r.deps = DOMAIN m.deps
               /\ r.deps["prometheus"].mounts = m.deps["prometheus"].mounts
               /\ \E a, b : r.deps["prometheus"].digest = <<a, b>>
<1> DEFINE r == MonitoringStack!UpdatePrometheus(m, parts, kept, calls, e)
           old == m.deps["prometheus"]
           config == m.cms["prometheus"].config
           series == config.series \cup kept
           text == MonitoringStack!Text(config.parts \cup parts, 0, config.calls \cup calls, series)
           rules == MonitoringStack!RuleText(e)
           data == [config |-> text]
           t == [mounts |-> old.mounts, digest |-> <<text, rules>>, calls |-> old.calls, extra |-> old.extra]
<1>1. "prometheus" \in DOMAIN m.deps /\ IsTemplate(old) /\ IsManifest(m) /\ IsText(config)
  BY DEF Grown, Shape
<1>2. /\ IsManifest(r) /\ r.pols = m.pols
      /\ Changed(r.cms, m.cms, "prometheus", data)
      /\ Changed(r.deps, m.deps, "prometheus", t)
  BY <1>1, UpdateFields
<1>3. Closed(series)
  BY ClosedUnion DEF Grown, Shape, SeriesOK
<1> HIDE DEF series
<1>4. IsText(text) /\ text.series = series
  BY TextFields
<1> HIDE DEF text, rules
<1>5. Template("prometheus", old)
  BY <1>1 DEF Grown, Shape, OwnTied
<1> HIDE DEF old, config, r
<1>6. Template("prometheus", t) /\ IsTemplate(t) /\ t.mounts = old.mounts /\ t.digest = <<text, rules>>
  BY <1>5 DEF Template, IsTemplate
<1> HIDE DEF t
<1>7. \A x \in t.mounts : x[1] = "prometheus" => Told(data, "prometheus", t.digest, x[2])
  BY <1>6 DEF ReadOf, Told, Template, RuleMounts
<1> HIDE DEF data
<1>8. OwnTied(r.cms, r.deps)
  BY <1>1, <1>2, <1>6, <1>7, ChangedTied DEF Grown, Shape
<1>9. "prometheus" \in DOMAIN r.cms /\ r.cms["prometheus"] = data /\ data.config = text
  BY <1>2 DEF Changed, data
<1>10. SeriesOK(r.cms)
  <2>1. Closed(r.cms["prometheus"].config.series)
    BY <1>3, <1>4, <1>9
  <2> QED BY <2>1, <1>2 DEF SeriesOK, Changed, Grown, Shape
<1>11. Shape(r)
  BY <1>2, <1>8, <1>10 DEF Shape, Grown, Housed, Changed
<1>12. SameFor(r, m, {"grafana"})
  BY <1>2 DEF SameFor, Same, Changed
<1>13. Grown(r)
  <2>1. "grafana" \in DOMAIN r.deps /\ IsTemplate(r.deps["grafana"]) /\ AreTexts(r.cms["grafana"])
    BY <1>12, <1>2 DEF SameFor, Same, Grown, Shape, OwnTied
  <2>2. "prometheus" \in DOMAIN r.deps /\ r.deps["prometheus"] = t
    BY <1>1, <1>2 DEF Changed
  <2> QED BY <2>1, <2>2, <1>4, <1>6, <1>9, <1>11 DEF Grown
<1>14. r.deps["prometheus"] = t
  BY <1>1, <1>2 DEF Changed
<1> QED BY <1>2, <1>6, <1>12, <1>13, <1>14 DEF Changed, r, old

LEMMA AppendedText ==
    ASSUME NEW a, NEW b, NEW c
    PROVE  LET s == Append(<<a, b>>, c) IN s[1] = a /\ s[3] = c
  OBVIOUS

\* Mounting alert rules adds them to the digest.
LEMMA MountGrown ==
    ASSUME NEW m, NEW cm, NEW text, NEW a, NEW b, Grown(m), "prometheus" \in DOMAIN m.cms,
           cm \in {"nfs", "files"}, m.deps["prometheus"].digest = <<a, b>>
    PROVE  LET r == MonitoringStack!MountRules(m, cm, text)
           IN  /\ Grown(r) /\ r.pols = m.pols /\ r.cms = m.cms
               /\ SameFor(r, m, {"grafana"})
               /\ DOMAIN r.deps = DOMAIN m.deps
               /\ r.deps["prometheus"].mounts = m.deps["prometheus"].mounts \cup {<<cm, "alerts">>}
               /\ r.deps["prometheus"].digest[3] = text
<1> DEFINE r == MonitoringStack!MountRules(m, cm, text)
           old == m.deps["prometheus"]
           digest == Append(old.digest, text)
           t == [mounts |-> old.mounts \cup {<<cm, "alerts">>}, digest |-> digest,
                 calls |-> old.calls, extra |-> old.extra]
<1>1. "prometheus" \in DOMAIN m.deps /\ IsTemplate(old) /\ IsManifest(m)
  BY DEF Grown, Shape
<1>2. /\ IsManifest(r) /\ r.pols = m.pols /\ r.cms = m.cms
      /\ Changed(r.deps, m.deps, "prometheus", t)
  BY <1>1, MountFields
<1>3. digest[1] = old.digest[1] /\ digest[3] = text
  <2>1. <<a, b>>[1] = a
    OBVIOUS
  <2> QED BY <2>1, AppendedText
<1> HIDE DEF digest
<1>4. /\ Template("prometheus", old)
      /\ \A x \in old.mounts : x[1] = "prometheus" => Told(m.cms["prometheus"], "prometheus", old.digest, x[2])
  BY <1>1 DEF Grown, Shape, OwnTied
<1> HIDE DEF old, r
<1>5. /\ Template("prometheus", t) /\ IsTemplate(t) /\ t.digest = digest
      /\ t.mounts = old.mounts \cup {<<cm, "alerts">>}
  BY <1>4 DEF Template, IsTemplate, RuleMounts
<1> HIDE DEF t
<1>6. \A x \in t.mounts : x[1] = "prometheus" => Told(m.cms["prometheus"], "prometheus", t.digest, x[2])
  BY <1>3, <1>4, <1>5 DEF ReadOf, Told
<1>7. OwnTied(r.cms, r.deps)
  <2>1. Changed(r.cms, m.cms, "prometheus", m.cms["prometheus"])
    BY <1>2 DEF Changed
  <2> QED BY <1>1, <1>2, <1>5, <1>6, <2>1, ChangedTied DEF Grown, Shape
<1>8. Shape(r)
  BY <1>2, <1>7 DEF Shape, Grown, Housed, Changed
<1>9. SameFor(r, m, {"grafana"})
  BY <1>2 DEF SameFor, Same, Changed
<1>10. r.deps["prometheus"] = t /\ "prometheus" \in DOMAIN r.deps
  BY <1>1, <1>2 DEF Changed
<1>11. Grown(r)
  BY <1>2, <1>5, <1>8, <1>9, <1>10 DEF Grown, SameFor, Same
<1> QED BY <1>2, <1>3, <1>5, <1>9, <1>10, <1>11 DEF Changed, r, old

-----------------------------------------------------------------------------
(* The manifests of one Pod.                                               *)

Lone(m, d) ==
    /\ IsManifest(m)
    /\ DOMAIN m.cms = {d} /\ DOMAIN m.deps = {d}
    /\ "files" \notin DOMAIN m.pols

LEMMA LoneShape ==
    ASSUME NEW m, NEW d, Lone(m, d), d \notin {"exporter", "rules", "prometheus", "grafana"},
           Template(d, m.deps[d]),
           \A x \in m.deps[d].mounts : Told(m.cms[d], d, m.deps[d].digest, x[2]),
           d \in {"nfs", "files"} => Queriable(m.cms[d].alerts.series)
    PROVE  Shape(m)
<1>1. OwnTied(m.cms, m.deps)
  BY DEF OwnTied, Lone
<1>2. Housed(m.cms, m.deps) /\ SeriesOK(m.cms)
  BY DEF Housed, SeriesOK, Lone
<1> QED BY <1>1, <1>2 DEF Shape, Lone

\* The Pods with one text and a digest of it.
Configured(m, d, k, text, calls) ==
    /\ Lone(m, d) /\ DOMAIN m.cms[d] = {k} /\ m.cms[d][k] = text
    /\ m.deps[d] = MonitoringStack!Deployment({<<d, k>>}, <<text>>, calls)

\* A Pod that mounts one text, which its digest is taken of.
LEMMA ConfiguredShape ==
    ASSUME NEW m, NEW d, NEW k, NEW text, NEW calls, Configured(m, d, k, text, calls),
           d \in {"alertmanager", "loki", "gateway", "portal", "snmp", "syslog", "blackbox"}
    PROVE  Shape(m) /\ Lone(m, d)
<1>1. m.deps[d].mounts = {<<d, k>>} /\ m.deps[d].digest = <<text>>
  BY DeploymentFields DEF Configured
<1>2. Template(d, m.deps[d])
  BY <1>1 DEF Template
<1>3. ASSUME NEW x \in m.deps[d].mounts PROVE Told(m.cms[d], d, m.deps[d].digest, x[2])
  <2>1. x[2] = k /\ <<text>>[1] = text
    BY <1>1, <1>3
  <2> QED BY <1>1, <2>1 DEF ReadOf, Told, Configured
<1> QED BY <1>2, <1>3, LoneShape DEF Configured

LEMMA AlertmanagerShape == Shape(MonitoringStack!Alertmanager) /\ Lone(MonitoringStack!Alertmanager, "alertmanager")
<1> DEFINE m == MonitoringStack!Alertmanager
           text == MonitoringStack!AlertmanagerConfig
<1>1. Configured(m, "alertmanager", "config", text, {})
  BY ManifestFields DEF MonitoringStack!Alertmanager, Lone, Configured
<1> HIDE DEF m, text
<1> QED BY <1>1, ConfiguredShape DEF m

LEMMA LokiShape == Shape(MonitoringStack!Loki) /\ Lone(MonitoringStack!Loki, "loki")
<1> DEFINE m == MonitoringStack!Loki
           text == MonitoringStack!LokiConfig
<1>1. Configured(m, "loki", "config", text, {})
  BY ManifestFields DEF MonitoringStack!Loki, Lone, Configured
<1> HIDE DEF m, text
<1> QED BY <1>1, ConfiguredShape DEF m

LEMMA GatewayShape == Shape(MonitoringStack!Gateway) /\ Lone(MonitoringStack!Gateway, "gateway")
<1> DEFINE m == MonitoringStack!Gateway
           text == MonitoringStack!NginxConfig
           calls == {<<"staging", "gateway", 8443>>}
<1>1. Configured(m, "gateway", "config", text, calls)
  BY ManifestFields DEF MonitoringStack!Gateway, Lone, Configured
<1> HIDE DEF m, text, calls
<1> QED BY <1>1, ConfiguredShape DEF m

LEMMA PortalShape == Shape(MonitoringStack!Portal) /\ Lone(MonitoringStack!Portal, "portal")
<1> DEFINE m == MonitoringStack!Portal
           text == MonitoringStack!PortalText
           calls == {<<"tailnet", "portal", 8080>>, <<"tailnet", "grafana", 3000>>}
<1>1. Configured(m, "portal", "content", text, calls)
  BY ManifestFields DEF MonitoringStack!Portal, Lone, Configured
<1> HIDE DEF m, text, calls
<1> QED BY <1>1, ConfiguredShape DEF m

LEMMA SnmpShape == Shape(MonitoringStack!SnmpResources) /\ Lone(MonitoringStack!SnmpResources, "snmp")
<1> DEFINE m == MonitoringStack!SnmpResources
           text == MonitoringStack!SnmpConfig
<1>1. Configured(m, "snmp", "config", text, {})
  BY ManifestFields DEF MonitoringStack!SnmpResources, Lone, Configured
<1> HIDE DEF m, text
<1> QED BY <1>1, ConfiguredShape DEF m

LEMMA SyslogShape ==
    ASSUME NEW filter
    PROVE  Shape(MonitoringStack!SyslogResources(filter)) /\ Lone(MonitoringStack!SyslogResources(filter), "syslog")
<1> DEFINE m == MonitoringStack!SyslogResources(filter)
           text == MonitoringStack!AlloyConfig(filter)
           calls == {<<"nas", "syslog", 1514>>}
<1>1. Configured(m, "syslog", "config", text, calls)
  BY ManifestFields DEF MonitoringStack!SyslogResources, Lone, Configured
<1> HIDE DEF m, text, calls
<1> QED BY <1>1, ConfiguredShape DEF m

LEMMA NegativeShape ==
    Shape(MonitoringStack!NegativeAcceptance) /\ Lone(MonitoringStack!NegativeAcceptance, "negative")
<1> DEFINE m == MonitoringStack!NegativeAcceptance
           calls == {<<"negative", "blackbox", 9115>>} \cup MonitoringStack!Resolves("negative")
           text == MonitoringStack!Text({"negative"}, 0, calls, {})
<1>1. /\ Lone(m, "negative") /\ DOMAIN m.cms["negative"] = {"config"} /\ m.cms["negative"]["config"] = text
      /\ m.deps["negative"] = MonitoringStack!Deployment({<<"negative", "config">>}, <<>>, {})
  <2> DEFINE cms == [negative |-> [config |-> text]]
             deps == [negative |-> MonitoringStack!Deployment({<<"negative", "config">>}, <<>>, {})]
             pols == [negative |-> MonitoringStack!IngressPolicy("blackbox", {<<"negative", 9115>>})]
  <2>1. m = MonitoringStack!Manifest(cms, deps, pols)
    BY DEF MonitoringStack!NegativeAcceptance
  <2>2. m.cms = cms /\ m.deps = deps /\ m.pols = pols /\ IsManifest(m)
    BY <2>1, ManifestFields
  <2> HIDE DEF m
  <2> QED BY <2>2 DEF Lone
<1>2. text = NegativeText
  BY DEF NegativeText
<1> HIDE DEF m, text, calls
<1>3. m.deps["negative"].mounts = {<<"negative", "config">>}
  BY <1>1, DeploymentFields
<1>4. Template("negative", m.deps["negative"])
  BY <1>3 DEF Template
<1>5. \A x \in m.deps["negative"].mounts : Told(m.cms["negative"], "negative", m.deps["negative"].digest, x[2])
  BY <1>1, <1>2, <1>3 DEF ReadOf, Told, Configured
<1> QED BY <1>1, <1>4, <1>5, LoneShape DEF m

LEMMA ExporterShape ==
    /\ Shape(MonitoringStack!Exporter)
    /\ DOMAIN MonitoringStack!Exporter.cms = {} /\ DOMAIN MonitoringStack!Exporter.deps = {"exporter"}
<1> DEFINE m == MonitoringStack!Exporter
<1>1. /\ IsManifest(m) /\ DOMAIN m.cms = {} /\ DOMAIN m.deps = {"exporter"} /\ DOMAIN m.pols = {}
      /\ m.deps["exporter"] = MonitoringStack!Deployment({}, <<>>, {})
  BY ManifestFields DEF MonitoringStack!Exporter
<1> HIDE DEF m
<1>2. m.deps["exporter"].mounts = {}
  BY <1>1, DeploymentFields
<1> QED BY <1>1, <1>2 DEF m, Shape, OwnTied, Housed, SeriesOK, Template

LEMMA RulesShape ==
    ASSUME NEW e
    PROVE  LET m == MonitoringStack!AlertRules(e)
           IN  Shape(m) /\ DOMAIN m.cms = {"rules"} /\ DOMAIN m.deps = {}
<1> DEFINE m == MonitoringStack!AlertRules(e)
           text == MonitoringStack!RuleText(e)
           series == {"staging-api", "staging-tcp"} \X {"probe"}
<1>1. /\ IsManifest(m) /\ DOMAIN m.cms = {"rules"} /\ DOMAIN m.deps = {} /\ DOMAIN m.pols = {}
      /\ m.cms["rules"].alerts = text
  BY ManifestFields DEF MonitoringStack!AlertRules
<1>2. text.series = series
  BY TextFields DEF MonitoringStack!RuleText
<1>3. Queriable(series)
  BY DEF Queriable, GroupsOf
<1> HIDE DEF m, text, series
<1> QED BY <1>1, <1>2, <1>3 DEF m, Shape, OwnTied, Housed, SeriesOK

LEMMA SecurityShape ==
    ASSUME NEW pols, "files" \notin DOMAIN pols
    PROVE  LET m == MonitoringStack!Manifest(<<>>, <<>>, pols)
           IN  Shape(m) /\ DOMAIN m.cms = {} /\ DOMAIN m.deps = {}
<1> DEFINE m == MonitoringStack!Manifest(<<>>, <<>>, pols)
<1>1. IsManifest(m) /\ DOMAIN m.cms = {} /\ DOMAIN m.deps = {} /\ m.pols = pols
  BY ManifestFields
<1> HIDE DEF m
<1> QED BY <1>1 DEF m, Shape, OwnTied, Housed, SeriesOK

\* The collectors of the NAS: a program and its alert rules.
LEMMA CollectorShape ==
    ASSUME NEW m, NEW d \in {"nfs", "files"}, Lone(m, d), NEW data, DOMAIN data = {"code", "alerts"},
           m.cms[d] = data, m.deps[d].digest = <<data>>,
           m.deps[d].mounts = {<<d, k>> : k \in DOMAIN data},
           Queriable(data.alerts.series)
    PROVE  Shape(m)
<1>1. Template(d, m.deps[d])
  BY DEF Template
<1>2. \A x \in m.deps[d].mounts : Told(m.cms[d], d, m.deps[d].digest, x[2])
  BY DEF ReadOf, Told
<1> QED BY <1>1, <1>2, LoneShape

-----------------------------------------------------------------------------
(* Prometheus, the Blackbox exporter and Grafana.                          *)

\* What the scrape jobs of a site keep.
LEMMA JobsClosed ==
    ASSUME NEW s, MonitoringStack!SiteAccepted(s) PROVE Closed(MonitoringStack!Jobs(s))
<1> DEFINE groups == MonitoringStack!NodeGroups(s)
           probes == ({"self", "staging-api"} \cup {j \in {"staging-tcp"} : s.tcp # <<>>}) \X {"probe"}
           nodes == {j \in {"staging-node-exporter"} : s.metrics # <<>>} \X groups
           copied == IF s.metrics # <<>> THEN groups ELSE {"probe"}
           prods == {j \in {"prod-node-exporter"} : s.prod # None} \X copied
           routers == {j \in {"openwrt-node-exporter"} : s.openwrt # None} \X {"node"}
<1>1. Closed(probes)
  BY DEF Closed, GroupsOf
<1>2. "node" \in groups /\ "filesystem" \in groups
  BY DEF MonitoringStack!NodeGroups
<1>3. s.prod # None => "detail" \in groups /\ s.metrics # <<>>
  BY DEF MonitoringStack!NodeGroups, MonitoringStack!SiteAccepted, MonitoringStack!ProdAccepted
<1> HIDE DEF groups
<1>4. Closed(nodes)
  BY <1>2 DEF Closed, GroupsOf
<1>5. Closed(prods)
  <2>1. s.prod # None => copied = groups
    BY <1>3
  <2> HIDE DEF copied
  <2> QED BY <1>2, <1>3, <2>1 DEF Closed, GroupsOf
<1>6. Closed(routers)
  BY DEF Closed, GroupsOf
<1>7. MonitoringStack!Jobs(s) = probes \cup nodes \cup prods \cup routers
  BY DEF MonitoringStack!Jobs, groups
<1> HIDE DEF probes, nodes, prods, routers
<1> QED BY <1>1, <1>4, <1>5, <1>6, <1>7 DEF Closed

LEMMA ConfiguredPrometheus ==
    ASSUME NEW m, IsManifest(m), NEW text, NEW rules, NEW volumes, NEW calls,
           m.cms["prometheus"] = [config |-> text], Closed(text.series),
           volumes \in {{<<"prometheus", "config">>}, {<<"prometheus", "config">>, <<"rules", "alerts">>}},
           m.deps["prometheus"].mounts = volumes, m.deps["prometheus"].digest[1] = text
    PROVE  /\ Template("prometheus", m.deps["prometheus"])
           /\ \A x \in volumes : x[1] = "prometheus" =>
                  Told(m.cms["prometheus"], "prometheus", m.deps["prometheus"].digest, x[2])
           /\ <<"files", "alerts">> \notin volumes
<1>1. Template("prometheus", m.deps["prometheus"])
  BY DEF Template, RuleMounts
<1>2. ASSUME NEW x \in volumes, x[1] = "prometheus" PROVE x[2] = "config"
  BY <1>2
<1>3. [config |-> text]["config"] = text
  OBVIOUS
<1>4. <<"files", "alerts">> \notin volumes
  OBVIOUS
<1> QED BY <1>1, <1>2, <1>3, <1>4 DEF ReadOf, Told

\* O1: Prometheus and the blackbox exporter.
LEMMA OutsideInShape ==
    ASSUME NEW s, MonitoringStack!SiteAccepted(s)
    PROVE  LET m == MonitoringStack!OutsideIn(s)
           IN  /\ Shape(m)
               /\ DOMAIN m.cms = {"prometheus", "blackbox"} /\ DOMAIN m.deps = {"prometheus", "blackbox"}
               /\ <<"files", "alerts">> \notin m.deps["prometheus"].mounts
<1> DEFINE m == MonitoringStack!OutsideIn(s)
           config == MonitoringStack!Text({"jobs"}, 0, MonitoringStack!ScrapeCalls(s), MonitoringStack!Jobs(s))
           modules == MonitoringStack!Text({"modules"}, 0, {}, {})
           names == {<<"prometheus", "config">>}
           cms == [prometheus |-> [config |-> config], blackbox |-> [config |-> modules]]
           deps == [prometheus |-> MonitoringStack!Deployment(names, <<config>>, {}),
                    blackbox |-> MonitoringStack!Deployment({<<"blackbox", "config">>}, <<modules>>, {})]
           pols == [blackbox_restricted |->
                        MonitoringStack!Policy("blackbox", {<<"prometheus", 9115>>}, MonitoringStack!ExporterEgress(s)),
                    prometheus_restricted |->
                        MonitoringStack!Policy("prometheus", {}, MonitoringStack!PrometheusEgress(s))]
<1>1. m = MonitoringStack!Manifest(cms, deps, pols)
  BY DEF MonitoringStack!OutsideIn
<1>2. m.cms = cms /\ m.deps = deps /\ m.pols = pols /\ IsManifest(m)
  BY <1>1, ManifestFields
<1>3. config.series = MonitoringStack!Jobs(s)
  BY TextFields
<1>4. Closed(config.series)
  BY <1>3, JobsClosed
<1> HIDE DEF m, config, modules
<1>5. /\ DOMAIN m.cms = {"prometheus", "blackbox"} /\ DOMAIN m.deps = {"prometheus", "blackbox"}
      /\ m.cms["prometheus"] = [config |-> config] /\ m.cms["blackbox"] = [config |-> modules]
      /\ m.deps["prometheus"] = MonitoringStack!Deployment(names, <<config>>, {})
      /\ m.deps["blackbox"] = MonitoringStack!Deployment({<<"blackbox", "config">>}, <<modules>>, {})
      /\ "files" \notin DOMAIN m.pols
  BY <1>2
<1> HIDE DEF cms, deps, pols
<1>6. /\ m.deps["prometheus"].mounts = names /\ m.deps["prometheus"].digest = <<config>>
      /\ m.deps["blackbox"].mounts = {<<"blackbox", "config">>} /\ m.deps["blackbox"].digest = <<modules>>
  <2>1. m.deps["prometheus"].mounts = names /\ m.deps["prometheus"].digest = <<config>>
    <3> HIDE DEF names
    <3> QED BY <1>5, DeploymentFields
  <2>2. m.deps["blackbox"].mounts = {<<"blackbox", "config">>} /\ m.deps["blackbox"].digest = <<modules>>
    BY <1>5, DeploymentFields
  <2> QED BY <2>1, <2>2
<1>7. /\ Template("prometheus", m.deps["prometheus"])
      /\ \A x \in names : x[1] = "prometheus" =>
             Told(m.cms["prometheus"], "prometheus", m.deps["prometheus"].digest, x[2])
      /\ <<"files", "alerts">> \notin names
  <2>1. <<config>>[1] = config
    OBVIOUS
  <2>2. m.deps["prometheus"].digest[1] = config
    BY <1>6, <2>1
  <2> QED BY <1>2, <1>4, <1>5, <1>6, <2>2, ConfiguredPrometheus
<1>8. /\ Template("blackbox", m.deps["blackbox"])
      /\ \A x \in m.deps["blackbox"].mounts :
             Told(m.cms["blackbox"], "blackbox", m.deps["blackbox"].digest, x[2])
  <2>1. Template("blackbox", m.deps["blackbox"])
    BY <1>6 DEF Template
  <2>2. <<modules>>[1] = modules
    OBVIOUS
  <2>3. DOMAIN m.cms["blackbox"] = {"config"} /\ m.cms["blackbox"]["config"] = modules
    BY <1>5
  <2> QED BY <1>5, <1>6, <2>1, <2>2, <2>3 DEF ReadOf, Told
<1> HIDE DEF names
<1>9. OwnTied(m.cms, m.deps)
  BY <1>5, <1>6, <1>7, <1>8 DEF OwnTied
<1>10. SeriesOK(m.cms)
  BY <1>4, <1>5 DEF SeriesOK
<1>11. Shape(m)
  BY <1>2, <1>5, <1>9, <1>10 DEF Shape, Housed
<1> QED BY <1>5, <1>6, <1>7, <1>11 DEF m

\* The dashboards that Grafana is rendered with query groups that such jobs keep.
LEMMA BoardsQuery ==
    ASSUME NEW k \in {"staging", "logs", "openwrt", "rag", "desktop", "typevt", "attention"}
    PROVE  Queriable(MonitoringStack!Boards[k])
<1>1. Queriable(MonitoringStack!StagingBoard)
  BY DEF MonitoringStack!StagingBoard, Queriable, GroupsOf
<1>2. Queriable(MonitoringStack!OpenwrtBoard) /\ Queriable(MonitoringStack!RagBoard)
  BY DEF MonitoringStack!OpenwrtBoard, MonitoringStack!RagBoard, Queriable, GroupsOf
<1>3. Queriable(MonitoringStack!HostBoard("desktop")) /\ Queriable(MonitoringStack!HostBoard("typevt"))
  BY DEF MonitoringStack!HostBoard, Queriable, GroupsOf
<1>4. Queriable(MonitoringStack!LogsBoard) /\ Queriable(MonitoringStack!AttentionBoard)
  BY DEF MonitoringStack!LogsBoard, MonitoringStack!AttentionBoard, Queriable
<1> QED BY <1>1, <1>2, <1>3, <1>4 DEF MonitoringStack!Boards

LEMMA DashboardText ==
    ASSUME NEW name, NEW series, Queriable(series)
    PROVE  LET t == MonitoringStack!Dashboard(name, series) IN IsText(t) /\ t.series = series /\ t.calls = {}
  BY TextFields DEF MonitoringStack!Dashboard

\* One text that queries nothing.
LEMMA SilentText ==
    ASSUME NEW parts, NEW calls
    PROVE  LET t == MonitoringStack!Text(parts, 0, calls, {}) IN IsText(t) /\ Queriable(t.series)
<1>1. Queriable({})
  BY DEF Queriable
<1> QED BY <1>1, TextFields

LEMMA TextsOver ==
    ASSUME NEW r, NEW f, NEW g, Over(r, f, g), AreTexts(f), AreTexts(g), QueriesIn(f), QueriesIn(g)
    PROVE  AreTexts(r) /\ QueriesIn(r)
<1>1. \A c \in DOMAIN r : (c \in DOMAIN f /\ r[c] = f[c]) \/ (c \in DOMAIN g /\ r[c] = g[c])
  BY DEF Over
<1> QED BY <1>1 DEF AreTexts, QueriesIn

\* Grafana, with what a query switches on.
LEMMA GrafanaGrown ==
    ASSUME NEW q
    PROVE  LET m == MonitoringStack!Grafana(q)
           IN  Grown(m) /\ DOMAIN m.cms = {"grafana"} /\ DOMAIN m.deps = {"grafana"}
<1> DEFINE optional == MonitoringStack!Keys({"rag"}, q.rag)
                       \cup MonitoringStack!Keys({"desktop", "typevt"}, q.hosts # {})
                       \cup MonitoringStack!Keys({"attention"}, q.attention)
           boards == {"staging", "logs", "openwrt"} \cup optional
           shown == [k \in boards |-> MonitoringStack!Dashboard(k, MonitoringStack!Boards[k])]
           provider == MonitoringStack!Providers({"staging"} \cup optional)
           rest == [datasource |-> MonitoringStack!DataSources, provider |-> provider]
           data == MonitoringStack!++(shown, rest)
           volumes == MonitoringStack!Mounted(DOMAIN data)
           pols == [grafana_restricted |->
                        MonitoringStack!Policy("grafana", {}, MonitoringStack!Dns \cup {<<"prometheus", 9090>>}),
                    prometheus_grafana_ingress |-> MonitoringStack!IngressPolicy("prometheus", {<<"grafana", 9090>>})]
           m == MonitoringStack!Grafana(q)
<1>1. m = MonitoringStack!Manifest([grafana |-> data], [grafana |-> MonitoringStack!Deployment(volumes, <<data>>, {})], pols)
  BY DEF MonitoringStack!Grafana
<1>2. optional \subseteq {"rag", "desktop", "typevt", "attention"}
  BY Zenon DEF MonitoringStack!Keys
<1> HIDE DEF optional
<1>3. AreTexts(shown) /\ QueriesIn(shown)
  <2>1. ASSUME NEW k \in boards PROVE IsText(shown[k]) /\ Queriable(shown[k].series)
    <3>1. Queriable(MonitoringStack!Boards[k])
      BY <1>2, <2>1, BoardsQuery
    <3> QED BY <2>1, <3>1, DashboardText
  <2> QED BY <2>1 DEF AreTexts, QueriesIn
<1>4. AreTexts(rest) /\ QueriesIn(rest)
  <2>1. IsText(provider) /\ Queriable(provider.series)
    BY SilentText DEF MonitoringStack!Providers
  <2>2. IsText(MonitoringStack!DataSources) /\ Queriable(MonitoringStack!DataSources.series)
    BY SilentText DEF MonitoringStack!DataSources
  <2> HIDE DEF provider
  <2> QED BY <2>1, <2>2 DEF AreTexts, QueriesIn
<1>5. AreTexts(data) /\ QueriesIn(data)
  <2>1. Over(data, shown, rest)
    BY OverOf
  <2> HIDE DEF data, shown, rest
  <2> QED BY <1>3, <1>4, <2>1, TextsOver
<1> HIDE DEF data, m
<1>6. /\ IsManifest(m) /\ DOMAIN m.cms = {"grafana"} /\ DOMAIN m.deps = {"grafana"} /\ m.cms["grafana"] = data
      /\ m.deps["grafana"] = MonitoringStack!Deployment(volumes, <<data>>, {}) /\ "files" \notin DOMAIN m.pols
  <2> HIDE DEF volumes
  <2> QED BY <1>1, ManifestFields
<1>7. m.deps["grafana"].mounts = volumes /\ m.deps["grafana"].digest = <<data>> /\ IsTemplate(m.deps["grafana"])
  BY <1>6, DeploymentFields
<1>8. \A x \in volumes : x = <<x[1], x[2]>> /\ x[1] = "grafana" /\ x[2] \in DOMAIN data
  BY MountedKeys
<1> HIDE DEF volumes
<1>9. OwnTied(m.cms, m.deps)
  <2>1. <<data>>[1] = data
    OBVIOUS
  <2>2. Template("grafana", m.deps["grafana"])
    BY <1>7, <1>8 DEF Template
  <2> QED BY <1>6, <1>7, <1>8, <2>1, <2>2 DEF OwnTied, ReadOf, Told
<1>10. SeriesOK(m.cms)
  BY <1>5, <1>6 DEF SeriesOK
<1>11. Shape(m)
  BY <1>6, <1>9, <1>10 DEF Shape, Housed
<1> QED BY <1>5, <1>6, <1>7, <1>11 DEF Grown, m

\* What the optional direct scrapes keep.
LEMMA DirectClosed ==
    ASSUME NEW q, q.hosts \subseteq {"desktop", "typevt"}
    PROVE  Closed(UNION {{x[1]} \X x[4] : x \in MonitoringStack!DirectScrapes(q)})
<1> DEFINE scrapes == MonitoringStack!DirectScrapes(q)
           series == UNION {{x[1]} \X x[4] : x \in scrapes}
<1>1. ASSUME NEW x \in scrapes PROVE GroupsOf(x[1]) \subseteq x[4]
  <2>1. CASE x = <<"desktop-rag", "rag", 3102, {"rag"}>>
    BY <2>1 DEF GroupsOf
  <2>2. CASE \E h \in q.hosts : x = <<h, h, 9100, {"node", "filesystem", "detail", "desktop"}>>
    <3>1. PICK h \in q.hosts : x = <<h, h, 9100, {"node", "filesystem", "detail", "desktop"}>>
      BY <2>2
    <3>2. x[1] = h /\ x[4] = {"node", "filesystem", "detail", "desktop"} /\ h \in {"desktop", "typevt"}
      BY <3>1
    <3> QED BY <3>2 DEF GroupsOf
  <2>3. CASE x = <<"local-llm", "llm", 8080, {"llm"}>>
    BY <2>3 DEF GroupsOf
  <2> QED BY <2>1, <2>2, <2>3 DEF MonitoringStack!DirectScrapes
<1> HIDE DEF scrapes
<1>2. ASSUME NEW y \in series, NEW g \in GroupsOf(y[1]) PROVE <<y[1], g>> \in series
  <2>1. PICK x \in scrapes : y \in {x[1]} \X x[4]
    OBVIOUS
  <2>2. y[1] = x[1]
    BY <2>1
  <2>3. <<x[1], g>> \in {x[1]} \X x[4]
    BY <1>1, <1>2, <2>2
  <2> QED BY <2>2, <2>3
<1> HIDE DEF series
<1>3. Closed(series)
  BY <1>2 DEF Closed
<1> QED BY <1>3 DEF series, scrapes

\* Prometheus as Terraform renders it, for a site and its hosts.
LEMMA PrometheusConfigShape ==
    ASSUME NEW q, NEW e, MonitoringStack!SiteAccepted(q.site), q.hosts \subseteq {"desktop", "typevt"}
    PROVE  LET m == MonitoringStack!PrometheusConfig(q, e)
           IN  /\ Shape(m) /\ DOMAIN m.cms = {"prometheus"} /\ DOMAIN m.deps = {"prometheus"}
               /\ IsTemplate(m.deps["prometheus"]) /\ IsText(m.cms["prometheus"].config)
               /\ <<"files", "alerts">> \notin m.deps["prometheus"].mounts
<1> DEFINE m == MonitoringStack!PrometheusConfig(q, e)
           direct == UNION {{x[1]} \X x[4] : x \in MonitoringStack!DirectScrapes(q)}
           series == MonitoringStack!Jobs(q.site) \cup direct
           calls == MonitoringStack!ScrapeCalls(q.site) \cup {<<"prometheus", "alertmanager", 9093>>}
                    \cup {<<"prometheus", x[2], x[3]>> : x \in MonitoringStack!DirectScrapes(q)}
           text == MonitoringStack!Text({"jobs", "rules"}, 0, calls, series)
           rules == MonitoringStack!RuleText(e)
           volumes == {<<"prometheus", "config">>, <<"rules", "alerts">>}
           data == [config |-> text]
           policy == [MonitoringStack!OutsideIn(q.site).pols.prometheus_restricted EXCEPT !.egress =
                        @ \cup {<<x[2], x[3]>> : x \in MonitoringStack!DirectScrapes(q)}]
<1>1. m = MonitoringStack!Manifest([prometheus |-> data],
                                   [prometheus |-> MonitoringStack!Deployment(volumes, <<text, rules>>, {})],
                                   [prometheus_restricted |-> policy])
  BY DEF MonitoringStack!PrometheusConfig
<1>2. Closed(series)
  <2>1. Closed(direct) /\ Closed(MonitoringStack!Jobs(q.site))
    BY DirectClosed, JobsClosed
  <2> HIDE DEF direct
  <2> QED BY <2>1, ClosedUnion
<1> HIDE DEF series, calls
<1>3. text.series = series /\ IsText(text)
  BY TextFields
<1> HIDE DEF text, rules, policy, m
<1>4. /\ IsManifest(m) /\ DOMAIN m.cms = {"prometheus"} /\ DOMAIN m.deps = {"prometheus"}
      /\ m.cms["prometheus"] = data
      /\ m.deps["prometheus"] = MonitoringStack!Deployment(volumes, <<text, rules>>, {})
      /\ "files" \notin DOMAIN m.pols
  <2> HIDE DEF volumes, data
  <2> QED BY <1>1, ManifestFields
<1>5. /\ m.deps["prometheus"].mounts = volumes /\ m.deps["prometheus"].digest = <<text, rules>>
      /\ IsTemplate(m.deps["prometheus"])
  <2> HIDE DEF volumes
  <2> QED BY <1>4, DeploymentFields
<1>6. /\ Template("prometheus", m.deps["prometheus"])
      /\ \A x \in volumes : x[1] = "prometheus" =>
             Told(m.cms["prometheus"], "prometheus", m.deps["prometheus"].digest, x[2])
      /\ <<"files", "alerts">> \notin volumes
  <2>1. <<text, rules>>[1] = text
    OBVIOUS
  <2>2. m.deps["prometheus"].digest[1] = text
    BY <1>5, <2>1
  <2>3. Closed(text.series)
    BY <1>2, <1>3
  <2> QED BY <1>4, <1>5, <2>2, <2>3, ConfiguredPrometheus
<1> HIDE DEF volumes
<1>7. OwnTied(m.cms, m.deps)
  BY <1>4, <1>5, <1>6 DEF OwnTied
<1>8. SeriesOK(m.cms) /\ IsText(m.cms["prometheus"].config)
  BY <1>2, <1>3, <1>4 DEF SeriesOK
<1>9. Shape(m)
  BY <1>4, <1>7, <1>8 DEF Shape, Housed
<1> QED BY <1>4, <1>5, <1>6, <1>8, <1>9 DEF m

-----------------------------------------------------------------------------
(* Terraform's opt-ins, in the order of the calls.                         *)

FilesMounted(m) == "prometheus" \in DOMAIN m.deps /\ <<"files", "alerts">> \in m.deps["prometheus"].mounts

\* Before the opt-in of the NAS file logs.
NoFiles(m) == "files" \notin DOMAIN m.cms /\ ~FilesMounted(m)

Scraped(m) == Grown(m) /\ "prometheus" \in DOMAIN m.cms

\* The two of them are what the opt-ins start from.
LEMMA WithPrometheus ==
    ASSUME NEW q, NEW e, MonitoringStack!SiteAccepted(q.site), q.hosts \subseteq {"desktop", "typevt"}
    PROVE  LET r == MonitoringStack!Merge(MonitoringStack!Grafana(q), MonitoringStack!PrometheusConfig(q, e))
           IN  Scraped(r) /\ NoFiles(r)
<1> DEFINE m == MonitoringStack!Grafana(q)
           n == MonitoringStack!PrometheusConfig(q, e)
           r == MonitoringStack!Merge(m, n)
<1>1. Grown(m) /\ DOMAIN m.cms = {"grafana"} /\ DOMAIN m.deps = {"grafana"}
  BY GrafanaGrown
<1>2. /\ Shape(n) /\ DOMAIN n.cms = {"prometheus"} /\ DOMAIN n.deps = {"prometheus"}
      /\ IsTemplate(n.deps["prometheus"]) /\ IsText(n.cms["prometheus"].config)
      /\ <<"files", "alerts">> \notin n.deps["prometheus"].mounts
  BY PrometheusConfigShape
<1> HIDE DEF m, n
<1>3. Shape(r) /\ MergedOf(r, m, n)
  BY <1>1, <1>2, MergeShape, MergeFields DEF Grown
<1> HIDE DEF r
<1>4. /\ "grafana" \in DOMAIN r.deps /\ r.deps["grafana"] = m.deps["grafana"]
      /\ r.cms["grafana"] = m.cms["grafana"]
      /\ "prometheus" \in DOMAIN r.deps /\ r.deps["prometheus"] = n.deps["prometheus"]
      /\ "prometheus" \in DOMAIN r.cms /\ r.cms["prometheus"] = n.cms["prometheus"]
      /\ "files" \notin DOMAIN r.cms
  BY <1>1, <1>2, <1>3 DEF MergedOf, Over
<1>5. Scraped(r)
  BY <1>1, <1>2, <1>3, <1>4 DEF Grown, Scraped
<1>6. NoFiles(r)
  BY <1>2, <1>4 DEF NoFiles, FilesMounted
<1> QED BY <1>5, <1>6 DEF r, m, n

\* A board or a rule added over the provisioned data, listed by the provider.
LEMMA ListedTexts ==
    ASSUME NEW old, AreTexts(old), QueriesIn(old), NEW name, NEW new, AreTexts(new), QueriesIn(new)
    PROVE  LET data == MonitoringStack!++(new, [old EXCEPT !["provider"].parts = @ \cup {name}])
           IN  /\ AreTexts(data) /\ QueriesIn(data)
               /\ \A calls : CallsWithin(old, calls) /\ CallsWithin(new, calls) => CallsWithin(data, calls)
<1> DEFINE text == old["provider"]
           parts == text.parts \cup {name}
           more == [text EXCEPT !.parts = parts]
           rest == [old EXCEPT !["provider"] = more]
           data == MonitoringStack!++(new, rest)
<1>1. data = MonitoringStack!++(new, [old EXCEPT !["provider"].parts = @ \cup {name}])
  OBVIOUS
<1> HIDE DEF parts
<1>2. ASSUME "provider" \in DOMAIN old
      PROVE  IsText(more) /\ more.series = text.series /\ more.calls = text.calls
  <2>1. IsText(text)
    BY <1>2 DEF AreTexts
  <2> HIDE DEF text
  <2> QED BY <2>1 DEF IsText, MonitoringStack!Text
<1> HIDE DEF more
<1>3. AreTexts(rest) /\ QueriesIn(rest)
  BY <1>2 DEF AreTexts, QueriesIn
<1>4. Over(data, new, rest)
  BY OverOf
<1>5. \A calls : CallsWithin(old, calls) => CallsWithin(rest, calls)
  BY <1>2 DEF CallsWithin
<1> HIDE DEF rest, data
<1>6. \A calls : CallsWithin(old, calls) /\ CallsWithin(new, calls) => CallsWithin(data, calls)
  BY <1>4, <1>5 DEF CallsWithin, Over
<1> QED BY <1>1, <1>3, <1>4, <1>6, TextsOver

\* Panels added to the dashboard of the NAS.
LEMMA PanelsTexts ==
    ASSUME NEW m, Grown(m), NEW more, NEW series, Queriable(series)
    PROVE  LET data == MonitoringStack!NasPanels(m, more, series)
           IN  /\ AreTexts(data) /\ QueriesIn(data)
               /\ \A calls : CallsWithin(m.cms["grafana"], calls) => CallsWithin(data, calls)
<1> DEFINE old == m.cms["grafana"]
           text == old["nas"]
           parts == text.parts \cup more
           queries == text.series \cup series
           t1 == [text EXCEPT !.parts = parts]
           t2 == [t1 EXCEPT !.series = queries]
           data == [old EXCEPT !["nas"] = t2]
<1>1. AreTexts(old) /\ QueriesIn(old)
  BY DEF Grown, Shape, SeriesOK, OwnTied
<1>2. ASSUME "nas" \in DOMAIN old
      PROVE  /\ t1.series = text.series /\ IsText(t2) /\ t2.series = queries /\ Queriable(queries)
             /\ t2.calls = text.calls
  <2>1. IsText(text) /\ Queriable(text.series)
    BY <1>1, <1>2 DEF AreTexts, QueriesIn
  <2>2. Queriable(queries)
    BY <2>1 DEF Queriable
  <2> HIDE DEF text, queries, parts
  <2>3. t1 = [parts |-> parts, edition |-> text.edition, calls |-> text.calls, series |-> text.series]
    BY <2>1 DEF IsText, MonitoringStack!Text
  <2> HIDE DEF t1
  <2>4. t2 = [parts |-> parts, edition |-> text.edition, calls |-> text.calls, series |-> queries]
    BY <2>3
  <2> HIDE DEF t2
  <2> QED BY <2>2, <2>3, <2>4 DEF IsText, MonitoringStack!Text
<1>3. data = MonitoringStack!NasPanels(m, more, series)
  BY DEF MonitoringStack!NasPanels, MonitoringStack!Provisioned
<1> HIDE DEF t2
<1>4. AreTexts(data) /\ QueriesIn(data)
  BY <1>1, <1>2 DEF AreTexts, QueriesIn
<1>5. \A calls : CallsWithin(old, calls) => CallsWithin(data, calls)
  BY <1>2 DEF CallsWithin
<1> HIDE DEF data
<1> QED BY <1>3, <1>4, <1>5

-----------------------------------------------------------------------------
(* The policies and the connections they allow.                            *)

\* Every probe of every site.
Probed ==
    UNION {{<<t.host, t.port>> : t \in MonitoringStack!Range(s.api \o s.tcp)}
           : s \in {s \in AllSites : MonitoringStack!SiteAccepted(s)}}

Selected == {"blackbox", "prometheus", "alertmanager", "loki", "gateway", "grafana", "portal",
             "snmp", "syslog", "nfs", "files"}

\* A policy of a Pod that lets these peers in and these out.
Grants(p, pod, ins, outs) ==
    /\ p.pod = pod
    /\ \A x \in ins : "Ingress" \in p.types /\ x \in p.ingress
    /\ \A x \in outs : "Egress" \in p.types /\ x \in p.egress

Any == <<"any", 53>>
Kube == <<"kube-dns", 53>>

IsPolicy(p) == p = [pod |-> p.pod, types |-> p.types, ingress |-> p.ingress, egress |-> p.egress]

\* What the policy of a name always allows.
Keeps(n, p) ==
    /\ IsPolicy(p) /\ p.pod \in Selected
    /\ n = "blackbox_restricted" => Grants(p, "blackbox", {<<"prometheus", 9115>>}, {Any} \cup Probed)
    /\ n = "prometheus_restricted" => Grants(p, "prometheus", {}, {Any, <<"blackbox", 9115>>})
    /\ n = "alertmanager_restricted" =>
           Grants(p, "alertmanager", {<<"prometheus", 9093>>}, {Any, <<"slack", 443>>})
    /\ n = "prometheus_alertmanager_egress" => Grants(p, "prometheus", {}, {<<"alertmanager", 9093>>})
    /\ n = "loki_restricted" => Grants(p, "loki", {<<"grafana", 3100>>}, {})
    /\ n = "grafana_loki_egress" => Grants(p, "grafana", {}, {<<"loki", 3100>>})
    /\ n = "gateway_restricted" => Grants(p, "gateway", {<<"staging", 8443>>}, {<<"loki", 3100>>, Kube})
    /\ n = "gateway_to_loki" => Grants(p, "loki", {<<"gateway", 3100>>}, {})
    /\ n = "portal_ingress" => Grants(p, "portal", {<<"tailnet", 8080>>}, {})
    /\ n = "grafana_tailnet_ingress" => Grants(p, "grafana", {<<"tailnet", 3000>>}, {})
    /\ n = "negative" => Grants(p, "blackbox", {<<"negative", 9115>>}, {})
    /\ n = "grafana_restricted" => Grants(p, "grafana", {}, {Any, <<"prometheus", 9090>>})
    /\ n = "prometheus_grafana_ingress" => Grants(p, "prometheus", {<<"grafana", 9090>>}, {})
    /\ n = "snmp_restricted" => Grants(p, "snmp", {<<"prometheus", 9116>>}, {<<"nas", 161>>})
    /\ n = "nas_prometheus_egress" => Grants(p, "prometheus", {}, {<<"snmp", 9116>>})
    /\ n = "syslog_restricted" =>
           Grants(p, "syslog", {<<"nas", 1514>>, <<"prometheus", 12345>>}, {<<"loki", 3100>>, Kube})
    /\ n = "nas_loki_ingress" => Grants(p, "loki", {<<"syslog", 3100>>}, {})
    /\ n = "nfs_restricted" => Grants(p, "nfs", {<<"prometheus", 9189>>}, {<<"nas", 22>>})
    /\ n = "nfs_prometheus_egress" => Grants(p, "prometheus", {}, {<<"nfs", 9189>>})
    /\ n = "files_restricted" =>
           Grants(p, "files", {<<"prometheus", 9188>>}, {<<"nas", 22>>, <<"loki", 3100>>, Kube})
    /\ n = "files_prometheus_egress" => Grants(p, "prometheus", {}, {<<"files", 9188>>})
    /\ n = "files_loki_ingress" => Grants(p, "loki", {<<"files", 3100>>}, {})
    /\ n = "grafana_slack_egress" => Grants(p, "grafana", {}, {<<"slack", 443>>})

\* The policies that come with a Pod.
PoliciesOf(d) ==
    IF d = "blackbox" THEN {"blackbox_restricted"}
    ELSE IF d = "prometheus" THEN {"prometheus_restricted"}
    ELSE IF d = "alertmanager" THEN {"alertmanager_restricted", "prometheus_alertmanager_egress"}
    ELSE IF d = "loki" THEN {"loki_restricted", "grafana_loki_egress"}
    ELSE IF d = "gateway" THEN {"gateway_restricted", "gateway_to_loki"}
    ELSE IF d = "portal" THEN {"portal_ingress", "grafana_tailnet_ingress"}
    ELSE IF d = "negative" THEN {"negative"}
    ELSE IF d = "grafana" THEN {"grafana_restricted", "prometheus_grafana_ingress"}
    ELSE IF d = "snmp" THEN {"snmp_restricted", "nas_prometheus_egress"}
    ELSE IF d = "syslog" THEN {"syslog_restricted", "nas_loki_ingress", "nas_prometheus_egress"}
    ELSE IF d = "nfs" THEN {"nfs_restricted", "nfs_prometheus_egress"}
    ELSE IF d = "files" THEN {"files_restricted", "files_prometheus_egress", "files_loki_ingress"}
    ELSE {}

\* The connections of a Deployment and of the texts of a ConfigMap.
TemplateCalls(d) ==
    IF d = "gateway" THEN {<<"staging", "gateway", 8443>>}
    ELSE IF d = "portal" THEN {<<"tailnet", "portal", 8080>>, <<"tailnet", "grafana", 3000>>}
    ELSE IF d = "syslog" THEN {<<"nas", "syslog", 1514>>}
    ELSE IF d = "nfs" THEN {<<"nfs", "nas", 22>>}
    ELSE IF d = "files" THEN {<<"files", "nas", 22>>}
    ELSE {}

SlackCall == <<"grafana", "slack", 443>>

\* pols is the set of the names of the policies.
TextCalls(c, pols) ==
    IF c = "alertmanager" THEN {<<"alertmanager", "slack", 443>>, <<"alertmanager", "kube-dns", 53>>}
    ELSE IF c = "gateway" THEN {<<"gateway", "loki", 3100>>, <<"gateway", "kube-dns", 53>>}
    ELSE IF c = "negative" THEN {<<"negative", "blackbox", 9115>>, <<"negative", "kube-dns", 53>>}
    ELSE IF c = "syslog" THEN {<<"syslog", "loki", 3100>>, <<"syslog", "kube-dns", 53>>}
    ELSE IF c = "files" THEN {<<"files", "loki", 3100>>, <<"files", "kube-dns", 53>>}
    ELSE IF c = "grafana"
         THEN {<<"grafana", "prometheus", 9090>>, <<"grafana", "loki", 3100>>, <<"grafana", "kube-dns", 53>>}
              \cup (IF "grafana_slack_egress" \in pols THEN {SlackCall} ELSE {})
    ELSE {}

\* Prometheus' own, apart from the scrapes of other hosts.
PrometheusCalls ==
    {<<"prometheus", "blackbox", 9115>>, <<"prometheus", "kube-dns", 53>>, <<"blackbox", "kube-dns", 53>>,
     <<"prometheus", "alertmanager", 9093>>, <<"prometheus", "snmp", 9116>>, <<"snmp", "nas", 161>>,
     <<"prometheus", "syslog", 12345>>, <<"prometheus", "nfs", 9189>>, <<"prometheus", "files", 9188>>}

Licensed(calls, egress) ==
    \A f \in calls :
        \/ f \in PrometheusCalls
        \/ f[1] = "blackbox" /\ f[2] \notin MonitoringStack!PodNames /\ <<f[2], f[3]>> \in Probed
        \/ f[1] = "prometheus" /\ f[2] \notin MonitoringStack!PodNames /\ <<f[2], f[3]>> \in egress

\* pols is the set of the names of the policies beside it.
Lines(m, pols) ==
    /\ \A n \in DOMAIN m.pols : Keeps(n, m.pols[n])
    /\ \A d \in DOMAIN m.deps : m.deps[d].calls \subseteq TemplateCalls(d)
    /\ \A c \in DOMAIN m.cms : c # "prometheus" => CallsWithin(m.cms[c], TextCalls(c, pols))
    /\ \A c \in DOMAIN m.cms : c \in {"rules", "nfs", "files"} => "alerts" \in DOMAIN m.cms[c]

Guarded(m) == \A d \in DOMAIN m.deps : PoliciesOf(d) \subseteq DOMAIN m.pols

SyslogScraped(m) ==
    "syslog" \in DOMAIN m.deps => <<"syslog", 12345>> \in m.pols["nas_prometheus_egress"].egress

Scrapes(m) ==
    /\ "prometheus" \in DOMAIN m.cms <=> "prometheus_restricted" \in DOMAIN m.pols
    /\ "prometheus" \in DOMAIN m.cms =>
           Licensed(m.cms["prometheus"].config.calls, m.pols["prometheus_restricted"].egress)

Wired(m) == Lines(m, DOMAIN m.pols) /\ Guarded(m) /\ SyslogScraped(m) /\ Scrapes(m)

LEMMA TextCallsGrow ==
    ASSUME NEW pols, NEW more, pols \subseteq more, NEW c
    PROVE  TextCalls(c, pols) \subseteq TextCalls(c, more)
  BY DEF TextCalls

\* More policies allow what fewer do.
LEMMA LinesGrow ==
    ASSUME NEW m, NEW pols, NEW more, pols \subseteq more, Lines(m, pols)
    PROVE  Lines(m, more)
  BY TextCallsGrow DEF Lines, CallsWithin

\* One manifest over another.
LEMMA LinesOver ==
    ASSUME NEW r, NEW m, NEW n, NEW pols, MergedOf(r, m, n), Lines(m, pols), Lines(n, pols)
    PROVE  Lines(r, pols)
  BY DEF MergedOf, Over, Lines

\* What a policy of either kind grants.
LEMMA PolicyFields ==
    ASSUME NEW pod, NEW ins, NEW outs
    PROVE  /\ Grants(MonitoringStack!Policy(pod, ins, outs), pod, ins, outs)
           /\ Grants(MonitoringStack!IngressPolicy(pod, ins), pod, ins, {})
           /\ Grants(MonitoringStack!EgressPolicy(pod, outs), pod, {}, outs)
           /\ MonitoringStack!Policy(pod, ins, outs).pod = pod /\ IsPolicy(MonitoringStack!Policy(pod, ins, outs))
           /\ MonitoringStack!IngressPolicy(pod, ins).pod = pod /\ IsPolicy(MonitoringStack!IngressPolicy(pod, ins))
           /\ MonitoringStack!EgressPolicy(pod, outs).pod = pod /\ IsPolicy(MonitoringStack!EgressPolicy(pod, outs))
  BY DEF MonitoringStack!Policy, MonitoringStack!IngressPolicy, MonitoringStack!EgressPolicy, Grants, IsPolicy

LEMMA LoneLines ==
    ASSUME NEW m, NEW d, Lone(m, d), d \notin {"prometheus", "rules"},
           \A n \in DOMAIN m.pols : Keeps(n, m.pols[n]),
           m.deps[d].calls \subseteq TemplateCalls(d),
           CallsWithin(m.cms[d], TextCalls(d, DOMAIN m.pols)),
           d \in {"nfs", "files"} => "alerts" \in DOMAIN m.cms[d]
    PROVE  Lines(m, DOMAIN m.pols)
  BY DEF Lines, Lone

\* The calls of the Pods with one text.
LEMMA ConfiguredLines ==
    ASSUME NEW m, NEW d, NEW k, NEW text, NEW calls, Configured(m, d, k, text, calls),
           d \in {"alertmanager", "loki", "gateway", "portal", "snmp", "syslog"},
           \A n \in DOMAIN m.pols : Keeps(n, m.pols[n]),
           calls \subseteq TemplateCalls(d), text.calls \subseteq TextCalls(d, {})
    PROVE  Lines(m, DOMAIN m.pols)
<1>1. m.deps[d].calls \subseteq TemplateCalls(d)
  BY DeploymentFields DEF Configured
<1>2. CallsWithin(m.cms[d], TextCalls(d, DOMAIN m.pols))
  BY TextCallsGrow DEF Configured, CallsWithin
<1> QED BY <1>1, <1>2, LoneLines DEF Configured

\* A manifest that is a part by itself: no scrape, nothing of the NAS.
Aside(m) ==
    /\ Lines(m, DOMAIN m.pols) /\ Guarded(m)
    /\ "prometheus" \notin DOMAIN m.cms /\ "prometheus_restricted" \notin DOMAIN m.pols
    /\ "nas_prometheus_egress" \notin DOMAIN m.pols

LEMMA AlertmanagerAside == Aside(MonitoringStack!Alertmanager)
<1> DEFINE m == MonitoringStack!Alertmanager
           text == MonitoringStack!AlertmanagerConfig
           p1 == MonitoringStack!Policy("alertmanager", {<<"prometheus", 9093>>}, MonitoringStack!Dns \cup {<<"slack", 443>>})
           p2 == MonitoringStack!EgressPolicy("prometheus", {<<"alertmanager", 9093>>})
           pols == [alertmanager_restricted |-> p1, prometheus_alertmanager_egress |-> p2]
<1>1. Configured(m, "alertmanager", "config", text, {}) /\ m.pols = pols
  BY ManifestFields DEF MonitoringStack!Alertmanager, Lone, Configured
<1>2. text.calls \subseteq TextCalls("alertmanager", {})
  BY TextFields DEF MonitoringStack!AlertmanagerConfig, MonitoringStack!Resolves, TextCalls
<1>3. /\ IsPolicy(p1) /\ p1.pod = "alertmanager" /\ Grants(p1, "alertmanager", {<<"prometheus", 9093>>}, {Any, <<"slack", 443>>})
      /\ IsPolicy(p2) /\ p2.pod = "prometheus" /\ Grants(p2, "prometheus", {}, {<<"alertmanager", 9093>>})
  <2>1. MonitoringStack!Dns \cup {<<"slack", 443>>} = {Any, <<"slack", 443>>}
    BY DEF MonitoringStack!Dns, Any
  <2>2. IsPolicy(p1) /\ p1.pod = "alertmanager"
        /\ Grants(p1, "alertmanager", {<<"prometheus", 9093>>}, MonitoringStack!Dns \cup {<<"slack", 443>>})
    BY PolicyFields
  <2>3. IsPolicy(p2) /\ p2.pod = "prometheus" /\ Grants(p2, "prometheus", {}, {<<"alertmanager", 9093>>})
    BY PolicyFields
  <2> HIDE DEF p1, p2
  <2> QED BY <2>1, <2>2, <2>3
<1> HIDE DEF p1, p2
<1>3a. Keeps("alertmanager_restricted", p1)
  BY <1>3 DEF Keeps, Selected
<1>3b. Keeps("prometheus_alertmanager_egress", p2)
  BY <1>3 DEF Keeps, Selected
<1> HIDE DEF m, text
<1>4. \A n \in DOMAIN m.pols : Keeps(n, m.pols[n])
  BY <1>1, <1>3a, <1>3b
<1>5. Lines(m, DOMAIN m.pols)
  BY <1>1, <1>2, <1>4, ConfiguredLines
<1> QED BY <1>1, <1>5 DEF m, Aside, Guarded, PoliciesOf, Configured, Lone

LEMMA LokiAside == Aside(MonitoringStack!Loki)
<1> DEFINE m == MonitoringStack!Loki
           text == MonitoringStack!LokiConfig
           p1 == MonitoringStack!Policy("loki", {<<"grafana", 3100>>}, {})
           p2 == MonitoringStack!EgressPolicy("grafana", {<<"loki", 3100>>})
           pols == [loki_restricted |-> p1, grafana_loki_egress |-> p2]
<1>1. Configured(m, "loki", "config", text, {}) /\ m.pols = pols
  BY ManifestFields DEF MonitoringStack!Loki, Lone, Configured
<1>2. text.calls \subseteq TextCalls("loki", {})
  BY TextFields DEF MonitoringStack!LokiConfig
<1>3. /\ IsPolicy(p1) /\ p1.pod = "loki" /\ Grants(p1, "loki", {<<"grafana", 3100>>}, {})
      /\ IsPolicy(p2) /\ p2.pod = "grafana" /\ Grants(p2, "grafana", {}, {<<"loki", 3100>>})
  BY PolicyFields
<1> HIDE DEF p1, p2
<1>3a. Keeps("loki_restricted", p1)
  BY <1>3 DEF Keeps, Selected
<1>3b. Keeps("grafana_loki_egress", p2)
  BY <1>3 DEF Keeps, Selected
<1> HIDE DEF m, text
<1>4. \A n \in DOMAIN m.pols : Keeps(n, m.pols[n])
  BY <1>1, <1>3a, <1>3b
<1>5. Lines(m, DOMAIN m.pols)
  BY <1>1, <1>2, <1>4, ConfiguredLines
<1> QED BY <1>1, <1>5 DEF m, Aside, Guarded, PoliciesOf, Configured, Lone

LEMMA GatewayAside == Aside(MonitoringStack!Gateway)
<1> DEFINE m == MonitoringStack!Gateway
           text == MonitoringStack!NginxConfig
           calls == {<<"staging", "gateway", 8443>>}
           p1 == MonitoringStack!Policy("gateway", {<<"staging", 8443>>}, {<<"loki", 3100>>} \cup MonitoringStack!KubeDns)
           p2 == MonitoringStack!IngressPolicy("loki", {<<"gateway", 3100>>})
           pols == [gateway_restricted |-> p1, gateway_to_loki |-> p2]
<1>1. Configured(m, "gateway", "config", text, calls) /\ m.pols = pols
  BY ManifestFields DEF MonitoringStack!Gateway, Lone, Configured
<1>2. text.calls \subseteq TextCalls("gateway", {}) /\ calls \subseteq TemplateCalls("gateway")
  BY TextFields DEF MonitoringStack!NginxConfig, MonitoringStack!Resolves, TextCalls, TemplateCalls
<1>3. /\ IsPolicy(p1) /\ p1.pod = "gateway" /\ Grants(p1, "gateway", {<<"staging", 8443>>}, {<<"loki", 3100>>, Kube})
      /\ IsPolicy(p2) /\ p2.pod = "loki" /\ Grants(p2, "loki", {<<"gateway", 3100>>}, {})
  BY PolicyFields DEF MonitoringStack!KubeDns, Kube
<1> HIDE DEF p1, p2
<1>3a. Keeps("gateway_restricted", p1)
  BY <1>3 DEF Keeps, Selected
<1>3b. Keeps("gateway_to_loki", p2)
  BY <1>3 DEF Keeps, Selected
<1> HIDE DEF m, text, calls
<1>4. \A n \in DOMAIN m.pols : Keeps(n, m.pols[n])
  BY <1>1, <1>3a, <1>3b
<1>5. Lines(m, DOMAIN m.pols)
  BY <1>1, <1>2, <1>4, ConfiguredLines
<1> QED BY <1>1, <1>5 DEF m, Aside, Guarded, PoliciesOf, Configured, Lone

LEMMA PortalAside == Aside(MonitoringStack!Portal)
<1> DEFINE m == MonitoringStack!Portal
           text == MonitoringStack!PortalText
           calls == {<<"tailnet", "portal", 8080>>, <<"tailnet", "grafana", 3000>>}
           p1 == MonitoringStack!Policy("portal", {<<"tailnet", 8080>>}, {})
           p2 == MonitoringStack!IngressPolicy("grafana", {<<"tailnet", 3000>>})
           pols == [portal_ingress |-> p1, grafana_tailnet_ingress |-> p2]
<1>1. Configured(m, "portal", "content", text, calls) /\ m.pols = pols
  BY ManifestFields DEF MonitoringStack!Portal, Lone, Configured
<1>2. text.calls \subseteq TextCalls("portal", {}) /\ calls \subseteq TemplateCalls("portal")
  BY TextFields DEF MonitoringStack!PortalText, TextCalls, TemplateCalls
<1>3. /\ IsPolicy(p1) /\ p1.pod = "portal" /\ Grants(p1, "portal", {<<"tailnet", 8080>>}, {})
      /\ IsPolicy(p2) /\ p2.pod = "grafana" /\ Grants(p2, "grafana", {<<"tailnet", 3000>>}, {})
  BY PolicyFields
<1> HIDE DEF p1, p2
<1>3a. Keeps("portal_ingress", p1)
  BY <1>3 DEF Keeps, Selected
<1>3b. Keeps("grafana_tailnet_ingress", p2)
  BY <1>3 DEF Keeps, Selected
<1> HIDE DEF m, text, calls
<1>4. \A n \in DOMAIN m.pols : Keeps(n, m.pols[n])
  BY <1>1, <1>3a, <1>3b
<1>5. Lines(m, DOMAIN m.pols)
  BY <1>1, <1>2, <1>4, ConfiguredLines
<1> QED BY <1>1, <1>5 DEF m, Aside, Guarded, PoliciesOf, Configured, Lone

LEMMA NegativeAside == Aside(MonitoringStack!NegativeAcceptance)
<1> DEFINE m == MonitoringStack!NegativeAcceptance
           p == MonitoringStack!IngressPolicy("blackbox", {<<"negative", 9115>>})
           calls == {<<"negative", "blackbox", 9115>>} \cup MonitoringStack!Resolves("negative")
           text == MonitoringStack!Text({"negative"}, 0, calls, {})
           cms == [negative |-> [config |-> text]]
           deps == [negative |-> MonitoringStack!Deployment({<<"negative", "config">>}, <<>>, {})]
           pols == [negative |-> p]
<1>1. /\ Lone(m, "negative") /\ DOMAIN m.cms["negative"] = {"config"} /\ m.cms["negative"]["config"] = text
      /\ m.deps["negative"] = MonitoringStack!Deployment({<<"negative", "config">>}, <<>>, {})
      /\ m.pols = pols
  <2>1. m = MonitoringStack!Manifest(cms, deps, pols)
    BY DEF MonitoringStack!NegativeAcceptance
  <2>2. m.cms = cms /\ m.deps = deps /\ m.pols = pols /\ IsManifest(m)
    BY <2>1, ManifestFields
  <2> HIDE DEF m, text
  <2> QED BY <2>2 DEF Lone
<1>2. text.calls \subseteq TextCalls("negative", {})
  BY TextFields DEF MonitoringStack!Resolves, TextCalls
<1>3. /\ IsPolicy(p) /\ p.pod = "blackbox" /\ Grants(p, "blackbox", {<<"negative", 9115>>}, {})
  BY PolicyFields
<1> HIDE DEF p
<1>3a. Keeps("negative", p)
  BY <1>3 DEF Keeps, Selected
<1>4. m.deps["negative"].calls = {}
  BY <1>1, DeploymentFields
<1> HIDE DEF m, text
<1>5. CallsWithin(m.cms["negative"], TextCalls("negative", DOMAIN m.pols))
  BY <1>1, <1>2, TextCallsGrow DEF CallsWithin
<1>6. Lines(m, DOMAIN m.pols)
  BY <1>1, <1>3a, <1>4, <1>5, LoneLines
<1> QED BY <1>1, <1>6 DEF m, Aside, Guarded, PoliciesOf, Lone

LEMMA ExporterAside == Aside(MonitoringStack!Exporter)
<1> DEFINE m == MonitoringStack!Exporter
<1>1. /\ DOMAIN m.cms = {} /\ DOMAIN m.deps = {"exporter"} /\ DOMAIN m.pols = {}
      /\ m.deps["exporter"] = MonitoringStack!Deployment({}, <<>>, {})
  BY ManifestFields DEF MonitoringStack!Exporter
<1> HIDE DEF m
<1>2. m.deps["exporter"].calls = {}
  BY <1>1, DeploymentFields
<1> QED BY <1>1, <1>2 DEF m, Aside, Lines, Guarded, PoliciesOf

LEMMA RulesAside == ASSUME NEW e PROVE Aside(MonitoringStack!AlertRules(e))
<1> DEFINE m == MonitoringStack!AlertRules(e)
           text == MonitoringStack!RuleText(e)
<1>1. /\ DOMAIN m.cms = {"rules"} /\ DOMAIN m.deps = {} /\ DOMAIN m.pols = {}
      /\ DOMAIN m.cms["rules"] = {"alerts"} /\ m.cms["rules"]["alerts"] = text
  BY ManifestFields DEF MonitoringStack!AlertRules
<1>2. text.calls = {}
  BY TextFields DEF MonitoringStack!RuleText
<1> HIDE DEF m, text
<1> QED BY <1>1, <1>2 DEF m, Aside, Lines, Guarded, CallsWithin

LEMMA SnmpLines ==
    LET m == MonitoringStack!SnmpResources
    IN  Lines(m, DOMAIN m.pols) /\ DOMAIN m.pols = {"snmp_restricted", "nas_prometheus_egress"}
<1> DEFINE m == MonitoringStack!SnmpResources
           text == MonitoringStack!SnmpConfig
           p1 == MonitoringStack!Policy("snmp", {<<"prometheus", 9116>>}, {<<"nas", 161>>})
           p2 == MonitoringStack!EgressPolicy("prometheus", {<<"snmp", 9116>>})
           pols == [snmp_restricted |-> p1, nas_prometheus_egress |-> p2]
<1>1. Configured(m, "snmp", "config", text, {}) /\ m.pols = pols
  BY ManifestFields DEF MonitoringStack!SnmpResources, Lone, Configured
<1>2. text.calls \subseteq TextCalls("snmp", {})
  BY TextFields DEF MonitoringStack!SnmpConfig
<1>3. /\ IsPolicy(p1) /\ p1.pod = "snmp" /\ Grants(p1, "snmp", {<<"prometheus", 9116>>}, {<<"nas", 161>>})
      /\ IsPolicy(p2) /\ p2.pod = "prometheus" /\ Grants(p2, "prometheus", {}, {<<"snmp", 9116>>})
  BY PolicyFields
<1> HIDE DEF p1, p2
<1>3a. Keeps("snmp_restricted", p1)
  BY <1>3 DEF Keeps, Selected
<1>3b. Keeps("nas_prometheus_egress", p2)
  BY <1>3 DEF Keeps, Selected
<1> HIDE DEF m, text
<1>4. \A n \in DOMAIN m.pols : Keeps(n, m.pols[n])
  BY <1>1, <1>3a, <1>3b
<1>5. Lines(m, DOMAIN m.pols)
  BY <1>1, <1>2, <1>4, ConfiguredLines
<1> QED BY <1>1, <1>5 DEF m

LEMMA SyslogLines ==
    ASSUME NEW filter
    PROVE  LET m == MonitoringStack!SyslogResources(filter)
           IN  Lines(m, DOMAIN m.pols) /\ DOMAIN m.pols = {"syslog_restricted", "nas_loki_ingress"}
<1> DEFINE m == MonitoringStack!SyslogResources(filter)
           text == MonitoringStack!AlloyConfig(filter)
           calls == {<<"nas", "syslog", 1514>>}
           p1 == MonitoringStack!Policy("syslog", {<<"nas", 1514>>, <<"prometheus", 12345>>},
                                        {<<"loki", 3100>>} \cup MonitoringStack!KubeDns)
           p2 == MonitoringStack!IngressPolicy("loki", {<<"syslog", 3100>>})
           pols == [syslog_restricted |-> p1, nas_loki_ingress |-> p2]
<1>1. Configured(m, "syslog", "config", text, calls) /\ m.pols = pols
  BY ManifestFields DEF MonitoringStack!SyslogResources, Lone, Configured
<1>2. text.calls \subseteq TextCalls("syslog", {}) /\ calls \subseteq TemplateCalls("syslog")
  BY TextFields DEF MonitoringStack!AlloyConfig, MonitoringStack!Resolves, TextCalls, TemplateCalls
<1>3. /\ IsPolicy(p1) /\ p1.pod = "syslog" /\ Grants(p1, "syslog", {<<"nas", 1514>>, <<"prometheus", 12345>>}, {<<"loki", 3100>>, Kube})
      /\ IsPolicy(p2) /\ p2.pod = "loki" /\ Grants(p2, "loki", {<<"syslog", 3100>>}, {})
  BY PolicyFields DEF MonitoringStack!KubeDns, Kube
<1> HIDE DEF p1, p2
<1>3a. Keeps("syslog_restricted", p1)
  BY <1>3 DEF Keeps, Selected
<1>3b. Keeps("nas_loki_ingress", p2)
  BY <1>3 DEF Keeps, Selected
<1> HIDE DEF m, text, calls
<1>4. \A n \in DOMAIN m.pols : Keeps(n, m.pols[n])
  BY <1>1, <1>3a, <1>3b
<1>5. Lines(m, DOMAIN m.pols)
  BY <1>1, <1>2, <1>4, ConfiguredLines
<1> QED BY <1>1, <1>5 DEF m

-----------------------------------------------------------------------------
(* What keeps a manifest wired.                                            *)

LEMMA ScrapesOver ==
    ASSUME NEW r, NEW m, NEW n, MergedOf(r, m, n), Scrapes(m), Scrapes(n)
    PROVE  Scrapes(r)
  BY DEF MergedOf, Over, Scrapes

\* A manifest over another is wired if each Deployment finds its policies in either.
LEMMA MergeWired ==
    ASSUME NEW r, NEW m, NEW n, MergedOf(r, m, n), Guarded(m), Scrapes(m), Scrapes(n),
           Lines(m, DOMAIN r.pols), Lines(n, DOMAIN r.pols),
           \A d \in DOMAIN n.deps : PoliciesOf(d) \subseteq DOMAIN r.pols,
           SyslogScraped(r)
    PROVE  Wired(r)
<1>1. Lines(r, DOMAIN r.pols)
  BY LinesOver
<1>2. Scrapes(r)
  BY ScrapesOver
<1>3. Guarded(r)
  <2> SUFFICES ASSUME NEW d \in DOMAIN r.deps PROVE PoliciesOf(d) \subseteq DOMAIN r.pols
    BY DEF Guarded
  <2>1. d \in DOMAIN n.deps \/ d \in DOMAIN m.deps
    BY DEF MergedOf, Over
  <2>2. DOMAIN m.pols \subseteq DOMAIN r.pols
    BY DEF MergedOf, Over
  <2> QED BY <2>1, <2>2 DEF Guarded
<1> QED BY <1>1, <1>2, <1>3 DEF Wired

\* Wired, but for the texts, which may need the named policies.
WiredFor(m, pols) == Lines(m, pols) /\ Guarded(m) /\ SyslogScraped(m) /\ Scrapes(m)

\* A part beside the scrapes is put over a wired manifest.
LEMMA AsideOver ==
    ASSUME NEW r, NEW m, NEW n, MergedOf(r, m, n), WiredFor(m, DOMAIN r.pols), Aside(n),
           "syslog" \notin DOMAIN n.deps
    PROVE  Wired(r)
<1>1. DOMAIN n.pols \subseteq DOMAIN r.pols
  BY DEF MergedOf, Over
<1>2. Lines(n, DOMAIN r.pols)
  BY <1>1, LinesGrow DEF Aside
<1>3. \A d \in DOMAIN n.deps : PoliciesOf(d) \subseteq DOMAIN r.pols
  BY <1>1 DEF Aside, Guarded
<1>4. Scrapes(n)
  BY DEF Aside, Scrapes
<1>5. SyslogScraped(r)
  <2> SUFFICES ASSUME "syslog" \in DOMAIN r.deps
               PROVE  <<"syslog", 12345>> \in r.pols["nas_prometheus_egress"].egress
    BY DEF SyslogScraped
  <2>1. "syslog" \in DOMAIN m.deps
    BY DEF MergedOf, Over
  <2>2. "nas_prometheus_egress" \in DOMAIN m.pols /\ "nas_prometheus_egress" \notin DOMAIN n.pols
    BY <2>1 DEF WiredFor, Guarded, PoliciesOf, Aside
  <2>3. r.pols["nas_prometheus_egress"] = m.pols["nas_prometheus_egress"]
    BY <2>2 DEF MergedOf, Over
  <2> QED BY <2>1, <2>3 DEF WiredFor, SyslogScraped
<1> QED BY <1>2, <1>3, <1>4, <1>5, MergeWired DEF WiredFor

\* A part by itself may be applied over anything that is wired.
LEMMA AsideWired ==
    ASSUME NEW m, NEW n, Wired(m), Aside(n), "syslog" \notin DOMAIN n.deps
    PROVE  Wired(MonitoringStack!Merge(m, n))
<1> DEFINE r == MonitoringStack!Merge(m, n)
<1>1. MergedOf(r, m, n)
  BY MergeFields
<1> HIDE DEF r
<1>2. DOMAIN m.pols \subseteq DOMAIN r.pols
  BY <1>1 DEF MergedOf, Over
<1>3. WiredFor(m, DOMAIN r.pols)
  BY <1>2, LinesGrow DEF Wired, WiredFor
<1> QED BY <1>1, <1>3, AsideOver DEF r

\* More dashboards.
LEMMA ReprovisionWired ==
    ASSUME NEW m, NEW data, NEW extra, NEW pols, Scraped(m), WiredFor(m, pols),
           CallsWithin(data, TextCalls("grafana", pols))
    PROVE  WiredFor(MonitoringStack!Reprovision(m, data, extra), pols)
<1> DEFINE r == MonitoringStack!Reprovision(m, data, extra)
           old == m.deps["grafana"]
           new == [mounts |-> MonitoringStack!Mounted(DOMAIN data), digest |-> <<data>>,
                   calls |-> old.calls, extra |-> old.extra \cup extra]
<1>1. IsManifest(m) /\ "grafana" \in DOMAIN m.deps /\ IsTemplate(m.deps["grafana"])
  BY DEF Scraped, Grown, Shape
<1>2. r.pols = m.pols /\ Changed(r.cms, m.cms, "grafana", data) /\ Changed(r.deps, m.deps, "grafana", new)
  BY <1>1, ReprovisionFields
<1>3. new.calls = old.calls
  OBVIOUS
<1> HIDE DEF r, new
<1>4. DOMAIN r.deps = DOMAIN m.deps /\ \A d \in DOMAIN r.deps : r.deps[d].calls = m.deps[d].calls
  BY <1>1, <1>2, <1>3 DEF Changed
<1>5. /\ DOMAIN r.cms = DOMAIN m.cms
      /\ \A c \in DOMAIN r.cms : r.cms[c] = IF c = "grafana" THEN data ELSE m.cms[c]
  BY <1>2 DEF Changed
<1>6. Lines(r, pols)
  BY <1>2, <1>4, <1>5 DEF Lines, WiredFor
<1>7. Guarded(r) /\ SyslogScraped(r)
  BY <1>2, <1>4 DEF Guarded, SyslogScraped, WiredFor
<1>8. Scrapes(r)
  BY <1>2, <1>5 DEF Scrapes, WiredFor
<1> QED BY <1>6, <1>7, <1>8 DEF WiredFor, r

\* More scrape jobs, of the kinds that the policies know.
LEMMA UpdateWired ==
    ASSUME NEW m, NEW parts, NEW kept, NEW calls, NEW e, Scraped(m), Wired(m), calls \subseteq PrometheusCalls
    PROVE  Wired(MonitoringStack!UpdatePrometheus(m, parts, kept, calls, e))
<1> DEFINE r == MonitoringStack!UpdatePrometheus(m, parts, kept, calls, e)
           old == m.deps["prometheus"]
           config == m.cms["prometheus"].config
           text == MonitoringStack!Text(config.parts \cup parts, 0, config.calls \cup calls, config.series \cup kept)
           new == [mounts |-> old.mounts, digest |-> <<text, MonitoringStack!RuleText(e)>>,
                   calls |-> old.calls, extra |-> old.extra]
           data == [config |-> text]
<1>1. IsManifest(m) /\ "prometheus" \in DOMAIN m.cms /\ "prometheus" \in DOMAIN m.deps /\ IsTemplate(m.deps["prometheus"])
  BY DEF Scraped, Grown, Shape
<1>2. r.pols = m.pols /\ Changed(r.cms, m.cms, "prometheus", data) /\ Changed(r.deps, m.deps, "prometheus", new)
  BY <1>1, UpdateFields
<1>3. new.calls = old.calls
  OBVIOUS
<1>4. data["config"].calls = config.calls \cup calls
  BY TextFields
<1> HIDE DEF r, new, data
<1>5. DOMAIN r.deps = DOMAIN m.deps /\ \A d \in DOMAIN r.deps : r.deps[d].calls = m.deps[d].calls
  BY <1>1, <1>2, <1>3 DEF Changed
<1>6. /\ DOMAIN r.cms = DOMAIN m.cms /\ r.cms["prometheus"] = data
      /\ \A c \in DOMAIN r.cms : c # "prometheus" => r.cms[c] = m.cms[c]
  BY <1>1, <1>2 DEF Changed
<1>7. Lines(r, DOMAIN r.pols)
  BY <1>2, <1>5, <1>6 DEF Lines, Wired
<1>8. Guarded(r) /\ SyslogScraped(r)
  BY <1>2, <1>5 DEF Guarded, SyslogScraped, Wired
<1>9. Scrapes(r)
  <2>1. "prometheus_restricted" \in DOMAIN r.pols /\ Licensed(config.calls, r.pols["prometheus_restricted"].egress)
    BY <1>1, <1>2 DEF Scrapes, Wired
  <2>2. Licensed(r.cms["prometheus"].config.calls, r.pols["prometheus_restricted"].egress)
    BY <1>4, <1>6, <2>1 DEF Licensed
  <2> QED BY <1>1, <1>6, <2>1, <2>2 DEF Scrapes
<1> QED BY <1>7, <1>8, <1>9 DEF Wired, r

\* More alert rules.
LEMMA MountWired ==
    ASSUME NEW m, NEW cm, NEW text, Scraped(m), Wired(m)
    PROVE  Wired(MonitoringStack!MountRules(m, cm, text))
<1> DEFINE r == MonitoringStack!MountRules(m, cm, text)
           old == m.deps["prometheus"]
           new == [mounts |-> old.mounts \cup {<<cm, "alerts">>}, digest |-> Append(old.digest, text),
                   calls |-> old.calls, extra |-> old.extra]
<1>1. IsManifest(m) /\ "prometheus" \in DOMAIN m.deps /\ IsTemplate(m.deps["prometheus"])
  BY DEF Scraped, Grown, Shape
<1>2. r.pols = m.pols /\ r.cms = m.cms /\ Changed(r.deps, m.deps, "prometheus", new)
  BY <1>1, MountFields
<1>3. new.calls = old.calls
  OBVIOUS
<1> HIDE DEF r, new
<1>4. DOMAIN r.deps = DOMAIN m.deps /\ \A d \in DOMAIN r.deps : r.deps[d].calls = m.deps[d].calls
  BY <1>1, <1>2, <1>3 DEF Changed
<1> QED BY <1>2, <1>4 DEF r, Wired, Lines, Guarded, SyslogScraped, Scrapes

\* The pieces of an opt-in keep the manifest whole.
LEMMA Reprovisioned ==
    ASSUME NEW m, NEW data, NEW extra, Scraped(m), AreTexts(data), QueriesIn(data)
    PROVE  LET r == MonitoringStack!Reprovision(m, data, extra)
           IN  /\ Scraped(r) /\ (NoFiles(m) => NoFiles(r)) /\ r.pols = m.pols
               /\ SameFor(r, m, {"prometheus", "files"}) /\ DOMAIN r.deps = DOMAIN m.deps
               /\ Wired(m) /\ CallsWithin(data, TextCalls("grafana", DOMAIN m.pols)) => Wired(r)
<1> DEFINE r == MonitoringStack!Reprovision(m, data, extra)
<1>1. /\ Grown(r) /\ SameFor(r, m, {"prometheus", "files"}) /\ r.pols = m.pols
      /\ DOMAIN r.cms = DOMAIN m.cms /\ DOMAIN r.deps = DOMAIN m.deps
  BY ReprovisionGrown DEF Scraped
<1> HIDE DEF r
<1>2. Scraped(r)
  BY <1>1 DEF Scraped
<1>3. NoFiles(m) => NoFiles(r)
  BY <1>1 DEF NoFiles, FilesMounted, SameFor, Same
<1>4. Wired(m) /\ CallsWithin(data, TextCalls("grafana", DOMAIN m.pols)) => WiredFor(r, DOMAIN m.pols)
  BY ReprovisionWired DEF Wired, WiredFor, r
<1>5. Wired(m) /\ CallsWithin(data, TextCalls("grafana", DOMAIN m.pols)) => Wired(r)
  BY <1>1, <1>4 DEF Wired, WiredFor
<1> QED BY <1>1, <1>2, <1>3, <1>5 DEF r

\* An opt-in that adds jobs to the configuration.
LEMMA Rescraped ==
    ASSUME NEW m, NEW parts, NEW kept, NEW calls, NEW e, Scraped(m), NoFiles(m), Closed(kept)
    PROVE  LET r == MonitoringStack!UpdatePrometheus(m, parts, kept, calls, e)
           IN  /\ Scraped(r) /\ NoFiles(r) /\ SameFor(r, m, {"grafana"}) /\ r.pols = m.pols
               /\ DOMAIN r.deps = DOMAIN m.deps
               /\ \E a, b : r.deps["prometheus"].digest = <<a, b>>
               /\ Wired(m) /\ calls \subseteq PrometheusCalls => Wired(r)
<1> DEFINE r == MonitoringStack!UpdatePrometheus(m, parts, kept, calls, e)
<1>1. /\ Grown(r) /\ SameFor(r, m, {"grafana"}) /\ r.pols = m.pols
      /\ DOMAIN r.cms = DOMAIN m.cms /\ DOMAIN r.deps = DOMAIN m.deps
      /\ r.deps["prometheus"].mounts = m.deps["prometheus"].mounts
      /\ \E a, b : r.deps["prometheus"].digest = <<a, b>>
  BY UpdateGrown DEF Scraped
<1>2. Wired(m) /\ calls \subseteq PrometheusCalls => Wired(r)
  BY UpdateWired
<1> HIDE DEF r
<1>3. Scraped(r) /\ NoFiles(r)
  BY <1>1 DEF Scraped, NoFiles, FilesMounted
<1> QED BY <1>1, <1>2, <1>3 DEF r

Apart(n) ==
    /\ "grafana" \notin DOMAIN n.cms \cup DOMAIN n.deps
    /\ "prometheus" \notin DOMAIN n.cms \cup DOMAIN n.deps

\* An opt-in that adds a Pod of its own.
LEMMA Extended ==
    ASSUME NEW m, NEW n, Scraped(m), Shape(n), Apart(n)
    PROVE  LET r == MonitoringStack!Merge(m, n)
           IN  /\ Scraped(r) /\ SameFor(r, m, Shared)
               /\ DOMAIN r.deps = DOMAIN n.deps \cup DOMAIN m.deps
               /\ NoFiles(m) /\ "files" \notin DOMAIN n.cms => NoFiles(r)
<1> DEFINE r == MonitoringStack!Merge(m, n)
<1>1. Grown(r) /\ SameFor(r, m, Shared) /\ MergedOf(r, m, n)
  BY MergeGrown DEF Scraped, Apart
<1> HIDE DEF r
<1>2. Scraped(r)
  BY <1>1 DEF Scraped, SameFor, Same, Shared
<1>3. ASSUME NoFiles(m), "files" \notin DOMAIN n.cms PROVE NoFiles(r)
  BY <1>1, <1>3 DEF NoFiles, FilesMounted, SameFor, Same, Shared, MergedOf, Over
<1>4. DOMAIN r.deps = DOMAIN n.deps \cup DOMAIN m.deps
  BY <1>1 DEF MergedOf, Over
<1> QED BY <1>1, <1>2, <1>3, <1>4 DEF r

LEMMA Provisions ==
    ASSUME NEW m, Scraped(m)
    PROVE  LET old == MonitoringStack!Provisioned(m)
           IN  /\ AreTexts(old) /\ QueriesIn(old)
               /\ Wired(m) => CallsWithin(old, TextCalls("grafana", DOMAIN m.pols))
<1>1. "grafana" \in DOMAIN m.cms
  BY DEF Scraped, Grown, Shape, OwnTied
<1>2. Wired(m) => CallsWithin(m.cms["grafana"], TextCalls("grafana", DOMAIN m.pols))
  BY <1>1 DEF Wired, Lines
<1> QED BY <1>1, <1>2 DEF Scraped, Grown, Shape, SeriesOK, MonitoringStack!Provisioned

\* Before the opt-in of the NAS's syslog.
Plain(m) == Wired(m) /\ "syslog" \notin DOMAIN m.deps

\* The opt-in of the production host's exporter.
LEMMA WithProdHost ==
    ASSUME NEW m, Scraped(m), NoFiles(m)
    PROVE  LET r == MonitoringStack!AddProdHost(m)
           IN  Scraped(r) /\ NoFiles(r) /\ (Plain(m) => Plain(r))
<1> DEFINE series == MonitoringStack!ProdHostsBoard
           new == [k \in {"prod-hosts"} |-> MonitoringStack!Dashboard(k, series)]
           old == MonitoringStack!Provisioned(m)
           data == MonitoringStack!++(new, [old EXCEPT !["provider"].parts = @ \cup {"prod-hosts"}])
           r == MonitoringStack!Reprovision(m, data, {})
<1>1. Queriable(series)
  BY DEF MonitoringStack!ProdHostsBoard, Queriable, GroupsOf
<1>2. AreTexts(new) /\ QueriesIn(new) /\ \A calls : CallsWithin(new, calls)
  <2> HIDE DEF series
  <2> QED BY <1>1, DashboardText DEF AreTexts, QueriesIn, CallsWithin
<1> DEFINE calls == TextCalls("grafana", DOMAIN m.pols)
<1>3. AreTexts(old) /\ QueriesIn(old) /\ (Wired(m) => CallsWithin(old, calls))
  BY Provisions
<1>4. AreTexts(data) /\ QueriesIn(data) /\ (Wired(m) => CallsWithin(data, calls))
  <2> HIDE DEF new, old, calls
  <2> QED BY <1>2, <1>3, ListedTexts
<1>5. MonitoringStack!AddProdHost(m) = MonitoringStack!Merge(r, MonitoringStack!Exporter)
  BY DEF MonitoringStack!AddProdHost
<1> HIDE DEF data
<1>6. Scraped(r) /\ NoFiles(r) /\ (Plain(m) => Plain(r))
  BY <1>4, Reprovisioned DEF Plain
<1> HIDE DEF r
<1>7. Shape(MonitoringStack!Exporter) /\ Apart(MonitoringStack!Exporter)
      /\ "files" \notin DOMAIN MonitoringStack!Exporter.cms
  BY ExporterShape DEF Apart
<1>8. DOMAIN MonitoringStack!Exporter.deps = {"exporter"}
  BY ExporterShape
<1>9. Plain(m) => Wired(MonitoringStack!Merge(r, MonitoringStack!Exporter))
  BY <1>6, <1>8, AsideWired, ExporterAside DEF Plain
<1> QED BY <1>5, <1>6, <1>7, <1>8, <1>9, Extended DEF Plain

\* The opt-in of the NAS's SNMP metrics.
LEMMA WithNas ==
    ASSUME NEW m, NEW e, Scraped(m), NoFiles(m)
    PROVE  LET r == MonitoringStack!AddNas(m, e)
           IN  /\ Scraped(r) /\ NoFiles(r)
               /\ Plain(m) => Plain(r) /\ "nas_prometheus_egress" \in DOMAIN r.pols
<1> DEFINE series == {<<"qnap-nas-snmp", "qnap">>}
           calls == {<<"prometheus", "snmp", 9116>>, <<"snmp", "nas", 161>>}
           scraped == MonitoringStack!UpdatePrometheus(m, {}, series, calls, e)
           new == [nas |-> MonitoringStack!Dashboard("nas", MonitoringStack!NasBoard)]
           old == MonitoringStack!Provisioned(m)
           data == MonitoringStack!++(new, [old EXCEPT !["provider"].parts = @ \cup {"nas"}])
           r == MonitoringStack!Reprovision(scraped, data, {})
           n == MonitoringStack!SnmpResources
<1>1. Queriable(MonitoringStack!NasBoard) /\ Closed(series)
  BY DEF MonitoringStack!NasBoard, Queriable, Closed, GroupsOf
<1>2. AreTexts(new) /\ QueriesIn(new) /\ \A within : CallsWithin(new, within)
  BY <1>1, DashboardText DEF AreTexts, QueriesIn, CallsWithin
<1> DEFINE within == TextCalls("grafana", DOMAIN m.pols)
<1>3. AreTexts(old) /\ QueriesIn(old) /\ (Wired(m) => CallsWithin(old, within))
  BY Provisions
<1>4. AreTexts(data) /\ QueriesIn(data) /\ (Wired(m) => CallsWithin(data, within))
  <2> HIDE DEF new, old, within
  <2> QED BY <1>2, <1>3, ListedTexts
<1>5. MonitoringStack!AddNas(m, e) = MonitoringStack!Merge(r, n)
  BY DEF MonitoringStack!AddNas
<1>5a. calls \subseteq PrometheusCalls
  BY DEF PrometheusCalls
<1> HIDE DEF data, series, calls
<1>6. Scraped(scraped) /\ NoFiles(scraped) /\ scraped.pols = m.pols /\ (Plain(m) => Plain(scraped))
  BY <1>1, <1>5a, Rescraped DEF Plain
<1> HIDE DEF scraped
<1>7. Scraped(r) /\ NoFiles(r) /\ (Plain(m) => Plain(r))
  BY <1>4, <1>6, Reprovisioned DEF Plain
<1> HIDE DEF r
<1>7a. /\ Lines(n, DOMAIN n.pols) /\ DOMAIN n.pols = {"snmp_restricted", "nas_prometheus_egress"}
       /\ DOMAIN n.cms = {"snmp"} /\ DOMAIN n.deps = {"snmp"}
  BY SnmpLines, SnmpShape DEF Lone
<1> HIDE DEF n
<1>8. Shape(n) /\ Apart(n) /\ "files" \notin DOMAIN n.cms
  BY SnmpShape DEF Apart, Lone, n
<1> DEFINE merged == MonitoringStack!Merge(r, n)
<1>9. MergedOf(merged, r, n)
  BY MergeFields
<1>10. Scraped(merged) /\ NoFiles(merged)
  BY <1>7, <1>8, Extended
<1> HIDE DEF merged
<1>11. /\ "syslog" \notin DOMAIN r.deps => "syslog" \notin DOMAIN merged.deps
       /\ DOMAIN n.pols \subseteq DOMAIN merged.pols /\ DOMAIN r.pols \subseteq DOMAIN merged.pols
  BY <1>7a, <1>9 DEF MergedOf, Over
<1>12. \A d \in DOMAIN n.deps : PoliciesOf(d) \subseteq DOMAIN merged.pols
  BY <1>7a, <1>11 DEF PoliciesOf
<1>13. Scrapes(n)
  BY <1>7a DEF Scrapes
<1>14. ASSUME Plain(m) PROVE Wired(merged)
  <2>1. Lines(r, DOMAIN merged.pols) /\ Lines(n, DOMAIN merged.pols)
    BY <1>7, <1>7a, <1>11, <1>14, LinesGrow DEF Plain, Wired
  <2>2. SyslogScraped(merged)
    BY <1>7, <1>11, <1>14 DEF SyslogScraped, Plain
  <2>3. Guarded(r) /\ Scrapes(r)
    BY <1>7, <1>14 DEF Plain, Wired
  <2> QED BY <1>9, <1>12, <1>13, <2>1, <2>2, <2>3, MergeWired
<1> QED BY <1>5, <1>7, <1>7a, <1>10, <1>11, <1>14 DEF Plain, merged

\* The egress of one policy changes: nothing else does.
LEMMA PolicyChanged ==
    ASSUME NEW m, NEW name, NEW policy, Scraped(m), NoFiles(m)
    PROVE  LET r == [m EXCEPT !.pols[name] = policy]
           IN  /\ Scraped(r) /\ NoFiles(r)
               /\ r.pols = [m.pols EXCEPT ![name] = policy]
               /\ Plain(m) /\ Keeps(name, policy) /\ name # "prometheus_restricted" => Plain(r)
<1> DEFINE pols == [m.pols EXCEPT ![name] = policy]
           r == [m EXCEPT !.pols[name] = policy]
<1>1. r.cms = m.cms /\ r.deps = m.deps /\ r.pols = pols /\ IsManifest(r)
  BY DEF Scraped, Grown, Shape, IsManifest, MonitoringStack!Manifest
<1>2. DOMAIN pols = DOMAIN m.pols /\ \A x \in DOMAIN pols : pols[x] = IF x = name THEN policy ELSE m.pols[x]
  OBVIOUS
<1>2a. pols = [m.pols EXCEPT ![name] = policy]
  OBVIOUS
<1> HIDE DEF r, pols
<1>3. Shape(r)
  BY <1>1, <1>2 DEF Shape, Scraped, Grown
<1>4. Scraped(r)
  BY <1>1, <1>3 DEF Scraped, Grown
<1>5. NoFiles(r)
  BY <1>1 DEF NoFiles, FilesMounted
<1>6. ASSUME Plain(m), Keeps(name, policy), name # "prometheus_restricted" PROVE Plain(r)
  <2>1. Lines(r, DOMAIN r.pols)
    BY <1>1, <1>2, <1>6 DEF Lines, Plain, Wired
  <2>2. Guarded(r) /\ SyslogScraped(r)
    BY <1>1, <1>2, <1>6 DEF Guarded, SyslogScraped, Plain, Wired
  <2>3. Scrapes(r)
    BY <1>1, <1>2, <1>6 DEF Scrapes, Plain, Wired
  <2> QED BY <1>1, <1>6, <2>1, <2>2, <2>3 DEF Plain, Wired
<1> QED BY <1>1, <1>2a, <1>4, <1>5, <1>6 DEF r

\* A peer added to the policy of the NAS's exporter leaves what it allowed.
LEMMA PeerAdded ==
    ASSUME NEW p, NEW more, Keeps("nas_prometheus_egress", p)
    PROVE  LET r == [p EXCEPT !.egress = @ \cup more]
           IN  Keeps("nas_prometheus_egress", r) /\ more \subseteq r.egress
<1> DEFINE out == p.egress \cup more
           r == [p EXCEPT !.egress = out]
<1>1. IsPolicy(p) /\ p.pod = "prometheus" /\ Grants(p, "prometheus", {}, {<<"snmp", 9116>>})
  BY DEF Keeps, Grants
<1>2. r = [pod |-> p.pod, types |-> p.types, ingress |-> p.ingress, egress |-> out]
  <2> HIDE DEF out
  <2> QED BY <1>1 DEF IsPolicy
<1>3. r.pod = p.pod /\ r.types = p.types /\ r.ingress = p.ingress /\ r.egress = out
  <2> HIDE DEF r, out
  <2> QED BY <1>2
<1> HIDE DEF r
<1>4. IsPolicy(r) /\ Grants(r, "prometheus", {}, {<<"snmp", 9116>>}) /\ r.pod \in Selected
  BY <1>1, <1>2, <1>3 DEF IsPolicy, Grants, Selected
<1>5. Keeps("nas_prometheus_egress", r)
  BY <1>4 DEF Keeps
<1> QED BY <1>3, <1>5 DEF r


\* The opt-in of the NAS's syslog, which opens Prometheus in the policy of the one before.
LEMMA WithSyslog ==
    ASSUME NEW m, NEW filter, NEW e, Scraped(m), NoFiles(m)
    PROVE  LET r == MonitoringStack!AddSyslog(m, filter, e)
           IN  /\ Scraped(r) /\ NoFiles(r)
               /\ Plain(m) /\ "nas_prometheus_egress" \in DOMAIN m.pols => Wired(r)
<1> DEFINE series == {<<"qnap-nas-collector", "loki">>}
           calls == {<<"prometheus", "syslog", 12345>>}
           scraped == MonitoringStack!UpdatePrometheus(m, {}, series, calls, e)
           name == "nas_prometheus_egress"
           policy == [scraped.pols[name] EXCEPT !.egress = @ \cup {<<"syslog", 12345>>}]
           allowed == [scraped EXCEPT !.pols[name] = policy]
           more == {"syslog"} \cup MonitoringStack!Keys({"filter"}, filter)
           data == MonitoringStack!NasPanels(m, more, {})
           r == MonitoringStack!Reprovision(allowed, data, {})
           n == MonitoringStack!SyslogResources(filter)
<1>1. Queriable({}) /\ Closed(series)
  BY DEF Queriable, Closed, GroupsOf
<1>2. /\ AreTexts(data) /\ QueriesIn(data)
      /\ \A within : CallsWithin(m.cms["grafana"], within) => CallsWithin(data, within)
  BY <1>1, PanelsTexts DEF Scraped
<1>3. MonitoringStack!AddSyslog(m, filter, e) = MonitoringStack!Merge(r, n)
  BY DEF MonitoringStack!AddSyslog
<1>3a. calls \subseteq PrometheusCalls
  BY DEF PrometheusCalls
<1> HIDE DEF data, series, calls
<1>3b. Wired(m) => CallsWithin(data, TextCalls("grafana", DOMAIN m.pols))
  BY <1>2, Provisions DEF MonitoringStack!Provisioned
<1>4. Scraped(scraped) /\ NoFiles(scraped) /\ scraped.pols = m.pols /\ (Plain(m) => Plain(scraped))
  BY <1>1, <1>3a, Rescraped DEF Plain
<1> HIDE DEF scraped
<1>4a. ASSUME Plain(m), name \in DOMAIN m.pols
       PROVE  Keeps(name, policy) /\ <<"syslog", 12345>> \in policy.egress
  <2>1. Keeps("nas_prometheus_egress", scraped.pols[name])
    BY <1>4, <1>4a DEF Plain, Wired, Lines
  <2> QED BY <2>1, PeerAdded
<1>4b. name # "prometheus_restricted" /\ name = "nas_prometheus_egress"
  OBVIOUS
<1> HIDE DEF policy, name
<1>5. /\ Scraped(allowed) /\ NoFiles(allowed) /\ allowed.pols = [m.pols EXCEPT ![name] = policy]
      /\ Plain(m) /\ name \in DOMAIN m.pols => Plain(allowed)
  BY <1>4, <1>4a, <1>4b, PolicyChanged
<1> HIDE DEF allowed
<1>6. /\ Scraped(r) /\ NoFiles(r) /\ r.pols = allowed.pols
      /\ Plain(m) /\ name \in DOMAIN m.pols => Plain(r)
  <2>1. DOMAIN allowed.pols = DOMAIN m.pols
    BY <1>5
  <2>2. Plain(m) => CallsWithin(data, TextCalls("grafana", DOMAIN allowed.pols))
    BY <1>3b, <2>1 DEF Plain
  <2> QED BY <1>2, <1>5, <2>2, Reprovisioned DEF Plain
<1> HIDE DEF r
<1>7. Shape(n) /\ Apart(n) /\ "files" \notin DOMAIN n.cms /\ DOMAIN n.cms = {"syslog"} /\ DOMAIN n.deps = {"syslog"}
  BY SyslogShape DEF Apart, Lone, n
<1>7a. Lines(n, DOMAIN n.pols) /\ DOMAIN n.pols = {"syslog_restricted", "nas_loki_ingress"}
  BY SyslogLines DEF n
<1> HIDE DEF n
<1> DEFINE merged == MonitoringStack!Merge(r, n)
<1>8. MergedOf(merged, r, n)
  BY MergeFields
<1>9. Scraped(merged) /\ NoFiles(merged)
  BY <1>6, <1>7, Extended
<1> HIDE DEF merged
<1>10. ASSUME Plain(m), name \in DOMAIN m.pols PROVE Wired(merged)
  <2>1. Plain(r) /\ name \in DOMAIN r.pols /\ r.pols[name] = policy
    BY <1>5, <1>6, <1>10
  <2>2. DOMAIN merged.pols = DOMAIN r.pols \cup DOMAIN n.pols
    BY <1>8 DEF MergedOf, Over
  <2>3. \A d \in DOMAIN n.deps : PoliciesOf(d) \subseteq DOMAIN merged.pols
    BY <1>4b, <1>7, <1>7a, <2>1, <2>2 DEF PoliciesOf
  <2>4. merged.pols[name] = policy
    BY <1>4b, <1>7a, <1>8, <2>1 DEF MergedOf, Over
  <2>5. SyslogScraped(merged)
    BY <1>4a, <1>4b, <1>10, <2>4 DEF SyslogScraped
  <2>6. Lines(r, DOMAIN merged.pols) /\ Lines(n, DOMAIN merged.pols)
    BY <1>7a, <2>1, <2>2, LinesGrow DEF Plain, Wired
  <2>7. Scrapes(n)
    BY <1>7, <1>7a DEF Scrapes
  <2>8. Guarded(r) /\ Scrapes(r)
    BY <2>1 DEF Plain, Wired
  <2> QED BY <1>8, <2>3, <2>5, <2>6, <2>7, <2>8, MergeWired
<1> QED BY <1>3, <1>4b, <1>9, <1>10 DEF merged

\* The opt-in of the NAS's NFS metrics and their rules.
LEMMA WithNfs ==
    ASSUME NEW m, NEW e, Scraped(m), NoFiles(m)
    PROVE  LET r == MonitoringStack!AddNfs(m, e)
           IN  Scraped(r) /\ NoFiles(r) /\ (Wired(m) => Wired(r))
<1> DEFINE series == {<<"qnap-nas-nfs", "nfs">>}
           calls == {<<"prometheus", "nfs", 9189>>}
           rules == MonitoringStack!NfsRules(e)
           code == MonitoringStack!Text({"nfs"}, 0, {}, {})
           data == [code |-> code, alerts |-> rules]
           scraped == MonitoringStack!UpdatePrometheus(m, {"nfs-rules"}, series, calls, e)
           mounted == MonitoringStack!MountRules(scraped, "nfs", rules)
           panels == MonitoringStack!NasPanels(m, {"nfs"}, series)
           viewed == MonitoringStack!Reprovision(mounted, panels, {})
           names == {<<"nfs", k>> : k \in DOMAIN data}
           flows == {<<"nfs", "nas", 22>>}
           p1 == MonitoringStack!Policy("nfs", {<<"prometheus", 9189>>}, {<<"nas", 22>>})
           p2 == MonitoringStack!EgressPolicy("prometheus", {<<"nfs", 9189>>})
           pols == [nfs_restricted |-> p1, nfs_prometheus_egress |-> p2]
           n == MonitoringStack!Manifest([nfs |-> data], [nfs |-> MonitoringStack!Deployment(names, <<data>>, flows)], pols)
<1>1. MonitoringStack!AddNfs(m, e) = MonitoringStack!Merge(viewed, n)
  BY DEF MonitoringStack!AddNfs
<1>2. Queriable(series) /\ Closed(series)
  BY DEF Queriable, Closed, GroupsOf
<1>3. Queriable(rules.series)
  BY <1>2, TextFields DEF MonitoringStack!NfsRules
<1>2a. calls \subseteq PrometheusCalls
  BY DEF PrometheusCalls
<1>2b. rules.calls = {} /\ code.calls = {} /\ flows \subseteq TemplateCalls("nfs")
  BY TextFields DEF MonitoringStack!NfsRules, TemplateCalls
<1>2c. /\ IsPolicy(p1) /\ p1.pod = "nfs" /\ Grants(p1, "nfs", {<<"prometheus", 9189>>}, {<<"nas", 22>>})
       /\ IsPolicy(p2) /\ p2.pod = "prometheus" /\ Grants(p2, "prometheus", {}, {<<"nfs", 9189>>})
  BY PolicyFields
<1> HIDE DEF rules, code, series, calls, p1, p2
<1>2d. Keeps("nfs_restricted", p1) /\ Keeps("nfs_prometheus_egress", p2)
  BY <1>2c DEF Keeps, Selected
<1>4. /\ AreTexts(panels) /\ QueriesIn(panels)
      /\ Wired(m) => CallsWithin(panels, TextCalls("grafana", DOMAIN m.pols))
  <2>1. /\ AreTexts(panels) /\ QueriesIn(panels)
        /\ \A within : CallsWithin(m.cms["grafana"], within) => CallsWithin(panels, within)
    BY <1>2, PanelsTexts DEF Scraped
  <2> HIDE DEF panels
  <2> QED BY <2>1, Provisions DEF MonitoringStack!Provisioned
<1> HIDE DEF panels
<1>5. /\ Scraped(scraped) /\ NoFiles(scraped) /\ \E a, b : scraped.deps["prometheus"].digest = <<a, b>>
      /\ scraped.pols = m.pols /\ (Wired(m) => Wired(scraped))
  BY <1>2, <1>2a, Rescraped
<1> HIDE DEF scraped
<1>6. Scraped(mounted) /\ NoFiles(mounted) /\ mounted.pols = m.pols /\ (Wired(m) => Wired(mounted))
  <2>1. PICK a, b : scraped.deps["prometheus"].digest = <<a, b>>
    BY <1>5
  <2>2. /\ Grown(mounted) /\ mounted.cms = scraped.cms
        /\ mounted.deps["prometheus"].mounts = scraped.deps["prometheus"].mounts \cup {<<"nfs", "alerts">>}
        /\ DOMAIN mounted.deps = DOMAIN scraped.deps /\ mounted.pols = scraped.pols
    BY <1>5, <2>1, MountGrown DEF Scraped
  <2>3. Wired(scraped) => Wired(mounted)
    BY <1>5, MountWired
  <2> HIDE DEF mounted
  <2> QED BY <1>5, <2>2, <2>3 DEF Scraped, NoFiles, FilesMounted
<1> HIDE DEF mounted
<1>7. Scraped(viewed) /\ NoFiles(viewed) /\ (Wired(m) => Wired(viewed))
  BY <1>4, <1>6, Reprovisioned
<1>8. /\ IsManifest(n) /\ DOMAIN n.cms = {"nfs"} /\ DOMAIN n.deps = {"nfs"} /\ "files" \notin DOMAIN n.pols
      /\ n.cms["nfs"] = data /\ n.deps["nfs"] = MonitoringStack!Deployment(names, <<data>>, flows)
      /\ n.pols = pols
  <2> HIDE DEF data, names, flows
  <2> QED BY ManifestFields
<1>9. n.deps["nfs"].mounts = names /\ n.deps["nfs"].digest = <<data>> /\ n.deps["nfs"].calls = flows
  <2> HIDE DEF n, data, names, flows
  <2> QED BY <1>8, DeploymentFields
<1>10. DOMAIN data = {"code", "alerts"} /\ data.alerts = rules /\ data.code = code
  OBVIOUS
<1>10a. /\ DOMAIN n.pols = {"nfs_restricted", "nfs_prometheus_egress"}
        /\ \A x \in DOMAIN n.pols : Keeps(x, n.pols[x])
  <2> HIDE DEF n
  <2> QED BY <1>2d, <1>8
<1> HIDE DEF n, data, viewed, flows
<1>11. Shape(n) /\ Apart(n) /\ "files" \notin DOMAIN n.cms
  BY <1>3, <1>8, <1>9, <1>10, CollectorShape DEF Lone, Apart
<1>12. Aside(n)
  <2>1. CallsWithin(n.cms["nfs"], TextCalls("nfs", DOMAIN n.pols))
    BY <1>2b, <1>8, <1>10 DEF CallsWithin
  <2>2. Lines(n, DOMAIN n.pols)
    BY <1>2b, <1>8, <1>9, <1>10, <1>10a, <2>1, LoneLines DEF Lone
  <2> QED BY <1>8, <1>10a, <2>2 DEF Aside, Guarded, PoliciesOf
<1>13. Wired(m) => Wired(MonitoringStack!Merge(viewed, n))
  BY <1>7, <1>8, <1>12, AsideWired
<1> QED BY <1>1, <1>7, <1>11, <1>13, Extended

\* The rules that Prometheus mounts for the NAS file logs are in its digest.
FilesTied(m) ==
    FilesMounted(m) =>
        "files" \in DOMAIN m.cms /\ m.cms["files"]["alerts"] = m.deps["prometheus"].digest[3]

\* The opt-in of the NAS's file logs, which takes the digest anew.
LEMMA WithFileLogs ==
    ASSUME NEW m, NEW filter, NEW e, Scraped(m), NoFiles(m)
    PROVE  LET r == MonitoringStack!AddFileLogs(m, filter, e)
           IN  Scraped(r) /\ FilesTied(r) /\ (Wired(m) => Wired(r))
<1> DEFINE series == {"qnap-nas-file-logs"} \X {"files", "smart"}
           asked == series \cup {<<"qnap-nas-collector", "loki">>}
           calls == {<<"prometheus", "files", 9188>>}
           rules == MonitoringStack!FileLogRules(e)
           code == MonitoringStack!Text({"files"}, 0,
                       {<<"files", "loki", 3100>>} \cup MonitoringStack!Resolves("files"), {})
           data == [code |-> code, alerts |-> rules]
           scraped == MonitoringStack!UpdatePrometheus(m, {"files-rules"}, series, calls, e)
           mounted == MonitoringStack!MountRules(scraped, "files", rules)
           more == {"files"} \cup MonitoringStack!Keys({"filter-files"}, filter)
           panels == MonitoringStack!NasPanels(m, more, asked)
           viewed == MonitoringStack!Reprovision(mounted, panels, {})
           names == {<<"files", k>> : k \in DOMAIN data}
           flows == {<<"files", "nas", 22>>}
           extra == MonitoringStack!Keys({"filter"}, filter)
           plain == MonitoringStack!Deployment(names, <<data>>, flows)
           template == [plain EXCEPT !.extra = extra]
           out == {<<"nas", 22>>, <<"loki", 3100>>} \cup MonitoringStack!KubeDns
           p1 == MonitoringStack!Policy("files", {<<"prometheus", 9188>>}, out)
           p2 == MonitoringStack!EgressPolicy("prometheus", {<<"files", 9188>>})
           p3 == MonitoringStack!IngressPolicy("loki", {<<"files", 3100>>})
           pols == [files_restricted |-> p1, files_prometheus_egress |-> p2, files_loki_ingress |-> p3]
           n == MonitoringStack!Manifest([files |-> data], [files |-> template], pols)
           r == MonitoringStack!Merge(viewed, n)
<1>1. MonitoringStack!AddFileLogs(m, filter, e) = r
  BY DEF MonitoringStack!AddFileLogs
<1>2. Queriable(series) /\ Closed(series) /\ Queriable(asked)
  BY DEF Queriable, Closed, GroupsOf
<1>3. Queriable(rules.series)
  BY <1>2, TextFields DEF MonitoringStack!FileLogRules
<1>2a. calls \subseteq PrometheusCalls
  BY DEF PrometheusCalls
<1>2b. /\ rules.calls = {} /\ code.calls = {<<"files", "loki", 3100>>} \cup MonitoringStack!Resolves("files")
       /\ flows \subseteq TemplateCalls("files")
  BY TextFields DEF MonitoringStack!FileLogRules, TemplateCalls
<1>2c. out = {<<"nas", 22>>, <<"loki", 3100>>, Kube}
  BY DEF Kube, MonitoringStack!KubeDns
<1> HIDE DEF out
<1>2d. /\ IsPolicy(p1) /\ p1.pod = "files" /\ Grants(p1, "files", {<<"prometheus", 9188>>}, out)
       /\ IsPolicy(p2) /\ p2.pod = "prometheus" /\ Grants(p2, "prometheus", {}, {<<"files", 9188>>})
       /\ IsPolicy(p3) /\ p3.pod = "loki" /\ Grants(p3, "loki", {<<"files", 3100>>}, {})
  BY PolicyFields
<1> HIDE DEF rules, code, series, asked, calls, more, p1, p2, p3
<1>2e. /\ Keeps("files_restricted", p1) /\ Keeps("files_prometheus_egress", p2) /\ Keeps("files_loki_ingress", p3)
  BY <1>2c, <1>2d DEF Keeps, Selected
<1>4. /\ AreTexts(panels) /\ QueriesIn(panels)
      /\ Wired(m) => CallsWithin(panels, TextCalls("grafana", DOMAIN m.pols))
  <2>1. /\ AreTexts(panels) /\ QueriesIn(panels)
        /\ \A within : CallsWithin(m.cms["grafana"], within) => CallsWithin(panels, within)
    BY <1>2, PanelsTexts DEF Scraped
  <2> HIDE DEF panels
  <2> QED BY <2>1, Provisions DEF MonitoringStack!Provisioned
<1> HIDE DEF panels
<1>5. /\ Scraped(scraped) /\ NoFiles(scraped) /\ \E a, b : scraped.deps["prometheus"].digest = <<a, b>>
      /\ scraped.pols = m.pols /\ (Wired(m) => Wired(scraped))
  BY <1>2, <1>2a, Rescraped
<1> HIDE DEF scraped
<1>6. /\ Scraped(mounted) /\ mounted.deps["prometheus"].digest[3] = rules
      /\ mounted.pols = m.pols /\ (Wired(m) => Wired(mounted))
  <2>1. PICK a, b : scraped.deps["prometheus"].digest = <<a, b>>
    BY <1>5
  <2>2. /\ Grown(mounted) /\ mounted.cms = scraped.cms
        /\ mounted.deps["prometheus"].digest[3] = rules /\ mounted.pols = scraped.pols
    BY <1>5, <2>1, MountGrown DEF Scraped
  <2>3. Wired(scraped) => Wired(mounted)
    BY <1>5, MountWired
  <2> HIDE DEF mounted
  <2> QED BY <1>5, <2>2, <2>3 DEF Scraped
<1> HIDE DEF mounted
<1>7. /\ Scraped(viewed) /\ SameFor(viewed, mounted, {"prometheus", "files"})
      /\ Wired(m) => Wired(viewed)
  BY <1>4, <1>6, Reprovisioned
<1>8. /\ IsManifest(n) /\ DOMAIN n.cms = {"files"} /\ DOMAIN n.deps = {"files"} /\ "files" \notin DOMAIN n.pols
      /\ n.cms["files"] = data /\ n.deps["files"] = template /\ n.pols = pols
  <2> HIDE DEF data, template
  <2> QED BY ManifestFields
<1>9. n.deps["files"].mounts = names /\ n.deps["files"].digest = <<data>> /\ n.deps["files"].calls = flows
  <2>1. plain.mounts = names /\ plain.digest = <<data>> /\ plain.calls = flows /\ IsTemplate(plain)
    <3> HIDE DEF data, names, flows
    <3> QED BY DeploymentFields
  <2> HIDE DEF plain, data, names, n, extra, flows
  <2>2. template.mounts = plain.mounts /\ template.digest = plain.digest /\ template.calls = plain.calls
    BY <2>1 DEF IsTemplate
  <2> QED BY <1>8, <2>1, <2>2
<1>10. DOMAIN data = {"code", "alerts"} /\ data.alerts = rules /\ data.code = code
  OBVIOUS
<1>10a. /\ DOMAIN n.pols = {"files_restricted", "files_prometheus_egress", "files_loki_ingress"}
        /\ \A x \in DOMAIN n.pols : Keeps(x, n.pols[x])
  <2> HIDE DEF n
  <2> QED BY <1>2e, <1>8
<1> HIDE DEF n, data, viewed, template, flows
<1>11. Shape(n) /\ Apart(n)
  BY <1>3, <1>8, <1>9, <1>10, CollectorShape DEF Lone, Apart
<1>12. Scraped(r) /\ SameFor(r, viewed, Shared) /\ MergedOf(r, viewed, n)
  BY <1>7, <1>11, Extended, MergeFields
<1>12a. Aside(n)
  <2>1. CallsWithin(n.cms["files"], TextCalls("files", DOMAIN n.pols))
    BY <1>2b, <1>8, <1>10 DEF CallsWithin, TextCalls, MonitoringStack!Resolves
  <2>2. Lines(n, DOMAIN n.pols)
    BY <1>2b, <1>8, <1>9, <1>10, <1>10a, <2>1, LoneLines DEF Lone
  <2> QED BY <1>8, <1>10a, <2>2 DEF Aside, Guarded, PoliciesOf
<1>12b. Wired(m) => Wired(r)
  BY <1>7, <1>8, <1>12a, AsideWired
<1> HIDE DEF r
<1>13. r.deps["prometheus"].digest[3] = rules
  BY <1>6, <1>7, <1>12 DEF Scraped, Grown, SameFor, Same, Shared
<1>14. "files" \in DOMAIN r.cms /\ r.cms["files"]["alerts"] = rules
  BY <1>8, <1>10, <1>12 DEF MergedOf, Over
<1>15. FilesTied(r)
  BY <1>13, <1>14 DEF FilesTied
<1> QED BY <1>1, <1>12, <1>12b, <1>15

\* The opt-in of the router's security alerts.
LEMMA WithSecurity ==
    ASSUME NEW m, NEW paused, Scraped(m), FilesTied(m)
    PROVE  LET r == MonitoringStack!AddSecurity(m, paused)
           IN  Scraped(r) /\ FilesTied(r) /\ (Wired(m) => Wired(r))
<1> DEFINE board == MonitoringStack!SecurityBoard
           new == [security |-> MonitoringStack!Dashboard("security", board), alerting |-> MonitoringStack!Alerting(paused)]
           old == MonitoringStack!Provisioned(m)
           data == MonitoringStack!++(new, [old EXCEPT !["provider"].parts = @ \cup {"security"}])
           viewed == MonitoringStack!Reprovision(m, data, {"slack-token"})
           p == MonitoringStack!EgressPolicy("grafana", {<<"slack", 443>>})
           pols == [grafana_slack_egress |-> p]
           names == DOMAIN m.pols \cup {"grafana_slack_egress"}
           within == TextCalls("grafana", names)
           n == MonitoringStack!Manifest(<<>>, <<>>, pols)
           r == MonitoringStack!Merge(viewed, n)
<1>1. MonitoringStack!AddSecurity(m, paused) = r
  BY DEF MonitoringStack!AddSecurity
<1>2. Queriable(board)
  BY DEF MonitoringStack!SecurityBoard, Queriable
<1>3. AreTexts(new) /\ QueriesIn(new)
  <2>1. IsText(MonitoringStack!Dashboard("security", board)) /\ Queriable(MonitoringStack!Dashboard("security", board).series)
    <3> HIDE DEF board
    <3> QED BY <1>2, DashboardText
  <2>2. IsText(MonitoringStack!Alerting(paused)) /\ Queriable(MonitoringStack!Alerting(paused).series)
    BY SilentText DEF MonitoringStack!Alerting
  <2> HIDE DEF board
  <2> QED BY <2>1, <2>2 DEF AreTexts, QueriesIn
<1>3a. CallsWithin(new, within)
  <2>1. MonitoringStack!Alerting(paused).calls = {SlackCall}
    BY TextFields DEF MonitoringStack!Alerting, SlackCall
  <2>2. MonitoringStack!Dashboard("security", board).calls = {}
    BY <1>2, DashboardText
  <2>3. SlackCall \in within
    BY DEF TextCalls
  <2> HIDE DEF within, board
  <2> QED BY <2>1, <2>2, <2>3 DEF CallsWithin
<1>4. AreTexts(old) /\ QueriesIn(old) /\ (Wired(m) => CallsWithin(old, within))
  <2>1. TextCalls("grafana", DOMAIN m.pols) \subseteq within
    BY TextCallsGrow
  <2> HIDE DEF within, old
  <2> QED BY <2>1, Provisions DEF CallsWithin, old
<1>5. AreTexts(data) /\ QueriesIn(data) /\ (Wired(m) => CallsWithin(data, within))
  <2> HIDE DEF new, old, within
  <2> QED BY <1>3, <1>3a, <1>4, ListedTexts
<1>5a. Keeps("grafana_slack_egress", p)
  <2>1. IsPolicy(p) /\ p.pod = "grafana" /\ Grants(p, "grafana", {}, {<<"slack", 443>>})
    BY PolicyFields
  <2> HIDE DEF p
  <2> QED BY <2>1 DEF Keeps, Selected
<1> HIDE DEF data, p
<1>5b. Wired(m) => WiredFor(viewed, names)
  <2>1. Wired(m) => WiredFor(m, names)
    BY LinesGrow DEF Wired, WiredFor
  <2> HIDE DEF names
  <2> QED BY <1>5, <2>1, ReprovisionWired
<1>6. Scraped(viewed) /\ SameFor(viewed, m, {"prometheus", "files"}) /\ viewed.pols = m.pols
  BY <1>5, Reprovisioned
<1> HIDE DEF viewed
<1>7. Shape(n) /\ DOMAIN n.cms = {} /\ DOMAIN n.deps = {}
  <2>1. "files" \notin DOMAIN pols
    OBVIOUS
  <2> HIDE DEF pols
  <2> QED BY <2>1, SecurityShape
<1>7a. n.pols = pols
  <2> HIDE DEF pols
  <2> QED BY ManifestFields
<1> HIDE DEF n
<1>7b. Aside(n)
  BY <1>5a, <1>7, <1>7a DEF Aside, Lines, Guarded
<1>8. Scraped(r) /\ SameFor(r, viewed, Shared) /\ MergedOf(r, viewed, n)
  BY <1>6, <1>7, Extended, MergeFields DEF Apart
<1> HIDE DEF r
<1>8a. Wired(m) => Wired(r)
  <2>1. DOMAIN r.pols = names
    BY <1>6, <1>7a, <1>8 DEF MergedOf, Over
  <2> HIDE DEF names
  <2> QED BY <1>5b, <1>7, <1>7b, <1>8, <2>1, AsideOver
<1>9. FilesMounted(r) => FilesMounted(m)
  BY <1>6, <1>8 DEF FilesMounted, SameFor, Same, Shared
<1>10. ASSUME FilesMounted(r) PROVE "files" \in DOMAIN r.cms /\ r.cms["files"]["alerts"] = r.deps["prometheus"].digest[3]
  <2>1. /\ "files" \in DOMAIN m.cms /\ m.cms["files"]["alerts"] = m.deps["prometheus"].digest[3]
        /\ "prometheus" \in DOMAIN m.deps
    BY <1>9, <1>10 DEF FilesTied, FilesMounted
  <2>2. r.deps["prometheus"] = m.deps["prometheus"]
    BY <1>6, <1>8, <2>1 DEF SameFor, Same, Shared
  <2>3. "files" \in DOMAIN r.cms /\ r.cms["files"] = m.cms["files"]
    BY <1>6, <1>7, <1>8, <2>1 DEF SameFor, Same, MergedOf, Over
  <2> QED BY <2>1, <2>2, <2>3
<1>11. FilesTied(r)
  BY <1>10 DEF FilesTied
<1> QED BY <1>1, <1>8, <1>8a, <1>11

\* Terraform's manifest, whatever is asked for.
Rendered(m) ==
    /\ Shape(m)
    /\ FilesTied(m)
    /\ "files" \in DOMAIN m.cms => "prometheus" \in DOMAIN m.deps

\* Whatever a query switches on, in the order of terraform_manifest.
LEMMA ManifestRendered ==
    ASSUME NEW q, NEW e, MonitoringStack!QueryAccepted(q), q.hosts \subseteq {"desktop", "typevt"}
    PROVE  Rendered(MonitoringStack!TerraformManifest(q, e))
<1> DEFINE m0 == MonitoringStack!Grafana(q)
           m1 == IF q.site # None THEN MonitoringStack!Merge(m0, MonitoringStack!PrometheusConfig(q, e)) ELSE m0
           m2 == IF q.prodHost THEN MonitoringStack!AddProdHost(m1) ELSE m1
           m3 == IF q.nas THEN MonitoringStack!AddNas(m2, e) ELSE m2
           m4 == IF q.syslog THEN MonitoringStack!AddSyslog(m3, q.filter, e) ELSE m3
           m5 == IF q.nfs THEN MonitoringStack!AddNfs(m4, e) ELSE m4
           m6 == IF q.files THEN MonitoringStack!AddFileLogs(m5, q.filter, e) ELSE m5
           m7 == IF q.security THEN MonitoringStack!AddSecurity(m6, q.paused) ELSE m6
<1>1. MonitoringStack!TerraformManifest(q, e) = m7
  BY DEF MonitoringStack!TerraformManifest
<1>2. CASE q.site = None
  <2>1. ~q.prodHost /\ ~q.nas /\ ~q.syslog /\ ~q.nfs /\ ~q.files /\ ~q.security
    BY <1>2 DEF MonitoringStack!QueryAccepted
  <2>2. m7 = m0
    BY <1>2, <2>1
  <2>3. Grown(m0) /\ DOMAIN m0.cms = {"grafana"} /\ DOMAIN m0.deps = {"grafana"}
    BY GrafanaGrown
  <2> HIDE DEF m7, m0
  <2> QED BY <1>1, <2>2, <2>3 DEF Rendered, Grown, FilesTied, FilesMounted
<1>3. CASE q.site # None
  <2>1. MonitoringStack!SiteAccepted(q.site)
    BY <1>3 DEF MonitoringStack!QueryAccepted
  <2>2. Scraped(m1) /\ NoFiles(m1)
    BY <1>3, <2>1, WithPrometheus
  <2> HIDE DEF m1
  <2>3. Scraped(m2) /\ NoFiles(m2)
    BY <2>2, WithProdHost
  <2> HIDE DEF m2
  <2>4. Scraped(m3) /\ NoFiles(m3)
    BY <2>3, WithNas
  <2> HIDE DEF m3
  <2>5. Scraped(m4) /\ NoFiles(m4)
    BY <2>4, WithSyslog
  <2> HIDE DEF m4
  <2>6. Scraped(m5) /\ NoFiles(m5)
    BY <2>5, WithNfs
  <2> HIDE DEF m5
  <2>7. Scraped(m6) /\ FilesTied(m6)
    BY <2>6, WithFileLogs DEF NoFiles, FilesTied
  <2> HIDE DEF m6
  <2>8. Scraped(m7) /\ FilesTied(m7)
    BY <2>7, WithSecurity
  <2> HIDE DEF m7
  <2> QED BY <1>1, <2>8 DEF Rendered, Scraped, Grown
<1> QED BY <1>2, <1>3

-----------------------------------------------------------------------------
(* The sites' targets.                                                     *)

LEMMA ListedOver ==
    ASSUME NEW V, NEW s \in Seq(V)
    PROVE  Listed(s)
<1> DEFINE W == {s[n] : n \in DOMAIN s}
<1>1. \A n \in DOMAIN s : s[n] \in W
  OBVIOUS
<1>2. s \in [1..Len(s) -> V] /\ Len(s) \in Nat
  OBVIOUS
<1> HIDE DEF W
<1>3. s \in [1..Len(s) -> W]
  BY <1>1, <1>2
<1>4. s \in Seq(W)
  BY <1>2, <1>3
<1> QED BY <1>4 DEF Listed, W

LEMMA RangeJoined ==
    ASSUME NEW s, NEW t, Listed(s), Listed(t)
    PROVE  /\ Listed(s \o t)
           /\ \A x : x \in MonitoringStack!Range(s \o t)
                     <=> x \in MonitoringStack!Range(s) \/ x \in MonitoringStack!Range(t)
<1> DEFINE V == {s[n] : n \in DOMAIN s} \cup {t[n] : n \in DOMAIN t}
<1>1. s \in Seq({s[n] : n \in DOMAIN s}) /\ t \in Seq({t[n] : n \in DOMAIN t})
  BY DEF Listed
<1>2. s \in Seq(V) /\ t \in Seq(V)
  BY <1>1
<1> HIDE DEF V
<1>3. /\ s \o t \in Seq(V) /\ Len(s \o t) = Len(s) + Len(t) /\ Len(s) \in Nat /\ Len(t) \in Nat
      /\ DOMAIN s = 1..Len(s) /\ DOMAIN t = 1..Len(t) /\ DOMAIN (s \o t) = 1..Len(s \o t)
      /\ \A n \in 1..Len(s) : (s \o t)[n] = s[n]
      /\ \A n \in 1..Len(t) : (s \o t)[n + Len(s)] = t[n]
  BY <1>2
<1>4. Listed(s \o t)
  BY <1>3, ListedOver
<1> DEFINE u == s \o t
<1>5. /\ MonitoringStack!Range(u) = {u[n] : n \in 1..Len(u)}
      /\ MonitoringStack!Range(s) = {s[n] : n \in 1..Len(s)}
      /\ MonitoringStack!Range(t) = {t[n] : n \in 1..Len(t)}
  BY <1>3 DEF MonitoringStack!Range
<1> HIDE DEF u
<1>6. /\ Len(u) = Len(s) + Len(t)
      /\ \A n \in 1..Len(s) : u[n] = s[n]
      /\ \A n \in 1..Len(t) : u[n + Len(s)] = t[n]
  BY <1>3 DEF u
<1>7. ASSUME NEW x
      PROVE  x \in MonitoringStack!Range(u) <=> x \in MonitoringStack!Range(s) \/ x \in MonitoringStack!Range(t)
  <2>1. ASSUME NEW n \in 1..Len(u)
        PROVE  u[n] \in MonitoringStack!Range(s) \/ u[n] \in MonitoringStack!Range(t)
    <3>1. CASE n <= Len(s)
      <4>1. n \in 1..Len(s)
        BY <1>3, <3>1
      <4> QED BY <1>5, <1>6, <4>1
    <3>2. CASE n > Len(s)
      <4>1. n - Len(s) \in 1..Len(t) /\ (n - Len(s)) + Len(s) = n
        BY <1>3, <1>6, <3>2
      <4> QED BY <1>5, <1>6, <4>1
    <3> QED BY <1>3, <3>1, <3>2
  <2>2. \A n \in 1..Len(s) : n \in 1..Len(u)
    BY <1>3, <1>6
  <2>3. \A n \in 1..Len(t) : n + Len(s) \in 1..Len(u)
    BY <1>3, <1>6
  <2> QED BY <1>5, <1>6, <2>1, <2>2, <2>3
<1> QED BY <1>4, <1>7 DEF u

LEMMA OptionalRange ==
    ASSUME NEW t
    PROVE  /\ Listed(MonitoringStack!Optional(t))
           /\ MonitoringStack!Range(MonitoringStack!Optional(t)) = IF t = None THEN {} ELSE {t}
<1>1. <<t>> \in Seq({t}) /\ <<>> \in Seq({t})
  OBVIOUS
<1>2. Listed(<<t>>) /\ Listed(<<>>)
  BY <1>1, ListedOver
<1>3. MonitoringStack!Range(<<t>>) = {t} /\ MonitoringStack!Range(<<>>) = {}
  BY DEF MonitoringStack!Range
<1> QED BY <1>2, <1>3 DEF MonitoringStack!Optional

\* The targets of an accepted site: addresses, and covered where it says so.
LEMMA Targets ==
    ASSUME NEW s \in AllSites, MonitoringStack!SiteAccepted(s)
    PROVE  /\ \A t \in MonitoringStack!Range(s.api \o s.tcp) :
                  t.host \notin MonitoringStack!PodNames /\ t.port \in {443, 6443, 9100}
           /\ \A t \in MonitoringStack!Range(s.metrics \o MonitoringStack!Optional(s.openwrt)) :
                  /\ t.host \notin MonitoringStack!PodNames
                  /\ \/ s.metrics # <<>> /\ (MonitoringStack!Covered(s) => t.host \in MonitoringStack!Hosts(s))
                     \/ t \in MonitoringStack!Range(MonitoringStack!Optional(s.openwrt))
<1> DEFINE api == s.api
           tcp == s.tcp
           met == s.metrics
           opt == MonitoringStack!Optional(s.openwrt)
<1>1. /\ Listed(api) /\ Listed(tcp) /\ Listed(met)
      /\ \A t \in MonitoringStack!Range(api \o tcp \o met \o opt) : t.host \notin MonitoringStack!PodNames
  BY SitesAssumption DEF SiteHosts
<1>2. Listed(opt)
  BY OptionalRange
<1>3. /\ \A i \in DOMAIN api : api[i].port \in {443, 6443}
      /\ \A t \in MonitoringStack!Range(tcp \o met) : t.port = 9100
  BY DEF MonitoringStack!SiteAccepted
<1>4. MonitoringStack!Covered(s) =>
          \A t \in MonitoringStack!Range(api \o tcp \o met) : t.host \in MonitoringStack!Hosts(s)
  BY DEF MonitoringStack!Covered
<1>5. met # <<>> \/ MonitoringStack!Range(met) = {}
  BY DEF MonitoringStack!Range
<1> HIDE DEF api, tcp, met, opt
<1>6. Listed(api \o tcp) /\ Listed(api \o tcp \o met)
  BY <1>1, RangeJoined
<1>7. \A x : x \in MonitoringStack!Range(api \o tcp)
             <=> x \in MonitoringStack!Range(api) \/ x \in MonitoringStack!Range(tcp)
  BY <1>1, RangeJoined
<1>8. \A x : x \in MonitoringStack!Range(api \o tcp \o met)
             <=> x \in MonitoringStack!Range(api \o tcp) \/ x \in MonitoringStack!Range(met)
  BY <1>1, <1>6, RangeJoined
<1>9. \A x : x \in MonitoringStack!Range(api \o tcp \o met \o opt)
             <=> x \in MonitoringStack!Range(api \o tcp \o met) \/ x \in MonitoringStack!Range(opt)
  BY <1>2, <1>6, RangeJoined
<1>10. \A x : x \in MonitoringStack!Range(met \o opt)
              <=> x \in MonitoringStack!Range(met) \/ x \in MonitoringStack!Range(opt)
  BY <1>1, <1>2, RangeJoined
<1>11. \A x : x \in MonitoringStack!Range(tcp \o met)
              <=> x \in MonitoringStack!Range(tcp) \/ x \in MonitoringStack!Range(met)
  BY <1>1, RangeJoined
<1>12. ASSUME NEW t \in MonitoringStack!Range(api \o tcp)
       PROVE  t.host \notin MonitoringStack!PodNames /\ t.port \in {443, 6443, 9100}
  <2>1. t.host \notin MonitoringStack!PodNames
    BY <1>1, <1>8, <1>9, <1>12
  <2>2. CASE t \in MonitoringStack!Range(api)
    <3>1. PICK i \in DOMAIN api : t = api[i]
      BY <2>2 DEF MonitoringStack!Range
    <3>2. api[i].port \in {443, 6443}
      BY <1>3
    <3> QED BY <2>1, <3>1, <3>2
  <2>3. CASE t \in MonitoringStack!Range(tcp)
    BY <1>3, <1>11, <2>1, <2>3
  <2> QED BY <1>7, <1>12, <2>2, <2>3
<1>13. ASSUME NEW t \in MonitoringStack!Range(met \o opt)
       PROVE  /\ t.host \notin MonitoringStack!PodNames
              /\ \/ met # <<>> /\ (MonitoringStack!Covered(s) => t.host \in MonitoringStack!Hosts(s))
                 \/ t \in MonitoringStack!Range(opt)
  BY <1>1, <1>4, <1>5, <1>8, <1>9, <1>10, <1>13
<1> QED BY <1>12, <1>13 DEF api, tcp, met, opt

\* What the exporter's policy must let out, and what Prometheus' own does.
LEMMA ProbesLet ==
    ASSUME OneNetwork, NEW s \in AllSites, MonitoringStack!SiteAccepted(s)
    PROVE  {Any} \cup Probed \subseteq MonitoringStack!ExporterEgress(s)
<1>1. Any \in MonitoringStack!ExporterEgress(s)
  BY DEF MonitoringStack!ExporterEgress, MonitoringStack!Dns, Any
<1>2. ASSUME NEW u \in AllSites, MonitoringStack!SiteAccepted(u),
             NEW t \in MonitoringStack!Range(u.api \o u.tcp)
      PROVE  <<t.host, t.port>> \in MonitoringStack!ExporterEgress(s)
  <2>1. t.port \in {443, 6443, 9100}
    BY <1>2, Targets
  <2>2. t.host \in MonitoringStack!Hosts(s)
    BY <1>2 DEF OneNetwork
  <2> QED BY <2>1, <2>2 DEF MonitoringStack!ExporterEgress
<1> QED BY <1>1, <1>2 DEF Probed

\* What the jobs of a site connect to, its policy of Prometheus or that of the probes allows.
LEMMA ScrapesLet ==
    ASSUME OneNetwork, NEW s \in AllSites, MonitoringStack!SiteAccepted(s)
    PROVE  /\ {Any, <<"blackbox", 9115>>} \subseteq MonitoringStack!PrometheusEgress(s)
           /\ Licensed(MonitoringStack!ScrapeCalls(s), MonitoringStack!PrometheusEgress(s))
<1> DEFINE out == MonitoringStack!PrometheusEgress(s)
<1>1. {Any, <<"blackbox", 9115>>} \subseteq out
  BY DEF MonitoringStack!PrometheusEgress, MonitoringStack!Dns, Any
<1>2. ASSUME NEW t \in MonitoringStack!Range(s.api \o s.tcp)
      PROVE  t.host \notin MonitoringStack!PodNames /\ <<t.host, t.port>> \in Probed
  BY <1>2, Targets DEF Probed
<1>3. ASSUME NEW t \in MonitoringStack!Range(s.metrics \o MonitoringStack!Optional(s.openwrt))
      PROVE  t.host \notin MonitoringStack!PodNames /\ <<t.host, 9100>> \in out
  <2>1. MonitoringStack!Covered(s)
    BY DEF OneNetwork
  <2> QED BY <1>3, <2>1, Targets DEF MonitoringStack!PrometheusEgress
<1>4. ASSUME NEW t \in MonitoringStack!Range(MonitoringStack!Optional(s.prod))
      PROVE  MonitoringStack!ProdAddress(s) \notin MonitoringStack!PodNames
             /\ <<MonitoringStack!ProdAddress(s), 9100>> \in out
  <2>1. s.prod # None
    BY <1>4, OptionalRange
  <2> QED BY <1>4, <2>1, SitesAssumption DEF MonitoringStack!PrometheusEgress
<1> HIDE DEF out
<1>5. SUFFICES ASSUME NEW f \in MonitoringStack!ScrapeCalls(s)
               PROVE  \/ f \in PrometheusCalls
                      \/ f[1] = "blackbox" /\ f[2] \notin MonitoringStack!PodNames /\ <<f[2], f[3]>> \in Probed
                      \/ f[1] = "prometheus" /\ f[2] \notin MonitoringStack!PodNames /\ <<f[2], f[3]>> \in out
  BY <1>1 DEF Licensed, out
<1>6. \/ f \in PrometheusCalls
      \/ \E t \in MonitoringStack!Range(s.api \o s.tcp) : f = <<"blackbox", t.host, t.port>>
      \/ \E t \in MonitoringStack!Range(s.metrics \o MonitoringStack!Optional(s.openwrt)) : f = <<"prometheus", t.host, 9100>>
      \/ \E t \in MonitoringStack!Range(MonitoringStack!Optional(s.prod)) : f = <<"prometheus", MonitoringStack!ProdAddress(s), 9100>>
  BY DEF MonitoringStack!ScrapeCalls, MonitoringStack!ProbeCalls, MonitoringStack!Resolves, PrometheusCalls
<1> QED BY <1>2, <1>3, <1>4, <1>6

-----------------------------------------------------------------------------
(* The manifests of the scrapes, and Terraform's.                          *)

LEMMA OutsideInParts ==
    ASSUME NEW s
    PROVE  LET m == MonitoringStack!OutsideIn(s)
           IN  /\ DOMAIN m.pols = {"blackbox_restricted", "prometheus_restricted"}
               /\ m.pols["blackbox_restricted"] =
                      MonitoringStack!Policy("blackbox", {<<"prometheus", 9115>>}, MonitoringStack!ExporterEgress(s))
               /\ m.pols["prometheus_restricted"] =
                      MonitoringStack!Policy("prometheus", {}, MonitoringStack!PrometheusEgress(s))
               /\ m.cms["prometheus"].config.calls = MonitoringStack!ScrapeCalls(s)
               /\ DOMAIN m.cms["prometheus"] = {"config"}
               /\ DOMAIN m.cms["blackbox"] = {"config"} /\ m.cms["blackbox"]["config"].calls = {}
               /\ m.deps["prometheus"].calls = {} /\ m.deps["blackbox"].calls = {}
<1> DEFINE m == MonitoringStack!OutsideIn(s)
           config == MonitoringStack!Text({"jobs"}, 0, MonitoringStack!ScrapeCalls(s), MonitoringStack!Jobs(s))
           modules == MonitoringStack!Text({"modules"}, 0, {}, {})
           names == {<<"prometheus", "config">>}
           cms == [prometheus |-> [config |-> config], blackbox |-> [config |-> modules]]
           deps == [prometheus |-> MonitoringStack!Deployment(names, <<config>>, {}),
                    blackbox |-> MonitoringStack!Deployment({<<"blackbox", "config">>}, <<modules>>, {})]
           p1 == MonitoringStack!Policy("blackbox", {<<"prometheus", 9115>>}, MonitoringStack!ExporterEgress(s))
           p2 == MonitoringStack!Policy("prometheus", {}, MonitoringStack!PrometheusEgress(s))
           pols == [blackbox_restricted |-> p1, prometheus_restricted |-> p2]
<1>1. m = MonitoringStack!Manifest(cms, deps, pols)
  BY DEF MonitoringStack!OutsideIn
<1>2. m.cms = cms /\ m.deps = deps /\ m.pols = pols
  BY <1>1, ManifestFields
<1>3. config.calls = MonitoringStack!ScrapeCalls(s) /\ modules.calls = {}
  BY TextFields
<1> HIDE DEF m, config, modules, p1, p2, names
<1>4. deps["prometheus"].calls = {} /\ deps["blackbox"].calls = {}
  BY DeploymentFields
<1>5. DOMAIN m.pols = {"blackbox_restricted", "prometheus_restricted"}
      /\ m.pols["blackbox_restricted"] = p1 /\ m.pols["prometheus_restricted"] = p2
  BY <1>2
<1> HIDE DEF deps, pols
<1>6. /\ DOMAIN m.cms["prometheus"] = {"config"} /\ m.cms["prometheus"].config = config
      /\ DOMAIN m.cms["blackbox"] = {"config"} /\ m.cms["blackbox"]["config"] = modules
  BY <1>2
<1>7. m.deps["prometheus"].calls = {} /\ m.deps["blackbox"].calls = {}
  BY <1>2, <1>4
<1> HIDE DEF cms
<1> QED BY <1>3, <1>5, <1>6, <1>7 DEF m, p1, p2

LEMMA GrantsLess ==
    ASSUME NEW p, NEW pod, NEW ins, NEW outs, NEW less, Grants(p, pod, ins, outs), less \subseteq outs
    PROVE  Grants(p, pod, ins, less)
  BY DEF Grants

LEMMA PolicyRules ==
    ASSUME NEW pod, NEW ins, NEW outs
    PROVE  LET p == MonitoringStack!Policy(pod, ins, outs)
           IN  p = [pod |-> pod, types |-> {"Ingress", "Egress"}, ingress |-> ins, egress |-> outs]
  BY DEF MonitoringStack!Policy

\* O1: what Prometheus scrapes and what the exporter probes.
LEMMA OutsideInWired ==
    ASSUME OneNetwork, NEW s \in AllSites, MonitoringStack!SiteAccepted(s)
    PROVE  /\ Wired(MonitoringStack!OutsideIn(s))
           /\ "nas_prometheus_egress" \notin DOMAIN MonitoringStack!OutsideIn(s).pols
<1> DEFINE m == MonitoringStack!OutsideIn(s)
           out == MonitoringStack!PrometheusEgress(s)
           p1 == MonitoringStack!Policy("blackbox", {<<"prometheus", 9115>>}, MonitoringStack!ExporterEgress(s))
           p2 == MonitoringStack!Policy("prometheus", {}, out)
<1>1. /\ DOMAIN m.cms = {"prometheus", "blackbox"} /\ DOMAIN m.deps = {"prometheus", "blackbox"}
      /\ DOMAIN m.pols = {"blackbox_restricted", "prometheus_restricted"}
      /\ m.pols["blackbox_restricted"] = p1 /\ m.pols["prometheus_restricted"] = p2
      /\ m.cms["prometheus"].config.calls = MonitoringStack!ScrapeCalls(s)
      /\ DOMAIN m.cms["blackbox"] = {"config"} /\ m.cms["blackbox"]["config"].calls = {}
      /\ m.deps["prometheus"].calls = {} /\ m.deps["blackbox"].calls = {}
  BY OutsideInShape, OutsideInParts
<1>2. Keeps("blackbox_restricted", p1)
  <2>1. Grants(p1, "blackbox", {<<"prometheus", 9115>>}, MonitoringStack!ExporterEgress(s)) /\ IsPolicy(p1) /\ p1.pod = "blackbox"
    BY PolicyFields
  <2>2. {Any} \cup Probed \subseteq MonitoringStack!ExporterEgress(s)
    BY ProbesLet
  <2> HIDE DEF p1
  <2>3. Grants(p1, "blackbox", {<<"prometheus", 9115>>}, {Any} \cup Probed)
    BY <2>1, <2>2, GrantsLess
  <2> QED BY <2>1, <2>3 DEF Keeps, Selected
<1>3. Keeps("prometheus_restricted", p2) /\ p2.egress = out
  <2>1. Grants(p2, "prometheus", {}, out) /\ IsPolicy(p2) /\ p2.pod = "prometheus"
    <3> HIDE DEF out
    <3> QED BY PolicyFields
  <2>2. {Any, <<"blackbox", 9115>>} \subseteq out
    BY ScrapesLet
  <2>2a. p2.egress = out
    BY PolicyRules
  <2> HIDE DEF p2, out
  <2>3. Grants(p2, "prometheus", {}, {Any, <<"blackbox", 9115>>})
    BY <2>1, <2>2, GrantsLess
  <2> QED BY <2>1, <2>2a, <2>3 DEF Keeps, Selected
<1>4. Licensed(MonitoringStack!ScrapeCalls(s), out)
  BY ScrapesLet
<1> HIDE DEF m, p1, p2, out
<1>5. Lines(m, DOMAIN m.pols)
  BY <1>1, <1>2, <1>3 DEF Lines, CallsWithin
<1>6. Guarded(m) /\ SyslogScraped(m)
  BY <1>1 DEF Guarded, SyslogScraped, PoliciesOf
<1>7. Scrapes(m)
  BY <1>1, <1>3, <1>4 DEF Scrapes
<1> QED BY <1>1, <1>5, <1>6, <1>7 DEF Wired, m

LEMMA GrafanaAside == ASSUME NEW q PROVE Aside(MonitoringStack!Grafana(q))
<1> DEFINE optional == MonitoringStack!Keys({"rag"}, q.rag)
                       \cup MonitoringStack!Keys({"desktop", "typevt"}, q.hosts # {})
                       \cup MonitoringStack!Keys({"attention"}, q.attention)
           boards == {"staging", "logs", "openwrt"} \cup optional
           shown == [k \in boards |-> MonitoringStack!Dashboard(k, MonitoringStack!Boards[k])]
           provider == MonitoringStack!Providers({"staging"} \cup optional)
           rest == [datasource |-> MonitoringStack!DataSources, provider |-> provider]
           data == MonitoringStack!++(shown, rest)
           volumes == MonitoringStack!Mounted(DOMAIN data)
           p1 == MonitoringStack!Policy("grafana", {}, MonitoringStack!Dns \cup {<<"prometheus", 9090>>})
           p2 == MonitoringStack!IngressPolicy("prometheus", {<<"grafana", 9090>>})
           pols == [grafana_restricted |-> p1, prometheus_grafana_ingress |-> p2]
           deps == [grafana |-> MonitoringStack!Deployment(volumes, <<data>>, {})]
           cms == [grafana |-> data]
           m == MonitoringStack!Grafana(q)
           within == TextCalls("grafana", {})
<1>1. m = MonitoringStack!Manifest(cms, deps, pols)
  BY DEF MonitoringStack!Grafana
<1>2. /\ IsPolicy(p1) /\ p1.pod = "grafana" /\ Grants(p1, "grafana", {}, {Any, <<"prometheus", 9090>>})
      /\ IsPolicy(p2) /\ p2.pod = "prometheus" /\ Grants(p2, "prometheus", {<<"grafana", 9090>>}, {})
  <2>1. MonitoringStack!Dns \cup {<<"prometheus", 9090>>} = {Any, <<"prometheus", 9090>>}
    BY DEF MonitoringStack!Dns, Any
  <2>2. IsPolicy(p1) /\ p1.pod = "grafana" /\ Grants(p1, "grafana", {}, MonitoringStack!Dns \cup {<<"prometheus", 9090>>})
    BY PolicyFields
  <2>3. IsPolicy(p2) /\ p2.pod = "prometheus" /\ Grants(p2, "prometheus", {<<"grafana", 9090>>}, {})
    BY PolicyFields
  <2> HIDE DEF p1, p2
  <2> QED BY <2>1, <2>2, <2>3
<1> HIDE DEF p1, p2, optional
<1>3. CallsWithin(shown, within)
  <2>1. ASSUME NEW k \in boards PROVE shown[k].calls = {}
    BY TextFields DEF MonitoringStack!Dashboard
  <2> QED BY <2>1 DEF CallsWithin
<1>4. CallsWithin(rest, within)
  <2>1. provider.calls = {}
    BY TextFields DEF MonitoringStack!Providers
  <2>2. MonitoringStack!DataSources.calls \subseteq within
    BY TextFields DEF MonitoringStack!DataSources, MonitoringStack!Resolves, TextCalls
  <2> HIDE DEF provider, within
  <2> QED BY <2>1, <2>2 DEF CallsWithin
<1>5. CallsWithin(data, within)
  <2>1. Over(data, shown, rest)
    BY OverOf
  <2> HIDE DEF data, shown, rest
  <2> QED BY <1>3, <1>4, <2>1 DEF Over, CallsWithin
<1> HIDE DEF data, volumes, m
<1>6. m.cms = cms /\ m.deps = deps /\ m.pols = pols
  BY <1>1, ManifestFields
<1>7. deps["grafana"].calls = {}
  BY DeploymentFields
<1>8. Keeps("grafana_restricted", p1)
  BY <1>2 DEF Keeps, Selected
<1>9. Keeps("prometheus_grafana_ingress", p2)
  BY <1>2 DEF Keeps, Selected
<1>10. /\ DOMAIN m.cms = {"grafana"} /\ m.cms["grafana"] = data /\ DOMAIN m.deps = {"grafana"}
       /\ m.deps["grafana"].calls = {}
       /\ DOMAIN m.pols = {"grafana_restricted", "prometheus_grafana_ingress"}
       /\ m.pols["grafana_restricted"] = p1 /\ m.pols["prometheus_grafana_ingress"] = p2
  BY <1>6, <1>7
<1>11. CallsWithin(m.cms["grafana"], TextCalls("grafana", DOMAIN m.pols))
  BY <1>5, <1>10, TextCallsGrow DEF CallsWithin
<1>12. Lines(m, DOMAIN m.pols)
  BY <1>8, <1>9, <1>10, <1>11 DEF Lines
<1> QED BY <1>10, <1>12 DEF m, Aside, Guarded, PoliciesOf

\* Calls that are allowed one by one are allowed together.
LEMMA LicensedTogether ==
    ASSUME NEW a, NEW b, NEW c, NEW out, Licensed(a, out), Licensed(b, out), Licensed(c, out)
    PROVE  Licensed(a \cup b \cup c, out)
<1> DEFINE Fine(f) ==
        \/ f \in PrometheusCalls
        \/ f[1] = "blackbox" /\ f[2] \notin MonitoringStack!PodNames /\ <<f[2], f[3]>> \in Probed
        \/ f[1] = "prometheus" /\ f[2] \notin MonitoringStack!PodNames /\ <<f[2], f[3]>> \in out
<1>1. (\A f \in a : Fine(f)) /\ (\A f \in b : Fine(f)) /\ (\A f \in c : Fine(f))
  BY DEF Licensed
<1> HIDE DEF Fine
<1>2. \A f \in a \cup b \cup c : Fine(f)
  BY <1>1
<1> QED BY <1>2 DEF Licensed, Fine

\* Prometheus as Terraform renders it comes with the policy for what it scrapes.
LEMMA PrometheusWired ==
    ASSUME OneNetwork, NEW q, NEW e, q.site \in AllSites, MonitoringStack!SiteAccepted(q.site),
           q.hosts \subseteq {"desktop", "typevt"}
    PROVE  LET m == MonitoringStack!PrometheusConfig(q, e)
           IN  Wired(m) /\ DOMAIN m.pols = {"prometheus_restricted"}
<1> DEFINE m == MonitoringStack!PrometheusConfig(q, e)
           s == q.site
           direct == UNION {{x[1]} \X x[4] : x \in MonitoringStack!DirectScrapes(q)}
           series == MonitoringStack!Jobs(s) \cup direct
           asked == {<<"prometheus", x[2], x[3]>> : x \in MonitoringStack!DirectScrapes(q)}
           calls == MonitoringStack!ScrapeCalls(s) \cup {<<"prometheus", "alertmanager", 9093>>} \cup asked
           text == MonitoringStack!Text({"jobs", "rules"}, 0, calls, series)
           rules == MonitoringStack!RuleText(e)
           volumes == {<<"prometheus", "config">>, <<"rules", "alerts">>}
           peers == {<<x[2], x[3]>> : x \in MonitoringStack!DirectScrapes(q)}
           out == MonitoringStack!PrometheusEgress(s)
           base == MonitoringStack!Policy("prometheus", {}, out)
           more == out \cup peers
           policy == [MonitoringStack!OutsideIn(s).pols.prometheus_restricted EXCEPT !.egress = @ \cup peers]
           cms == [prometheus |-> [config |-> text]]
           deps == [prometheus |-> MonitoringStack!Deployment(volumes, <<text, rules>>, {})]
           pols == [prometheus_restricted |-> policy]
<1>1. m = MonitoringStack!Manifest(cms, deps, pols)
  BY DEF MonitoringStack!PrometheusConfig
<1>2. text.calls = calls
  BY TextFields
<1>3. policy = [pod |-> "prometheus", types |-> {"Ingress", "Egress"}, ingress |-> {}, egress |-> more]
  <2>1. MonitoringStack!OutsideIn(s).pols.prometheus_restricted = base
    BY OutsideInParts
  <2>2. base = [pod |-> "prometheus", types |-> {"Ingress", "Egress"}, ingress |-> {}, egress |-> out]
    BY PolicyRules
  <2> HIDE DEF base, out, peers
  <2> QED BY <2>1, <2>2
<1>4. /\ {Any, <<"blackbox", 9115>>} \subseteq more
      /\ Licensed(MonitoringStack!ScrapeCalls(s), out)
  BY ScrapesLet
<1>5. \A f \in asked : f[1] = "prometheus" /\ f[2] \notin MonitoringStack!PodNames /\ <<f[2], f[3]>> \in peers
  <2>1. SUFFICES ASSUME NEW x \in MonitoringStack!DirectScrapes(q)
                 PROVE  x[2] \notin MonitoringStack!PodNames /\ <<x[2], x[3]>> \in peers
    OBVIOUS
  <2>2. \/ x = <<"desktop-rag", "rag", 3102, {"rag"}>> \/ x = <<"local-llm", "llm", 8080, {"llm"}>>
        \/ \E h \in q.hosts : x = <<h, h, 9100, {"node", "filesystem", "detail", "desktop"}>>
    BY DEF MonitoringStack!DirectScrapes
  <2>3. x[2] \in {"rag", "llm", "desktop", "typevt"}
    BY <2>2
  <2> QED BY <2>3 DEF MonitoringStack!PodNames
<1> HIDE DEF m, text, rules, policy, out, peers, asked, series
<1>6. Licensed(calls, more)
  <2>1. <<"prometheus", "alertmanager", 9093>> \in PrometheusCalls
    BY DEF PrometheusCalls
  <2>2. Licensed({<<"prometheus", "alertmanager", 9093>>}, more)
    BY <2>1 DEF Licensed
  <2>3. Licensed(MonitoringStack!ScrapeCalls(s), more) /\ Licensed(asked, more)
    BY <1>4, <1>5 DEF Licensed
  <2> HIDE DEF more
  <2> QED BY <2>2, <2>3, LicensedTogether
<1> HIDE DEF more, calls, volumes
<1>7. policy.pod = "prometheus" /\ policy.types = {"Ingress", "Egress"} /\ policy.ingress = {} /\ policy.egress = more
  BY <1>3
<1>8. Keeps("prometheus_restricted", policy)
  <2>1. IsPolicy(policy) /\ Grants(policy, "prometheus", {}, {Any, <<"blackbox", 9115>>})
    BY <1>3, <1>4, <1>7 DEF IsPolicy, Grants
  <2> QED BY <1>7, <2>1 DEF Keeps, Selected
<1>9. deps["prometheus"].calls = {}
  BY DeploymentFields
<1>10. m.cms = cms /\ m.deps = deps /\ m.pols = pols
  BY <1>1, ManifestFields
<1>11. /\ DOMAIN m.cms = {"prometheus"} /\ DOMAIN m.deps = {"prometheus"} /\ DOMAIN m.pols = {"prometheus_restricted"}
       /\ m.cms["prometheus"].config = text /\ m.deps["prometheus"].calls = {}
       /\ m.pols["prometheus_restricted"] = policy
  BY <1>9, <1>10
<1>12. Lines(m, DOMAIN m.pols)
  BY <1>8, <1>11 DEF Lines
<1>13. Guarded(m) /\ SyslogScraped(m)
  BY <1>11 DEF Guarded, SyslogScraped, PoliciesOf
<1>14. Scrapes(m)
  BY <1>2, <1>6, <1>7, <1>11 DEF Scrapes
<1> QED BY <1>11, <1>12, <1>13, <1>14 DEF Wired, m

\* The manifest that the opt-ins start from.
LEMMA BaseWired ==
    ASSUME OneNetwork, NEW q, NEW e, q.site \in AllSites, MonitoringStack!SiteAccepted(q.site),
           q.hosts \subseteq {"desktop", "typevt"}
    PROVE  Plain(MonitoringStack!Merge(MonitoringStack!Grafana(q), MonitoringStack!PrometheusConfig(q, e)))
<1> DEFINE m == MonitoringStack!Grafana(q)
           n == MonitoringStack!PrometheusConfig(q, e)
           r == MonitoringStack!Merge(m, n)
<1>1. Aside(m) /\ DOMAIN m.deps = {"grafana"}
  BY GrafanaAside, GrafanaGrown
<1>2. Wired(n) /\ DOMAIN n.deps = {"prometheus"}
  BY PrometheusWired, PrometheusConfigShape
<1>3. MergedOf(r, m, n)
  BY MergeFields
<1> HIDE DEF m, n, r
<1>4. DOMAIN m.pols \subseteq DOMAIN r.pols /\ DOMAIN n.pols \subseteq DOMAIN r.pols
      /\ DOMAIN r.deps = {"grafana", "prometheus"}
  BY <1>1, <1>2, <1>3 DEF MergedOf, Over
<1>5. Lines(m, DOMAIN r.pols) /\ Lines(n, DOMAIN r.pols)
  BY <1>1, <1>2, <1>4, LinesGrow DEF Aside, Wired
<1>6. Guarded(m) /\ Scrapes(m) /\ Scrapes(n)
  BY <1>1, <1>2 DEF Aside, Wired, Scrapes
<1>7. \A d \in DOMAIN n.deps : PoliciesOf(d) \subseteq DOMAIN r.pols
  BY <1>2, <1>4 DEF Wired, Guarded
<1>8. SyslogScraped(r)
  BY <1>4 DEF SyslogScraped
<1>9. Wired(r)
  BY <1>3, <1>5, <1>6, <1>7, <1>8, MergeWired
<1> QED BY <1>4, <1>9 DEF Plain, m, n, r

LEMMA AsideIsWired ==
    ASSUME NEW m, Aside(m), "syslog" \notin DOMAIN m.deps
    PROVE  Wired(m)
  BY DEF Aside, Wired, SyslogScraped, Scrapes

\* Whatever a query switches on.
LEMMA ManifestWired ==
    ASSUME OneNetwork, NEW q \in StackQueries, NEW e, MonitoringStack!QueryAccepted(q),
           q.hosts \subseteq {"desktop", "typevt"}
    PROVE  Wired(MonitoringStack!TerraformManifest(q, e))
<1> DEFINE m0 == MonitoringStack!Grafana(q)
           m1 == IF q.site # None THEN MonitoringStack!Merge(m0, MonitoringStack!PrometheusConfig(q, e)) ELSE m0
           m2 == IF q.prodHost THEN MonitoringStack!AddProdHost(m1) ELSE m1
           m3 == IF q.nas THEN MonitoringStack!AddNas(m2, e) ELSE m2
           m4 == IF q.syslog THEN MonitoringStack!AddSyslog(m3, q.filter, e) ELSE m3
           m5 == IF q.nfs THEN MonitoringStack!AddNfs(m4, e) ELSE m4
           m6 == IF q.files THEN MonitoringStack!AddFileLogs(m5, q.filter, e) ELSE m5
           m7 == IF q.security THEN MonitoringStack!AddSecurity(m6, q.paused) ELSE m6
<1>1. MonitoringStack!TerraformManifest(q, e) = m7
  BY DEF MonitoringStack!TerraformManifest
<1>2. CASE q.site = None
  <2>1. ~q.prodHost /\ ~q.nas /\ ~q.syslog /\ ~q.nfs /\ ~q.files /\ ~q.security
    BY <1>2 DEF MonitoringStack!QueryAccepted
  <2>2. m7 = m0
    BY <1>2, <2>1
  <2>3. Aside(m0) /\ DOMAIN m0.deps = {"grafana"}
    BY GrafanaAside, GrafanaGrown
  <2> HIDE DEF m7, m0
  <2> QED BY <1>1, <2>2, <2>3, AsideIsWired
<1>3. CASE q.site # None
  <2>1. MonitoringStack!SiteAccepted(q.site) /\ q.site \in AllSites
    BY <1>3 DEF MonitoringStack!QueryAccepted, AllSites
  <2>1a. q.syslog => q.nas
    BY DEF MonitoringStack!QueryAccepted
  <2>2. Scraped(m1) /\ NoFiles(m1) /\ Plain(m1)
    BY <1>3, <2>1, WithPrometheus, BaseWired
  <2> HIDE DEF m1
  <2>3. Scraped(m2) /\ NoFiles(m2) /\ Plain(m2)
    BY <2>2, WithProdHost
  <2> HIDE DEF m2
  <2>4. Scraped(m3) /\ NoFiles(m3) /\ Plain(m3) /\ (q.nas => "nas_prometheus_egress" \in DOMAIN m3.pols)
    BY <2>3, WithNas
  <2> HIDE DEF m3
  <2>5. Scraped(m4) /\ NoFiles(m4) /\ Wired(m4)
    BY <2>1a, <2>4, WithSyslog DEF Plain
  <2> HIDE DEF m4
  <2>6. Scraped(m5) /\ NoFiles(m5) /\ Wired(m5)
    BY <2>5, WithNfs
  <2> HIDE DEF m5
  <2>7. Scraped(m6) /\ FilesTied(m6) /\ Wired(m6)
    BY <2>6, WithFileLogs DEF NoFiles, FilesTied
  <2> HIDE DEF m6
  <2>8. Wired(m7)
    BY <2>7, WithSecurity
  <2> HIDE DEF m7
  <2> QED BY <1>1, <2>8
<1> QED BY <1>2, <1>3

-----------------------------------------------------------------------------
(* The cluster.                                                            *)

PodsRead(o, p) ==
    /\ DOMAIN p = DOMAIN o.deps
    /\ \A d \in DOMAIN p : p[d] # None =>
           /\ DOMAIN p[d] = o.deps[d].mounts
           /\ \A x \in DOMAIN p[d] :
                  (x[1] # "rules" /\ x # <<"nfs", "alerts">>) => p[d][x] = o.cms[x[1]][x[2]]

StackHolds(o, p, held) ==
    /\ OwnTied(o.cms, o.deps)
    /\ SeriesOK(o.cms)
    /\ FilesTied(o)
    /\ FilesMounted(o) => "files" \in held
    /\ PodsRead(o, p)

\* What is left of the objects o when the manifest m is applied over b.
Base(o, b, m) ==
    /\ OwnTied(b.cms, b.deps) /\ SeriesOK(b.cms)
    /\ \A d \in DOMAIN b.deps : d \in DOMAIN o.deps /\ b.deps[d] = o.deps[d]
    /\ \A c \in DOMAIN b.cms : c \in DOMAIN o.cms /\ b.cms[c] = o.cms[c]
    /\ DOMAIN o.deps \cap DOMAIN m.deps \subseteq DOMAIN b.deps
    /\ FilesMounted(o) => "files" \in DOMAIN b.cms \cup DOMAIN m.cms

NextPods(b, after, p) ==
    [d \in DOMAIN after.deps |->
        IF d \in DOMAIN p /\ after.deps[d] = b.deps[d] /\ p[d] # None
        THEN p[d]
        ELSE MonitoringStack!Start(after.deps[d], after.cms)]

\* A Pod that starts reads what it mounts.
LEMMA StartReads ==
    ASSUME NEW dep, NEW cms, MonitoringStack!Start(dep, cms) # None
    PROVE  LET r == MonitoringStack!Start(dep, cms)
           IN  DOMAIN r = dep.mounts /\ \A x \in DOMAIN r : r[x] = cms[x[1]][x[2]]
  BY DEF MonitoringStack!Start

\* An apply over what stays of the objects keeps Pods and texts together: where a template
\* is as it was, so are the texts that its digest is taken of.
LEMMA AppliedHolds ==
    ASSUME NEW o, NEW p, NEW held, NEW b, NEW m, NEW kept,
           StackHolds(o, p, held), Base(o, b, m), Rendered(m),
           FilesMounted(o) \/ FilesMounted(m) => "files" \in kept
    PROVE  LET after == MonitoringStack!Merge(b, m)
           IN  StackHolds(after, NextPods(b, after, p), kept)
<1> DEFINE after == MonitoringStack!Merge(b, m)
           np == NextPods(b, after, p)
<1>1. MergedOf(after, b, m)
  BY MergeFields
<1> HIDE DEF after
<1>2. OwnTied(after.cms, after.deps)
  BY <1>1, TiedOver DEF Base, Rendered, Shape, MergedOf
<1>3. SeriesOK(after.cms)
  BY <1>1, SeriesOver DEF Base, Rendered, Shape, MergedOf
<1>4. ASSUME FilesMounted(after)
      PROVE  /\ "files" \in kept
             /\ "files" \in DOMAIN after.cms
             /\ after.cms["files"]["alerts"] = after.deps["prometheus"].digest[3]
  <2>1. CASE "prometheus" \in DOMAIN m.deps
    <3>1. after.deps["prometheus"] = m.deps["prometheus"]
      BY <1>1, <2>1 DEF MergedOf, Over
    <3>2. FilesMounted(m)
      BY <1>4, <2>1, <3>1 DEF FilesMounted
    <3>3. "files" \in DOMAIN m.cms /\ m.cms["files"]["alerts"] = m.deps["prometheus"].digest[3]
      BY <3>2 DEF Rendered, FilesTied
    <3>4. "files" \in DOMAIN after.cms /\ after.cms["files"] = m.cms["files"]
      BY <1>1, <3>3 DEF MergedOf, Over
    <3> QED BY <3>1, <3>2, <3>3, <3>4
  <2>2. CASE "prometheus" \notin DOMAIN m.deps
    <3>1. "prometheus" \in DOMAIN b.deps /\ after.deps["prometheus"] = b.deps["prometheus"]
      BY <1>1, <1>4, <2>2 DEF MergedOf, Over, FilesMounted
    <3>2. "prometheus" \in DOMAIN o.deps /\ b.deps["prometheus"] = o.deps["prometheus"]
      BY <3>1 DEF Base
    <3>3. FilesMounted(o)
      BY <1>4, <3>1, <3>2 DEF FilesMounted
    <3>4. o.cms["files"]["alerts"] = o.deps["prometheus"].digest[3]
      BY <3>3 DEF StackHolds, FilesTied
    <3>5. "files" \notin DOMAIN m.cms
      BY <2>2 DEF Rendered
    <3>6. "files" \in DOMAIN b.cms /\ b.cms["files"] = o.cms["files"]
      BY <3>3, <3>5 DEF Base
    <3>7. "files" \in DOMAIN after.cms /\ after.cms["files"] = b.cms["files"]
      BY <1>1, <3>5, <3>6 DEF MergedOf, Over
    <3> QED BY <3>1, <3>2, <3>3, <3>4, <3>6, <3>7
  <2> QED BY <2>1, <2>2
<1>5. FilesTied(after)
  BY <1>4 DEF FilesTied
<1>6. DOMAIN np = DOMAIN after.deps
  BY DEF NextPods
<1>7. ASSUME NEW d \in DOMAIN after.deps, np[d] # None
      PROVE  /\ DOMAIN np[d] = after.deps[d].mounts
             /\ \A x \in DOMAIN np[d] :
                    (x[1] # "rules" /\ x # <<"nfs", "alerts">>) => np[d][x] = after.cms[x[1]][x[2]]
  <2>1. CASE d \in DOMAIN p /\ after.deps[d] = b.deps[d] /\ p[d] # None
    <3>1. np[d] = p[d]
      BY <2>1 DEF NextPods
    <3>2. d \in DOMAIN o.deps
      BY <2>1 DEF StackHolds, PodsRead
    <3>3. d \in DOMAIN b.deps
      BY <1>1, <1>7, <3>2 DEF MergedOf, Over, Base
    <3>4. after.deps[d] = o.deps[d]
      BY <2>1, <3>3 DEF Base
    <3>5. /\ DOMAIN p[d] = o.deps[d].mounts
          /\ \A x \in DOMAIN p[d] :
                 (x[1] # "rules" /\ x # <<"nfs", "alerts">>) => p[d][x] = o.cms[x[1]][x[2]]
      BY <2>1 DEF StackHolds, PodsRead
    <3>6. ASSUME NEW x \in o.deps[d].mounts, x[1] # "rules", x # <<"nfs", "alerts">>
          PROVE  o.cms[x[1]][x[2]] = after.cms[x[1]][x[2]]
      <4>1. \/ x[1] = d
            \/ d = "prometheus" /\ x \in RuleMounts
        BY <3>2 DEF StackHolds, OwnTied, Template
      <4>2. CASE x[1] = d
        <5>1. Told(o.cms[d], d, o.deps[d].digest, x[2])
          BY <3>2, <3>6, <4>2 DEF StackHolds, OwnTied
        <5>2. Told(after.cms[d], d, after.deps[d].digest, x[2])
          BY <1>2, <1>7, <3>4, <3>6, <4>2 DEF OwnTied
        <5> QED BY <3>4, <4>2, <5>1, <5>2 DEF Told
      <4>3. CASE d = "prometheus" /\ x \in RuleMounts
        <5>1. x = <<"files", "alerts">>
          BY <3>6, <4>3 DEF RuleMounts
        <5>2. FilesMounted(o) /\ FilesMounted(after)
          BY <1>7, <3>2, <3>4, <3>6, <4>3, <5>1 DEF FilesMounted
        <5>3. o.cms["files"]["alerts"] = o.deps["prometheus"].digest[3]
          BY <5>2 DEF StackHolds, FilesTied
        <5>4. after.cms["files"]["alerts"] = after.deps["prometheus"].digest[3]
          BY <1>4, <5>2
        <5>5. x[1] = "files" /\ x[2] = "alerts"
          BY <5>1
        <5> QED BY <3>4, <4>3, <5>3, <5>4, <5>5
      <4> QED BY <4>1, <4>2, <4>3
    <3> HIDE DEF np
    <3> QED BY <3>1, <3>4, <3>5, <3>6
  <2>2. CASE ~(d \in DOMAIN p /\ after.deps[d] = b.deps[d] /\ p[d] # None)
    <3>1. np[d] = MonitoringStack!Start(after.deps[d], after.cms)
      BY <2>2 DEF NextPods
    <3> HIDE DEF np
    <3> QED BY <1>7, <3>1, StartReads
  <2> QED BY <2>1, <2>2
<1>8. PodsRead(after, np)
  <2> HIDE DEF np
  <2> QED BY <1>6, <1>7 DEF PodsRead
<1> HIDE DEF np
<1>9. StackHolds(after, np, kept)
  BY <1>2, <1>3, <1>4, <1>5, <1>8 DEF StackHolds
<1> QED BY <1>9 DEF after, np

\* kubectl apply leaves every object that is not in the manifest.
LEMMA WholeBase ==
    ASSUME NEW o, NEW p, NEW held, NEW m, StackHolds(o, p, held)
    PROVE  Base(o, o, m)
  BY DEF Base, StackHolds, FilesTied

Reduced(o, m) ==
    MonitoringStack!Manifest(MonitoringStack!Without(o.cms, MonitoringStack!OptIns \ DOMAIN m.cms),
                             MonitoringStack!Without(o.deps, MonitoringStack!OptIns \ DOMAIN m.deps),
                             MonitoringStack!Without(o.pols, MonitoringStack!NasPolicies \ DOMAIN m.pols))

HeldBy(m) == (DOMAIN m.deps \ MonitoringStack!Removable) \cup (DOMAIN m.pols \ MonitoringStack!NasPolicies)

\* Terraform removes opt-ins, but nothing that it holds, and no template that is left refers
\* to what it removes.
LEMMA ReducedBase ==
    ASSUME NEW o, NEW p, NEW held, NEW m, StackHolds(o, p, held), Rendered(m), held \subseteq HeldBy(m)
    PROVE  Base(o, Reduced(o, m), m) /\ (FilesMounted(o) \/ FilesMounted(m) => "files" \in HeldBy(m))
<1> DEFINE b == Reduced(o, m)
           gone == MonitoringStack!OptIns
<1>1. /\ DOMAIN b.cms = DOMAIN o.cms \ (gone \ DOMAIN m.cms)
      /\ \A c \in DOMAIN b.cms : b.cms[c] = o.cms[c]
      /\ DOMAIN b.deps = DOMAIN o.deps \ (gone \ DOMAIN m.deps)
      /\ \A d \in DOMAIN b.deps : b.deps[d] = o.deps[d]
  BY ManifestFields DEF Reduced, MonitoringStack!Without
<1> HIDE DEF b, gone
<1>2. OwnTied(b.cms, b.deps)
  <2>1. "rules" \notin DOMAIN b.deps
    BY <1>1 DEF StackHolds, OwnTied
  <2>2. ASSUME NEW d \in DOMAIN b.deps
        PROVE  /\ d # "exporter" => d \in DOMAIN b.cms
               /\ d = "exporter" => b.deps[d].mounts = {}
               /\ Template(d, b.deps[d])
               /\ \A x \in b.deps[d].mounts : x[1] = d => Told(b.cms[d], d, b.deps[d].digest, x[2])
    <3>1. d \in DOMAIN o.deps /\ b.deps[d] = o.deps[d]
      BY <1>1, <2>2
    <3>2. ASSUME d # "exporter" PROVE d \in DOMAIN b.cms /\ b.cms[d] = o.cms[d]
      <4>1. d \in DOMAIN o.cms
        BY <3>1, <3>2 DEF StackHolds, OwnTied
      <4>2. d \in DOMAIN m.deps => d \in DOMAIN m.cms
        BY <3>2 DEF Rendered, Shape, OwnTied
      <4> QED BY <1>1, <2>2, <4>1, <4>2
    <3> QED BY <3>1, <3>2 DEF StackHolds, OwnTied
  <2> QED BY <2>1, <2>2 DEF OwnTied
<1>3. SeriesOK(b.cms)
  BY <1>1 DEF StackHolds, SeriesOK
<1>4. ASSUME FilesMounted(o) \/ FilesMounted(m) PROVE "files" \in HeldBy(m) /\ "files" \in DOMAIN m.cms
  <2>1. "files" \notin DOMAIN m.pols
    BY DEF Rendered, Shape
  <2>2. CASE FilesMounted(o)
    <3>1. "files" \in HeldBy(m)
      BY <2>2 DEF StackHolds
    <3>2. "files" \in DOMAIN m.deps
      BY <2>1, <3>1 DEF HeldBy
    <3> QED BY <3>1, <3>2 DEF Rendered, Shape, OwnTied
  <2>3. CASE FilesMounted(m)
    <3>1. "files" \in DOMAIN m.cms
      BY <2>3 DEF Rendered, FilesTied
    <3>2. "files" \in DOMAIN m.deps
      BY <3>1 DEF Rendered, Shape, Housed
    <3> QED BY <3>1, <3>2 DEF HeldBy, MonitoringStack!Removable
  <2> QED BY <1>4, <2>2, <2>3
<1>5. DOMAIN o.deps \cap DOMAIN m.deps \subseteq DOMAIN b.deps
  BY <1>1
<1>6. Base(o, b, m)
  BY <1>1, <1>2, <1>3, <1>4, <1>5 DEF Base
<1> QED BY <1>4, <1>6 DEF b

StackInv == StackHolds(objects, pods, protected)

\* The empty namespace.
LEMMA StackInitial == MonitoringStack!Init => StackInv
<1> SUFFICES ASSUME MonitoringStack!Init PROVE StackInv
  OBVIOUS
<1>1. objects.cms = <<>> /\ objects.deps = <<>> /\ pods = <<>>
  BY ManifestFields DEF MonitoringStack!Init
<1>2. DOMAIN objects.cms = {} /\ DOMAIN objects.deps = {} /\ DOMAIN pods = {}
  BY <1>1
<1> QED BY <1>2 DEF StackInv, StackHolds, OwnTied, SeriesOK, FilesTied, FilesMounted, PodsRead

\* A manifest applied over b, under the guards that the caller has checked.
LEMMA AppliedKeeps ==
    ASSUME StackInv, NEW b, NEW m, NEW kept, Base(objects, b, m), Rendered(m),
           FilesMounted(objects) \/ FilesMounted(m) => "files" \in kept,
           MonitoringStack!Applied(b, m, kept)
    PROVE  StackInv'
<1> DEFINE after == MonitoringStack!Merge(b, m)
<1>1. objects' = after /\ protected' = kept /\ pods' = NextPods(b, after, pods)
  BY DEF MonitoringStack!Applied, NextPods
<1>2. StackHolds(after, NextPods(b, after, pods), kept)
  BY AppliedHolds DEF StackInv
<1> HIDE DEF after
<1> QED BY <1>1, <1>2 DEF StackInv

\* The manifests that mount no rules of the NAS file logs.
LEMMA PlainKeeps ==
    ASSUME StackInv, NEW m, Shape(m), "files" \notin DOMAIN m.cms, ~FilesMounted(m),
           MonitoringStack!Applied(objects, m, protected)
    PROVE  StackInv'
<1>1. Rendered(m)
  BY DEF Rendered, FilesTied
<1>2. Base(objects, objects, m) /\ (FilesMounted(objects) => "files" \in protected)
  BY WholeBase DEF StackInv, StackHolds
<1> QED BY <1>1, <1>2, AppliedKeeps

LEMMA LoneKeeps ==
    ASSUME StackInv, NEW m, NEW d, Shape(m), Lone(m, d), d \notin {"files", "prometheus"},
           MonitoringStack!Applied(objects, m, protected)
    PROVE  StackInv'
<1>1. "files" \notin DOMAIN m.cms /\ ~FilesMounted(m)
  BY DEF Lone, FilesMounted
<1> QED BY <1>1, PlainKeeps

\* A Pod that restarts reads its texts again.
LEMMA RestartKeeps ==
    ASSUME StackInv, NEW d \in DOMAIN pods, MonitoringStack!Restart(d)
    PROVE  StackInv'
<1> DEFINE r == MonitoringStack!Start(objects.deps[d], objects.cms)
<1>1. /\ pods' = [pods EXCEPT ![d] = r]
      /\ objects' = objects /\ protected' = protected
  BY DEF MonitoringStack!Restart
<1>2. r # None => DOMAIN r = objects.deps[d].mounts /\ \A x \in DOMAIN r : r[x] = objects.cms[x[1]][x[2]]
  BY StartReads
<1> HIDE DEF r
<1>3. PodsRead(objects, pods')
  <2>1. DOMAIN pods' = DOMAIN objects.deps
    BY <1>1 DEF StackInv, StackHolds, PodsRead
  <2>2. ASSUME NEW y \in DOMAIN pods', pods'[y] # None
        PROVE  /\ DOMAIN pods'[y] = objects.deps[y].mounts
               /\ \A x \in DOMAIN pods'[y] :
                      (x[1] # "rules" /\ x # <<"nfs", "alerts">>) => pods'[y][x] = objects.cms[x[1]][x[2]]
    <3>1. CASE y = d
      <4>1. pods'[y] = r
        BY <1>1, <3>1
      <4> QED BY <1>2, <2>2, <3>1, <4>1
    <3>2. CASE y # d
      <4>1. y \in DOMAIN pods /\ pods'[y] = pods[y]
        BY <1>1, <2>2, <3>2
      <4> QED BY <2>2, <4>1 DEF StackInv, StackHolds, PodsRead
    <3> QED BY <3>1, <3>2
  <2> QED BY <2>1, <2>2 DEF PodsRead
<1> QED BY <1>1, <1>3 DEF StackInv, StackHolds

\* One step per action.
LEMMA StackStep == StackInv /\ MonitoringStack!Next => StackInv'
<1> SUFFICES ASSUME StackInv, MonitoringStack!Next PROVE StackInv'
  OBVIOUS
<1>1. ASSUME NEW s \in Sites, MonitoringStack!ApplyOutsideIn(s) PROVE StackInv'
  <2>1. MonitoringStack!SiteAccepted(s) /\ MonitoringStack!Applied(objects, MonitoringStack!OutsideIn(s), protected)
    BY <1>1 DEF MonitoringStack!ApplyOutsideIn
  <2>2. /\ Shape(MonitoringStack!OutsideIn(s))
        /\ "files" \notin DOMAIN MonitoringStack!OutsideIn(s).cms /\ ~FilesMounted(MonitoringStack!OutsideIn(s))
    BY <2>1, OutsideInShape DEF FilesMounted
  <2> QED BY <2>1, <2>2, PlainKeeps
<1>2. CASE MonitoringStack!ApplyRules
  <2> DEFINE m == MonitoringStack!AlertRules(edition)
  <2>1. MonitoringStack!Applied(objects, m, protected)
    BY <1>2 DEF MonitoringStack!ApplyRules, MonitoringStack!Apply
  <2>2. Shape(m) /\ "files" \notin DOMAIN m.cms /\ ~FilesMounted(m)
    BY RulesShape DEF FilesMounted
  <2> HIDE DEF m
  <2> QED BY <2>1, <2>2, PlainKeeps
<1>3. CASE MonitoringStack!ApplyAlertmanager
  <2>1. MonitoringStack!Applied(objects, MonitoringStack!Alertmanager, protected)
    BY <1>3 DEF MonitoringStack!ApplyAlertmanager, MonitoringStack!Apply
  <2> QED BY <2>1, AlertmanagerShape, LoneKeeps
<1>4. CASE MonitoringStack!ApplyLoki
  <2>1. MonitoringStack!Applied(objects, MonitoringStack!Loki, protected)
    BY <1>4 DEF MonitoringStack!ApplyLoki, MonitoringStack!Apply
  <2> QED BY <2>1, LokiShape, LoneKeeps
<1>5. CASE MonitoringStack!ApplyGateway
  <2>1. MonitoringStack!Applied(objects, MonitoringStack!Gateway, protected)
    BY <1>5 DEF MonitoringStack!ApplyGateway, MonitoringStack!Apply
  <2> QED BY <2>1, GatewayShape, LoneKeeps
<1>6. CASE MonitoringStack!ApplyPortal
  <2>1. MonitoringStack!Applied(objects, MonitoringStack!Portal, protected)
    BY <1>6 DEF MonitoringStack!ApplyPortal, MonitoringStack!Apply
  <2> QED BY <2>1, PortalShape, LoneKeeps
<1>7. CASE MonitoringStack!ApplyNegative
  <2>1. MonitoringStack!Applied(objects, MonitoringStack!NegativeAcceptance, protected)
    BY <1>7 DEF MonitoringStack!ApplyNegative, MonitoringStack!Apply
  <2> QED BY <2>1, NegativeShape, LoneKeeps
<1>8. ASSUME NEW q \in StackQueries, MonitoringStack!ApplyTerraform(q) PROVE StackInv'
  <2> DEFINE m == MonitoringStack!TerraformManifest(q, edition)
  <2>1. MonitoringStack!QueryAccepted(q) /\ MonitoringStack!Reconciled(m)
    BY <1>8 DEF MonitoringStack!ApplyTerraform
  <2>2. Rendered(m)
    BY <1>8, <2>1, ManifestRendered, QueriesAssumption
  <2> HIDE DEF m
  <2>3. protected \subseteq HeldBy(m) /\ MonitoringStack!Applied(Reduced(objects, m), m, HeldBy(m))
    BY <2>1 DEF MonitoringStack!Reconciled, HeldBy, Reduced
  <2>4. /\ Base(objects, Reduced(objects, m), m)
        /\ FilesMounted(objects) \/ FilesMounted(m) => "files" \in HeldBy(m)
    BY <2>2, <2>3, ReducedBase DEF StackInv
  <2> QED BY <2>2, <2>3, <2>4, AppliedKeeps
<1>9. ASSUME NEW d \in DOMAIN pods, MonitoringStack!Restart(d) PROVE StackInv'
  BY <1>9, RestartKeeps
<1>10. ASSUME NEW t \in Edited, MonitoringStack!Edit(t) PROVE StackInv'
  BY <1>10 DEF MonitoringStack!Edit, StackInv
<1> QED BY <1>1, <1>2, <1>3, <1>4, <1>5, <1>6, <1>7, <1>8, <1>9, <1>10 DEF MonitoringStack!Next

LEMMA StackStays == StackInv /\ UNCHANGED <<objects, protected, pods>> => StackInv'
  BY DEF StackInv

\* PodsCurrent is part of the invariant.
LEMMA StackCurrent == StackInv => MonitoringStack!PodsCurrent
  BY DEF StackInv, StackHolds, PodsRead, MonitoringStack!PodsCurrent, MonitoringStack!Running

\* What is queried is a group that all such jobs keep.
LEMMA StackSeries == StackInv => MonitoringStack!SeriesKept
<1> SUFFICES ASSUME StackInv, {"prometheus", "grafana"} \subseteq DOMAIN objects.cms,
                    NEW x \in MonitoringStack!Queried,
                    NEW y \in objects.cms["prometheus"].config.series, y[1] = x[1]
             PROVE  x \in objects.cms["prometheus"].config.series
  BY DEF MonitoringStack!SeriesKept
<1>1. x = <<x[1], x[2]>> /\ x[2] \in GroupsOf(x[1])
  <2>1. CASE \E k \in DOMAIN objects.cms["grafana"] : x \in objects.cms["grafana"][k].series
    BY <2>1 DEF StackInv, StackHolds, SeriesOK, QueriesIn, Queriable
  <2>2. CASE \E c \in MonitoringStack!RuleMaps : x \in objects.cms[c].alerts.series
    BY <2>2 DEF StackInv, StackHolds, SeriesOK, Queriable, MonitoringStack!RuleMaps
  <2> QED BY <2>1, <2>2 DEF MonitoringStack!Queried
<1>2. Closed(objects.cms["prometheus"].config.series)
  BY DEF StackInv, StackHolds, SeriesOK
<1> QED BY <1>1, <1>2 DEF Closed

-----------------------------------------------------------------------------
(* The connections of the cluster.                                         *)

\* The texts that may be stale in a Pod, the alert rules, open no connection.
Quiet(p) ==
    \A d \in DOMAIN p : p[d] # None =>
        \A x \in DOMAIN p[d] : x[1] = "rules" \/ x = <<"nfs", "alerts">> => p[d][x].calls = {}

FlowInv == Wired(objects) /\ Quiet(pods)

\* A manifest over what is there: the NAS's policy of Prometheus may be replaced only together
\* with the syslog collector that relies on it.
LEMMA WiredOver ==
    ASSUME NEW m, NEW n, Wired(m), Wired(n),
           "nas_prometheus_egress" \in DOMAIN n.pols /\ "syslog" \in DOMAIN m.deps => "syslog" \in DOMAIN n.deps
    PROVE  Wired(MonitoringStack!Merge(m, n))
<1> DEFINE r == MonitoringStack!Merge(m, n)
           name == "nas_prometheus_egress"
<1>1. MergedOf(r, m, n)
  BY MergeFields
<1> HIDE DEF r
<1>2. DOMAIN m.pols \subseteq DOMAIN r.pols /\ DOMAIN n.pols \subseteq DOMAIN r.pols
  BY <1>1 DEF MergedOf, Over
<1>3. Lines(m, DOMAIN r.pols) /\ Lines(n, DOMAIN r.pols)
  BY <1>2, LinesGrow DEF Wired
<1>4. \A d \in DOMAIN n.deps : PoliciesOf(d) \subseteq DOMAIN r.pols
  BY <1>2 DEF Wired, Guarded
<1>5. ASSUME "syslog" \in DOMAIN r.deps PROVE <<"syslog", 12345>> \in r.pols[name].egress
  <2>1. CASE "syslog" \in DOMAIN n.deps
    <3>1. name \in DOMAIN n.pols
      BY <2>1 DEF Wired, Guarded, PoliciesOf
    <3>2. r.pols[name] = n.pols[name]
      BY <1>1, <3>1 DEF MergedOf, Over
    <3> QED BY <2>1, <3>2 DEF Wired, SyslogScraped
  <2>2. CASE "syslog" \notin DOMAIN n.deps
    <3>1. "syslog" \in DOMAIN m.deps
      BY <1>1, <1>5, <2>2 DEF MergedOf, Over
    <3>2. name \in DOMAIN m.pols /\ name \notin DOMAIN n.pols
      BY <2>2, <3>1 DEF Wired, Guarded, PoliciesOf
    <3>3. r.pols[name] = m.pols[name]
      BY <1>1, <3>2 DEF MergedOf, Over
    <3> QED BY <3>1, <3>3 DEF Wired, SyslogScraped
  <2> QED BY <2>1, <2>2
<1>6. SyslogScraped(r)
  BY <1>5 DEF SyslogScraped
<1>7. Guarded(m) /\ Scrapes(m) /\ Scrapes(n)
  BY DEF Wired
<1> QED BY <1>1, <1>3, <1>4, <1>6, <1>7, MergeWired DEF r

\* The opt-ins' policies go with their Pods alone.
LEMMA PoliciesApart ==
    ASSUME NEW d, d \notin MonitoringStack!OptIns
    PROVE  PoliciesOf(d) \cap MonitoringStack!NasPolicies = {}
  BY DEF PoliciesOf, MonitoringStack!OptIns, MonitoringStack!NasPolicies

\* Terraform takes the policies away together with the Deployments that need them.
LEMMA ReducedWired ==
    ASSUME NEW o, NEW m, Wired(o), Wired(m)
    PROVE  /\ Wired(Reduced(o, m))
           /\ "syslog" \in DOMAIN Reduced(o, m).deps => "syslog" \in DOMAIN m.deps
<1> DEFINE b == Reduced(o, m)
           gone == MonitoringStack!OptIns
           lost == MonitoringStack!NasPolicies
<1>1. /\ DOMAIN b.cms = DOMAIN o.cms \ (gone \ DOMAIN m.cms)
      /\ \A c \in DOMAIN b.cms : b.cms[c] = o.cms[c]
      /\ DOMAIN b.deps = DOMAIN o.deps \ (gone \ DOMAIN m.deps)
      /\ \A d \in DOMAIN b.deps : b.deps[d] = o.deps[d]
      /\ DOMAIN b.pols = DOMAIN o.pols \ (lost \ DOMAIN m.pols)
      /\ \A n \in DOMAIN b.pols : b.pols[n] = o.pols[n]
  BY ManifestFields DEF Reduced, MonitoringStack!Without
<1>2. "syslog" \in gone /\ "prometheus" \notin gone
      /\ "prometheus_restricted" \notin lost /\ "grafana_slack_egress" \notin lost
  BY DEF MonitoringStack!OptIns, MonitoringStack!NasPolicies
<1>3. \A d : d \notin gone => PoliciesOf(d) \cap lost = {}
  BY PoliciesApart
<1> HIDE DEF b, gone, lost
<1>4. "syslog" \in DOMAIN b.deps => "syslog" \in DOMAIN m.deps
  BY <1>1, <1>2
<1>5. Lines(b, DOMAIN b.pols)
  <2>1. \A c : TextCalls(c, DOMAIN b.pols) = TextCalls(c, DOMAIN o.pols)
    <3>1. "grafana_slack_egress" \in DOMAIN b.pols <=> "grafana_slack_egress" \in DOMAIN o.pols
      BY <1>1, <1>2
    <3> QED BY <3>1 DEF TextCalls
  <2> QED BY <1>1, <2>1 DEF Wired, Lines
<1>6. Guarded(b)
  <2> SUFFICES ASSUME NEW d \in DOMAIN b.deps PROVE PoliciesOf(d) \subseteq DOMAIN b.pols
    BY DEF Guarded
  <2>1. PoliciesOf(d) \subseteq DOMAIN o.pols
    BY <1>1 DEF Wired, Guarded
  <2>2. CASE d \in gone
    <3>1. PoliciesOf(d) \subseteq DOMAIN m.pols
      BY <1>1, <2>2 DEF Wired, Guarded
    <3> QED BY <1>1, <2>1, <3>1
  <2>3. CASE d \notin gone
    BY <1>1, <1>3, <2>1, <2>3
  <2> QED BY <2>2, <2>3
<1>7. SyslogScraped(b)
  <2> SUFFICES ASSUME "syslog" \in DOMAIN b.deps
               PROVE  <<"syslog", 12345>> \in b.pols["nas_prometheus_egress"].egress
    BY DEF SyslogScraped
  <2>1. "nas_prometheus_egress" \in DOMAIN b.pols
    BY <1>6 DEF Guarded, PoliciesOf
  <2> QED BY <1>1, <2>1 DEF Wired, SyslogScraped
<1>8. Scrapes(b)
  <2>1. /\ "prometheus" \in DOMAIN b.cms <=> "prometheus" \in DOMAIN o.cms
        /\ "prometheus_restricted" \in DOMAIN b.pols <=> "prometheus_restricted" \in DOMAIN o.pols
    BY <1>1, <1>2
  <2> QED BY <1>1, <2>1 DEF Wired, Scrapes
<1> QED BY <1>4, <1>5, <1>6, <1>7, <1>8 DEF Wired, b

\* Alert rules open no connection, whenever they were read.
LEMMA StartQuiet ==
    ASSUME NEW o, NEW pols, OwnTied(o.cms, o.deps), Lines(o, pols),
           NEW d \in DOMAIN o.deps, MonitoringStack!Start(o.deps[d], o.cms) # None
    PROVE  LET r == MonitoringStack!Start(o.deps[d], o.cms)
           IN  \A x \in DOMAIN r : x[1] = "rules" \/ x = <<"nfs", "alerts">> => r[x].calls = {}
<1> DEFINE r == MonitoringStack!Start(o.deps[d], o.cms)
<1>1. DOMAIN r = o.deps[d].mounts /\ \A x \in DOMAIN r : r[x] = o.cms[x[1]][x[2]]
  BY StartReads
<1>2. \A x \in o.deps[d].mounts : x[1] \in DOMAIN o.cms
  BY DEF MonitoringStack!Start
<1> HIDE DEF r
<1>3. ASSUME NEW x \in DOMAIN r, x[1] = "rules" \/ x = <<"nfs", "alerts">>
      PROVE  r[x].calls = {}
  <2>1. x[1] \in {"rules", "nfs"} /\ x[2] = "alerts"
    <3>1. CASE x[1] = "rules"
      BY <1>1, <1>3, <3>1 DEF OwnTied, Template, RuleMounts
    <3>2. CASE x = <<"nfs", "alerts">>
      BY <3>2
    <3> QED BY <1>3, <3>1, <3>2
  <2>2. x[1] \in DOMAIN o.cms /\ x[2] \in DOMAIN o.cms[x[1]]
    BY <1>1, <1>2, <1>3, <2>1 DEF Lines
  <2>3. o.cms[x[1]][x[2]].calls \subseteq TextCalls(x[1], pols)
    BY <2>1, <2>2 DEF Lines, CallsWithin
  <2>4. TextCalls(x[1], pols) = {}
    BY <2>1 DEF TextCalls
  <2> QED BY <1>1, <1>3, <2>3, <2>4
<1> QED BY <1>3 DEF r

LEMMA NextQuiet ==
    ASSUME NEW b, NEW after, NEW p, OwnTied(after.cms, after.deps), Lines(after, DOMAIN after.pols), Quiet(p)
    PROVE  Quiet(NextPods(b, after, p))
<1> DEFINE np == NextPods(b, after, p)
<1>1. DOMAIN np = DOMAIN after.deps
  BY DEF NextPods
<1>2. ASSUME NEW d \in DOMAIN np, np[d] # None, NEW x \in DOMAIN np[d], x[1] = "rules" \/ x = <<"nfs", "alerts">>
      PROVE  np[d][x].calls = {}
  <2>1. CASE d \in DOMAIN p /\ after.deps[d] = b.deps[d] /\ p[d] # None
    <3>1. np[d] = p[d]
      BY <1>1, <1>2, <2>1 DEF NextPods
    <3> HIDE DEF np
    <3> QED BY <1>2, <2>1, <3>1 DEF Quiet
  <2>2. CASE ~(d \in DOMAIN p /\ after.deps[d] = b.deps[d] /\ p[d] # None)
    <3>1. np[d] = MonitoringStack!Start(after.deps[d], after.cms)
      BY <1>1, <1>2, <2>2 DEF NextPods
    <3> HIDE DEF np
    <3> QED BY <1>1, <1>2, <3>1, StartQuiet
  <2> QED BY <2>1, <2>2
<1> HIDE DEF np
<1>3. Quiet(np)
  BY <1>2 DEF Quiet
<1> QED BY <1>3 DEF np

LEMMA FlowInitial == MonitoringStack!Init => FlowInv
<1> SUFFICES ASSUME MonitoringStack!Init PROVE FlowInv
  OBVIOUS
<1>1. objects.cms = <<>> /\ objects.deps = <<>> /\ objects.pols = <<>> /\ pods = <<>>
  BY ManifestFields DEF MonitoringStack!Init
<1>2. DOMAIN objects.cms = {} /\ DOMAIN objects.deps = {} /\ DOMAIN objects.pols = {} /\ DOMAIN pods = {}
  BY <1>1
<1> QED BY <1>2 DEF FlowInv, Quiet, Wired, Lines, Guarded, SyslogScraped, Scrapes

\* An apply whose result is wired.
LEMMA AppliedFlows ==
    ASSUME StackInv', FlowInv, NEW b, NEW m, NEW kept, Wired(MonitoringStack!Merge(b, m)),
           MonitoringStack!Applied(b, m, kept)
    PROVE  FlowInv'
<1> DEFINE after == MonitoringStack!Merge(b, m)
<1>1. objects' = after /\ pods' = NextPods(b, after, pods)
  BY DEF MonitoringStack!Applied, NextPods
<1> HIDE DEF after
<1>2. Wired(after)
  BY DEF after
<1>3. OwnTied(after.cms, after.deps)
  BY <1>1 DEF StackInv, StackHolds
<1>4. Quiet(NextPods(b, after, pods))
  BY <1>2, <1>3, NextQuiet DEF FlowInv, Wired
<1> QED BY <1>1, <1>2, <1>4 DEF FlowInv

LEMMA AsideFlows ==
    ASSUME StackInv', FlowInv, NEW m, Aside(m), "syslog" \notin DOMAIN m.deps,
           MonitoringStack!Applied(objects, m, protected)
    PROVE  FlowInv'
<1>1. Wired(MonitoringStack!Merge(objects, m))
  BY AsideWired DEF FlowInv
<1> QED BY <1>1, AppliedFlows

LEMMA RestartFlows ==
    ASSUME StackInv, FlowInv, NEW d \in DOMAIN pods, MonitoringStack!Restart(d)
    PROVE  FlowInv'
<1> DEFINE r == MonitoringStack!Start(objects.deps[d], objects.cms)
<1>1. pods' = [pods EXCEPT ![d] = r] /\ objects' = objects
  BY DEF MonitoringStack!Restart
<1>2. d \in DOMAIN objects.deps /\ OwnTied(objects.cms, objects.deps)
  BY DEF StackInv, StackHolds, PodsRead
<1>3. r # None => \A x \in DOMAIN r : x[1] = "rules" \/ x = <<"nfs", "alerts">> => r[x].calls = {}
  BY <1>2, StartQuiet DEF FlowInv, Wired
<1> HIDE DEF r
<1>4. ASSUME NEW y \in DOMAIN pods, pods'[y] # None, NEW x \in DOMAIN pods'[y],
             x[1] = "rules" \/ x = <<"nfs", "alerts">>
      PROVE  pods'[y][x].calls = {}
  <2>1. CASE y = d
    <3>1. pods'[y] = r
      BY <1>1, <2>1
    <3> QED BY <1>3, <1>4, <3>1
  <2>2. CASE y # d
    <3>1. pods'[y] = pods[y]
      BY <1>1, <2>2
    <3> QED BY <1>4, <3>1 DEF FlowInv, Quiet
  <2> QED BY <2>1, <2>2
<1>5. DOMAIN pods' = DOMAIN pods
  BY <1>1
<1> QED BY <1>1, <1>4, <1>5 DEF FlowInv, Quiet

\* One step per action.
LEMMA FlowStep ==
    ASSUME OneNetwork
    PROVE  StackInv /\ StackInv' /\ FlowInv /\ MonitoringStack!Next => FlowInv'
<1> SUFFICES ASSUME StackInv, StackInv', FlowInv, MonitoringStack!Next PROVE FlowInv'
  OBVIOUS
<1>1. ASSUME NEW s \in Sites, MonitoringStack!ApplyOutsideIn(s) PROVE FlowInv'
  <2> DEFINE m == MonitoringStack!OutsideIn(s)
  <2>1. MonitoringStack!SiteAccepted(s) /\ MonitoringStack!Applied(objects, m, protected)
    BY <1>1 DEF MonitoringStack!ApplyOutsideIn
  <2>2. s \in AllSites
    BY SitesAssumption DEF AllSites
  <2>3. Wired(m) /\ "nas_prometheus_egress" \notin DOMAIN m.pols
    BY <2>1, <2>2, OutsideInWired
  <2> HIDE DEF m
  <2>4. Wired(MonitoringStack!Merge(objects, m))
    BY <2>3, WiredOver DEF FlowInv
  <2> QED BY <2>1, <2>4, AppliedFlows
<1>2. CASE MonitoringStack!ApplyRules
  <2> DEFINE m == MonitoringStack!AlertRules(edition)
  <2>1. MonitoringStack!Applied(objects, m, protected)
    BY <1>2 DEF MonitoringStack!ApplyRules, MonitoringStack!Apply
  <2>2. Aside(m) /\ DOMAIN m.deps = {}
    BY RulesAside, RulesShape
  <2> HIDE DEF m
  <2> QED BY <2>1, <2>2, AsideFlows
<1>3. CASE MonitoringStack!ApplyAlertmanager
  <2>1. MonitoringStack!Applied(objects, MonitoringStack!Alertmanager, protected)
    BY <1>3 DEF MonitoringStack!ApplyAlertmanager, MonitoringStack!Apply
  <2>2. "syslog" \notin DOMAIN MonitoringStack!Alertmanager.deps
    BY AlertmanagerShape DEF Lone
  <2> QED BY <2>1, <2>2, AlertmanagerAside, AsideFlows
<1>4. CASE MonitoringStack!ApplyLoki
  <2>1. MonitoringStack!Applied(objects, MonitoringStack!Loki, protected)
    BY <1>4 DEF MonitoringStack!ApplyLoki, MonitoringStack!Apply
  <2>2. "syslog" \notin DOMAIN MonitoringStack!Loki.deps
    BY LokiShape DEF Lone
  <2> QED BY <2>1, <2>2, LokiAside, AsideFlows
<1>5. CASE MonitoringStack!ApplyGateway
  <2>1. MonitoringStack!Applied(objects, MonitoringStack!Gateway, protected)
    BY <1>5 DEF MonitoringStack!ApplyGateway, MonitoringStack!Apply
  <2>2. "syslog" \notin DOMAIN MonitoringStack!Gateway.deps
    BY GatewayShape DEF Lone
  <2> QED BY <2>1, <2>2, GatewayAside, AsideFlows
<1>6. CASE MonitoringStack!ApplyPortal
  <2>1. MonitoringStack!Applied(objects, MonitoringStack!Portal, protected)
    BY <1>6 DEF MonitoringStack!ApplyPortal, MonitoringStack!Apply
  <2>2. "syslog" \notin DOMAIN MonitoringStack!Portal.deps
    BY PortalShape DEF Lone
  <2> QED BY <2>1, <2>2, PortalAside, AsideFlows
<1>7. CASE MonitoringStack!ApplyNegative
  <2>1. MonitoringStack!Applied(objects, MonitoringStack!NegativeAcceptance, protected)
    BY <1>7 DEF MonitoringStack!ApplyNegative, MonitoringStack!Apply
  <2>2. "syslog" \notin DOMAIN MonitoringStack!NegativeAcceptance.deps
    BY NegativeShape DEF Lone
  <2> QED BY <2>1, <2>2, NegativeAside, AsideFlows
<1>8. ASSUME NEW q \in StackQueries, MonitoringStack!ApplyTerraform(q) PROVE FlowInv'
  <2> DEFINE m == MonitoringStack!TerraformManifest(q, edition)
             b == Reduced(objects, m)
  <2>1. MonitoringStack!QueryAccepted(q) /\ MonitoringStack!Reconciled(m)
    BY <1>8 DEF MonitoringStack!ApplyTerraform
  <2>2. Wired(m)
    BY <1>8, <2>1, ManifestWired, QueriesAssumption
  <2> HIDE DEF m
  <2>3. MonitoringStack!Applied(b, m, HeldBy(m))
    BY <2>1 DEF MonitoringStack!Reconciled, HeldBy, Reduced
  <2>4. Wired(b) /\ ("syslog" \in DOMAIN b.deps => "syslog" \in DOMAIN m.deps)
    BY <2>2, ReducedWired DEF FlowInv
  <2> HIDE DEF b
  <2>5. Wired(MonitoringStack!Merge(b, m))
    BY <2>2, <2>4, WiredOver
  <2> QED BY <2>3, <2>5, AppliedFlows
<1>9. ASSUME NEW d \in DOMAIN pods, MonitoringStack!Restart(d) PROVE FlowInv'
  BY <1>9, RestartFlows
<1>10. ASSUME NEW t \in Edited, MonitoringStack!Edit(t) PROVE FlowInv'
  BY <1>10 DEF MonitoringStack!Edit, FlowInv
<1> QED BY <1>1, <1>2, <1>3, <1>4, <1>5, <1>6, <1>7, <1>8, <1>9, <1>10 DEF MonitoringStack!Next

LEMMA FlowStays == FlowInv /\ UNCHANGED <<objects, pods>> => FlowInv'
  BY DEF FlowInv

-----------------------------------------------------------------------------
(* What the policies of a wired namespace let through.                     *)

LetsOut(pols, a, b, port) ==
    \/ \A n \in DOMAIN pols : pols[n].pod = a => "Egress" \notin pols[n].types
    \/ \E n \in DOMAIN pols : /\ pols[n].pod = a /\ "Egress" \in pols[n].types
                              /\ MonitoringStack!Allows(pols[n].egress, b, port)

LetsIn(pols, a, b, port) ==
    \/ \A n \in DOMAIN pols : pols[n].pod = b => "Ingress" \notin pols[n].types
    \/ \E n \in DOMAIN pols : /\ pols[n].pod = b /\ "Ingress" \in pols[n].types
                              /\ MonitoringStack!Allows(pols[n].ingress, a, port)

Lets(pols, a, b, port) == LetsOut(pols, a, b, port) /\ LetsIn(pols, a, b, port)

\* The pod lets these peers in and these out.
Guards(pols, pod, ins, outs) ==
    /\ \A peer, port : <<peer, port>> \in ins => LetsIn(pols, peer, pod, port)
    /\ \A peer, port : <<peer, port>> \in outs => LetsOut(pols, pod, peer, port)

\* What one policy grants passes, whatever the others are: policies add up.
LEMMA GrantedGuards ==
    ASSUME NEW pols, NEW n \in DOMAIN pols, NEW pod, NEW ins, NEW outs, Grants(pols[n], pod, ins, outs)
    PROVE  Guards(pols, pod, ins, outs)
  BY DEF Guards, Grants, LetsIn, LetsOut, MonitoringStack!Allows

LEMMA AnyLets ==
    ASSUME NEW pols, NEW pod, NEW port, LetsOut(pols, pod, "any", port), NEW peer
    PROVE  LetsOut(pols, pod, peer, port)
  BY DEF LetsOut, MonitoringStack!Allows

\* No policy selects what is no Pod with a policy.
LEMMA UnselectedLets ==
    ASSUME NEW pols, \A n \in DOMAIN pols : Keeps(n, pols[n]), NEW x, x \notin Selected
    PROVE  \A y, port : LetsOut(pols, x, y, port) /\ LetsIn(pols, y, x, port)
  BY DEF Keeps, LetsOut, LetsIn

\* The names of the policies that come with each Deployment.
LEMMA PolicyNames ==
    /\ {"blackbox_restricted"} \subseteq PoliciesOf("blackbox")
    /\ {"prometheus_restricted"} \subseteq PoliciesOf("prometheus")
    /\ {"alertmanager_restricted", "prometheus_alertmanager_egress"} \subseteq PoliciesOf("alertmanager")
    /\ {"loki_restricted", "grafana_loki_egress"} \subseteq PoliciesOf("loki")
    /\ {"gateway_restricted", "gateway_to_loki"} \subseteq PoliciesOf("gateway")
    /\ {"portal_ingress", "grafana_tailnet_ingress"} \subseteq PoliciesOf("portal")
    /\ {"negative"} \subseteq PoliciesOf("negative")
    /\ {"grafana_restricted", "prometheus_grafana_ingress"} \subseteq PoliciesOf("grafana")
    /\ {"snmp_restricted", "nas_prometheus_egress"} \subseteq PoliciesOf("snmp")
    /\ {"syslog_restricted", "nas_loki_ingress", "nas_prometheus_egress"} \subseteq PoliciesOf("syslog")
    /\ {"nfs_restricted", "nfs_prometheus_egress"} \subseteq PoliciesOf("nfs")
    /\ {"files_restricted", "files_prometheus_egress", "files_loki_ingress"} \subseteq PoliciesOf("files")
  BY DEF PoliciesOf

\* What the policy of each name lets through.
LEMMA KeptLets ==
    ASSUME NEW pols, NEW n \in DOMAIN pols, Keeps(n, pols[n])
    PROVE  /\ n = "blackbox_restricted" =>
                  /\ LetsIn(pols, "prometheus", "blackbox", 9115)
                  /\ LetsOut(pols, "blackbox", "kube-dns", 53)
                  /\ \A h, port : <<h, port>> \in Probed => LetsOut(pols, "blackbox", h, port)
           /\ n = "prometheus_restricted" =>
                  /\ LetsOut(pols, "prometheus", "kube-dns", 53)
                  /\ LetsOut(pols, "prometheus", "blackbox", 9115)
           /\ n = "alertmanager_restricted" =>
                  /\ LetsIn(pols, "prometheus", "alertmanager", 9093)
                  /\ LetsOut(pols, "alertmanager", "kube-dns", 53)
                  /\ LetsOut(pols, "alertmanager", "slack", 443)
           /\ n = "prometheus_alertmanager_egress" =>
                  /\ LetsOut(pols, "prometheus", "alertmanager", 9093)
           /\ n = "loki_restricted" =>
                  /\ LetsIn(pols, "grafana", "loki", 3100)
           /\ n = "grafana_loki_egress" =>
                  /\ LetsOut(pols, "grafana", "loki", 3100)
           /\ n = "gateway_restricted" =>
                  /\ LetsIn(pols, "staging", "gateway", 8443)
                  /\ LetsOut(pols, "gateway", "loki", 3100)
                  /\ LetsOut(pols, "gateway", "kube-dns", 53)
           /\ n = "gateway_to_loki" =>
                  /\ LetsIn(pols, "gateway", "loki", 3100)
           /\ n = "portal_ingress" =>
                  /\ LetsIn(pols, "tailnet", "portal", 8080)
           /\ n = "grafana_tailnet_ingress" =>
                  /\ LetsIn(pols, "tailnet", "grafana", 3000)
           /\ n = "negative" =>
                  /\ LetsIn(pols, "negative", "blackbox", 9115)
           /\ n = "grafana_restricted" =>
                  /\ LetsOut(pols, "grafana", "kube-dns", 53)
                  /\ LetsOut(pols, "grafana", "prometheus", 9090)
           /\ n = "prometheus_grafana_ingress" =>
                  /\ LetsIn(pols, "grafana", "prometheus", 9090)
           /\ n = "snmp_restricted" =>
                  /\ LetsIn(pols, "prometheus", "snmp", 9116)
                  /\ LetsOut(pols, "snmp", "nas", 161)
           /\ n = "nas_prometheus_egress" =>
                  /\ LetsOut(pols, "prometheus", "snmp", 9116)
           /\ n = "syslog_restricted" =>
                  /\ LetsIn(pols, "nas", "syslog", 1514)
                  /\ LetsIn(pols, "prometheus", "syslog", 12345)
                  /\ LetsOut(pols, "syslog", "loki", 3100)
                  /\ LetsOut(pols, "syslog", "kube-dns", 53)
           /\ n = "nas_loki_ingress" =>
                  /\ LetsIn(pols, "syslog", "loki", 3100)
           /\ n = "nfs_restricted" =>
                  /\ LetsIn(pols, "prometheus", "nfs", 9189)
                  /\ LetsOut(pols, "nfs", "nas", 22)
           /\ n = "nfs_prometheus_egress" =>
                  /\ LetsOut(pols, "prometheus", "nfs", 9189)
           /\ n = "files_restricted" =>
                  /\ LetsIn(pols, "prometheus", "files", 9188)
                  /\ LetsOut(pols, "files", "nas", 22)
                  /\ LetsOut(pols, "files", "loki", 3100)
                  /\ LetsOut(pols, "files", "kube-dns", 53)
           /\ n = "files_prometheus_egress" =>
                  /\ LetsOut(pols, "prometheus", "files", 9188)
           /\ n = "files_loki_ingress" =>
                  /\ LetsIn(pols, "files", "loki", 3100)
           /\ n = "grafana_slack_egress" =>
                  /\ LetsOut(pols, "grafana", "slack", 443)
<1>1. ASSUME n = "blackbox_restricted"
      PROVE  /\ LetsIn(pols, "prometheus", "blackbox", 9115)
             /\ LetsOut(pols, "blackbox", "kube-dns", 53)
             /\ \A h, port : <<h, port>> \in Probed => LetsOut(pols, "blackbox", h, port)
  <2>1. Grants(pols[n], "blackbox", {<<"prometheus", 9115>>}, {Any} \cup Probed)
    BY <1>1 DEF Keeps
  <2>2. Guards(pols, "blackbox", {<<"prometheus", 9115>>}, {Any} \cup Probed)
    BY <2>1, GrantedGuards
  <2>3. LetsOut(pols, "blackbox", "any", 53)
    <3>1. <<"any", 53>> \in {Any} \cup Probed
      BY DEF Any
    <3>2. \A peer, q : <<peer, q>> \in {Any} \cup Probed => LetsOut(pols, "blackbox", peer, q)
      BY <2>2 DEF Guards
    <3> QED BY <3>1, <3>2
  <2>4. LetsOut(pols, "blackbox", "kube-dns", 53)
    BY <2>3, AnyLets
  <2>5. LetsIn(pols, "prometheus", "blackbox", 9115)
    BY <2>2 DEF Guards
  <2>6. ASSUME NEW h, NEW port, <<h, port>> \in Probed PROVE LetsOut(pols, "blackbox", h, port)
    <3>1. <<h, port>> \in {Any} \cup Probed
      BY <2>6
    <3>2. \A peer, q : <<peer, q>> \in {Any} \cup Probed => LetsOut(pols, "blackbox", peer, q)
      BY <2>2 DEF Guards
    <3> QED BY <3>1, <3>2
  <2> QED BY <2>4, <2>5, <2>6
<1>2. ASSUME n = "prometheus_restricted"
      PROVE  /\ LetsOut(pols, "prometheus", "kube-dns", 53)
             /\ LetsOut(pols, "prometheus", "blackbox", 9115)
  <2>1. Grants(pols[n], "prometheus", {}, {Any, <<"blackbox", 9115>>})
    BY <1>2 DEF Keeps
  <2>2. Guards(pols, "prometheus", {}, {Any, <<"blackbox", 9115>>})
    BY <2>1, GrantedGuards
  <2>3. LetsOut(pols, "prometheus", "any", 53)
    BY <2>2 DEF Guards, Any
  <2> QED BY <2>2, <2>3, AnyLets DEF Guards
<1>3. ASSUME n = "alertmanager_restricted"
      PROVE  /\ LetsIn(pols, "prometheus", "alertmanager", 9093)
             /\ LetsOut(pols, "alertmanager", "kube-dns", 53)
             /\ LetsOut(pols, "alertmanager", "slack", 443)
  <2>1. Grants(pols[n], "alertmanager", {<<"prometheus", 9093>>}, {Any, <<"slack", 443>>})
    BY <1>3 DEF Keeps
  <2>2. Guards(pols, "alertmanager", {<<"prometheus", 9093>>}, {Any, <<"slack", 443>>})
    BY <2>1, GrantedGuards
  <2>3. LetsOut(pols, "alertmanager", "any", 53)
    BY <2>2 DEF Guards, Any
  <2> QED BY <2>2, <2>3, AnyLets DEF Guards
<1>4. ASSUME n = "prometheus_alertmanager_egress"
      PROVE  LetsOut(pols, "prometheus", "alertmanager", 9093)
  <2>1. Grants(pols[n], "prometheus", {}, {<<"alertmanager", 9093>>})
    BY <1>4 DEF Keeps
  <2>2. Guards(pols, "prometheus", {}, {<<"alertmanager", 9093>>})
    BY <2>1, GrantedGuards
  <2> QED BY <2>2 DEF Guards
<1>5. ASSUME n = "loki_restricted"
      PROVE  LetsIn(pols, "grafana", "loki", 3100)
  <2>1. Grants(pols[n], "loki", {<<"grafana", 3100>>}, {})
    BY <1>5 DEF Keeps
  <2>2. Guards(pols, "loki", {<<"grafana", 3100>>}, {})
    BY <2>1, GrantedGuards
  <2> QED BY <2>2 DEF Guards
<1>6. ASSUME n = "grafana_loki_egress"
      PROVE  LetsOut(pols, "grafana", "loki", 3100)
  <2>1. Grants(pols[n], "grafana", {}, {<<"loki", 3100>>})
    BY <1>6 DEF Keeps
  <2>2. Guards(pols, "grafana", {}, {<<"loki", 3100>>})
    BY <2>1, GrantedGuards
  <2> QED BY <2>2 DEF Guards
<1>7. ASSUME n = "gateway_restricted"
      PROVE  /\ LetsIn(pols, "staging", "gateway", 8443)
             /\ LetsOut(pols, "gateway", "loki", 3100)
             /\ LetsOut(pols, "gateway", "kube-dns", 53)
  <2>1. Grants(pols[n], "gateway", {<<"staging", 8443>>}, {<<"loki", 3100>>, Kube})
    BY <1>7 DEF Keeps
  <2>2. Guards(pols, "gateway", {<<"staging", 8443>>}, {<<"loki", 3100>>, Kube})
    BY <2>1, GrantedGuards
  <2> QED BY <2>2 DEF Guards, Kube
<1>8. ASSUME n = "gateway_to_loki"
      PROVE  LetsIn(pols, "gateway", "loki", 3100)
  <2>1. Grants(pols[n], "loki", {<<"gateway", 3100>>}, {})
    BY <1>8 DEF Keeps
  <2>2. Guards(pols, "loki", {<<"gateway", 3100>>}, {})
    BY <2>1, GrantedGuards
  <2> QED BY <2>2 DEF Guards
<1>9. ASSUME n = "portal_ingress"
      PROVE  LetsIn(pols, "tailnet", "portal", 8080)
  <2>1. Grants(pols[n], "portal", {<<"tailnet", 8080>>}, {})
    BY <1>9 DEF Keeps
  <2>2. Guards(pols, "portal", {<<"tailnet", 8080>>}, {})
    BY <2>1, GrantedGuards
  <2> QED BY <2>2 DEF Guards
<1>10. ASSUME n = "grafana_tailnet_ingress"
       PROVE  LetsIn(pols, "tailnet", "grafana", 3000)
  <2>1. Grants(pols[n], "grafana", {<<"tailnet", 3000>>}, {})
    BY <1>10 DEF Keeps
  <2>2. Guards(pols, "grafana", {<<"tailnet", 3000>>}, {})
    BY <2>1, GrantedGuards
  <2> QED BY <2>2 DEF Guards
<1>11. ASSUME n = "negative"
       PROVE  LetsIn(pols, "negative", "blackbox", 9115)
  <2>1. Grants(pols[n], "blackbox", {<<"negative", 9115>>}, {})
    BY <1>11 DEF Keeps
  <2>2. Guards(pols, "blackbox", {<<"negative", 9115>>}, {})
    BY <2>1, GrantedGuards
  <2> QED BY <2>2 DEF Guards
<1>12. ASSUME n = "grafana_restricted"
       PROVE  /\ LetsOut(pols, "grafana", "kube-dns", 53)
              /\ LetsOut(pols, "grafana", "prometheus", 9090)
  <2>1. Grants(pols[n], "grafana", {}, {Any, <<"prometheus", 9090>>})
    BY <1>12 DEF Keeps
  <2>2. Guards(pols, "grafana", {}, {Any, <<"prometheus", 9090>>})
    BY <2>1, GrantedGuards
  <2>3. LetsOut(pols, "grafana", "any", 53)
    BY <2>2 DEF Guards, Any
  <2> QED BY <2>2, <2>3, AnyLets DEF Guards
<1>13. ASSUME n = "prometheus_grafana_ingress"
       PROVE  LetsIn(pols, "grafana", "prometheus", 9090)
  <2>1. Grants(pols[n], "prometheus", {<<"grafana", 9090>>}, {})
    BY <1>13 DEF Keeps
  <2>2. Guards(pols, "prometheus", {<<"grafana", 9090>>}, {})
    BY <2>1, GrantedGuards
  <2> QED BY <2>2 DEF Guards
<1>14. ASSUME n = "snmp_restricted"
       PROVE  /\ LetsIn(pols, "prometheus", "snmp", 9116)
              /\ LetsOut(pols, "snmp", "nas", 161)
  <2>1. Grants(pols[n], "snmp", {<<"prometheus", 9116>>}, {<<"nas", 161>>})
    BY <1>14 DEF Keeps
  <2>2. Guards(pols, "snmp", {<<"prometheus", 9116>>}, {<<"nas", 161>>})
    BY <2>1, GrantedGuards
  <2> QED BY <2>2 DEF Guards
<1>15. ASSUME n = "nas_prometheus_egress"
       PROVE  LetsOut(pols, "prometheus", "snmp", 9116)
  <2>1. Grants(pols[n], "prometheus", {}, {<<"snmp", 9116>>})
    BY <1>15 DEF Keeps
  <2>2. Guards(pols, "prometheus", {}, {<<"snmp", 9116>>})
    BY <2>1, GrantedGuards
  <2> QED BY <2>2 DEF Guards
<1>16. ASSUME n = "syslog_restricted"
       PROVE  /\ LetsIn(pols, "nas", "syslog", 1514)
              /\ LetsIn(pols, "prometheus", "syslog", 12345)
              /\ LetsOut(pols, "syslog", "loki", 3100)
              /\ LetsOut(pols, "syslog", "kube-dns", 53)
  <2>1. Grants(pols[n], "syslog", {<<"nas", 1514>>, <<"prometheus", 12345>>}, {<<"loki", 3100>>, Kube})
    BY <1>16 DEF Keeps
  <2>2. Guards(pols, "syslog", {<<"nas", 1514>>, <<"prometheus", 12345>>}, {<<"loki", 3100>>, Kube})
    BY <2>1, GrantedGuards
  <2> QED BY <2>2 DEF Guards, Kube
<1>17. ASSUME n = "nas_loki_ingress"
       PROVE  LetsIn(pols, "syslog", "loki", 3100)
  <2>1. Grants(pols[n], "loki", {<<"syslog", 3100>>}, {})
    BY <1>17 DEF Keeps
  <2>2. Guards(pols, "loki", {<<"syslog", 3100>>}, {})
    BY <2>1, GrantedGuards
  <2> QED BY <2>2 DEF Guards
<1>18. ASSUME n = "nfs_restricted"
       PROVE  /\ LetsIn(pols, "prometheus", "nfs", 9189)
              /\ LetsOut(pols, "nfs", "nas", 22)
  <2>1. Grants(pols[n], "nfs", {<<"prometheus", 9189>>}, {<<"nas", 22>>})
    BY <1>18 DEF Keeps
  <2>2. Guards(pols, "nfs", {<<"prometheus", 9189>>}, {<<"nas", 22>>})
    BY <2>1, GrantedGuards
  <2> QED BY <2>2 DEF Guards
<1>19. ASSUME n = "nfs_prometheus_egress"
       PROVE  LetsOut(pols, "prometheus", "nfs", 9189)
  <2>1. Grants(pols[n], "prometheus", {}, {<<"nfs", 9189>>})
    BY <1>19 DEF Keeps
  <2>2. Guards(pols, "prometheus", {}, {<<"nfs", 9189>>})
    BY <2>1, GrantedGuards
  <2> QED BY <2>2 DEF Guards
<1>20. ASSUME n = "files_restricted"
       PROVE  /\ LetsIn(pols, "prometheus", "files", 9188)
              /\ LetsOut(pols, "files", "nas", 22)
              /\ LetsOut(pols, "files", "loki", 3100)
              /\ LetsOut(pols, "files", "kube-dns", 53)
  <2>1. Grants(pols[n], "files", {<<"prometheus", 9188>>}, {<<"nas", 22>>, <<"loki", 3100>>, Kube})
    BY <1>20 DEF Keeps
  <2>2. Guards(pols, "files", {<<"prometheus", 9188>>}, {<<"nas", 22>>, <<"loki", 3100>>, Kube})
    BY <2>1, GrantedGuards
  <2> QED BY <2>2 DEF Guards, Kube
<1>21. ASSUME n = "files_prometheus_egress"
       PROVE  LetsOut(pols, "prometheus", "files", 9188)
  <2>1. Grants(pols[n], "prometheus", {}, {<<"files", 9188>>})
    BY <1>21 DEF Keeps
  <2>2. Guards(pols, "prometheus", {}, {<<"files", 9188>>})
    BY <2>1, GrantedGuards
  <2> QED BY <2>2 DEF Guards
<1>22. ASSUME n = "files_loki_ingress"
       PROVE  LetsIn(pols, "files", "loki", 3100)
  <2>1. Grants(pols[n], "loki", {<<"files", 3100>>}, {})
    BY <1>22 DEF Keeps
  <2>2. Guards(pols, "loki", {<<"files", 3100>>}, {})
    BY <2>1, GrantedGuards
  <2> QED BY <2>2 DEF Guards
<1>23. ASSUME n = "grafana_slack_egress"
       PROVE  LetsOut(pols, "grafana", "slack", 443)
  <2>1. Grants(pols[n], "grafana", {}, {<<"slack", 443>>})
    BY <1>23 DEF Keeps
  <2>2. Guards(pols, "grafana", {}, {<<"slack", 443>>})
    BY <2>1, GrantedGuards
  <2> QED BY <2>2 DEF Guards
<1> QED BY <1>1, <1>2, <1>3, <1>4, <1>5, <1>6, <1>7, <1>8, <1>9, <1>10, <1>11, <1>12,
          <1>13, <1>14, <1>15, <1>16, <1>17, <1>18, <1>19, <1>20, <1>21, <1>22, <1>23

\* What the policies that come with a Deployment let through.
LEMMA DeployedLets ==
    ASSUME NEW o, Wired(o), NEW pols, pols = o.pols
    PROVE  /\ "blackbox" \in DOMAIN o.deps =>
                  /\ LetsIn(pols, "prometheus", "blackbox", 9115)
                  /\ LetsOut(pols, "blackbox", "kube-dns", 53)
                  /\ \A h, port : <<h, port>> \in Probed => LetsOut(pols, "blackbox", h, port)
           /\ "prometheus" \in DOMAIN o.deps =>
                  /\ LetsOut(pols, "prometheus", "kube-dns", 53)
                  /\ LetsOut(pols, "prometheus", "blackbox", 9115)
           /\ "alertmanager" \in DOMAIN o.deps =>
                  /\ LetsIn(pols, "prometheus", "alertmanager", 9093)
                  /\ LetsOut(pols, "alertmanager", "kube-dns", 53)
                  /\ LetsOut(pols, "alertmanager", "slack", 443)
                  /\ LetsOut(pols, "prometheus", "alertmanager", 9093)
           /\ "loki" \in DOMAIN o.deps =>
                  /\ LetsIn(pols, "grafana", "loki", 3100)
                  /\ LetsOut(pols, "grafana", "loki", 3100)
           /\ "gateway" \in DOMAIN o.deps =>
                  /\ LetsIn(pols, "staging", "gateway", 8443)
                  /\ LetsOut(pols, "gateway", "loki", 3100)
                  /\ LetsOut(pols, "gateway", "kube-dns", 53)
                  /\ LetsIn(pols, "gateway", "loki", 3100)
           /\ "portal" \in DOMAIN o.deps =>
                  /\ LetsIn(pols, "tailnet", "portal", 8080)
                  /\ LetsIn(pols, "tailnet", "grafana", 3000)
           /\ "negative" \in DOMAIN o.deps =>
                  /\ LetsIn(pols, "negative", "blackbox", 9115)
           /\ "grafana" \in DOMAIN o.deps =>
                  /\ LetsOut(pols, "grafana", "kube-dns", 53)
                  /\ LetsOut(pols, "grafana", "prometheus", 9090)
                  /\ LetsIn(pols, "grafana", "prometheus", 9090)
           /\ "snmp" \in DOMAIN o.deps =>
                  /\ LetsIn(pols, "prometheus", "snmp", 9116)
                  /\ LetsOut(pols, "snmp", "nas", 161)
                  /\ LetsOut(pols, "prometheus", "snmp", 9116)
           /\ "syslog" \in DOMAIN o.deps =>
                  /\ LetsIn(pols, "nas", "syslog", 1514)
                  /\ LetsIn(pols, "prometheus", "syslog", 12345)
                  /\ LetsOut(pols, "syslog", "loki", 3100)
                  /\ LetsOut(pols, "syslog", "kube-dns", 53)
                  /\ LetsIn(pols, "syslog", "loki", 3100)
           /\ "nfs" \in DOMAIN o.deps =>
                  /\ LetsIn(pols, "prometheus", "nfs", 9189)
                  /\ LetsOut(pols, "nfs", "nas", 22)
                  /\ LetsOut(pols, "prometheus", "nfs", 9189)
           /\ "files" \in DOMAIN o.deps =>
                  /\ LetsIn(pols, "prometheus", "files", 9188)
                  /\ LetsOut(pols, "files", "nas", 22)
                  /\ LetsOut(pols, "files", "loki", 3100)
                  /\ LetsOut(pols, "files", "kube-dns", 53)
                  /\ LetsOut(pols, "prometheus", "files", 9188)
                  /\ LetsIn(pols, "files", "loki", 3100)
<1>1. \A n \in DOMAIN pols : Keeps(n, pols[n])
  BY DEF Wired, Lines
<1>2. \A d \in DOMAIN o.deps : PoliciesOf(d) \subseteq DOMAIN pols
  BY DEF Wired, Guarded
<1>3. "blackbox" \in DOMAIN o.deps => {"blackbox_restricted"} \subseteq DOMAIN pols
  BY <1>2, PolicyNames
<1>4. "prometheus" \in DOMAIN o.deps => {"prometheus_restricted"} \subseteq DOMAIN pols
  BY <1>2, PolicyNames
<1>5. "alertmanager" \in DOMAIN o.deps => {"alertmanager_restricted", "prometheus_alertmanager_egress"} \subseteq DOMAIN pols
  BY <1>2, PolicyNames
<1>6. "loki" \in DOMAIN o.deps => {"loki_restricted", "grafana_loki_egress"} \subseteq DOMAIN pols
  BY <1>2, PolicyNames
<1>7. "gateway" \in DOMAIN o.deps => {"gateway_restricted", "gateway_to_loki"} \subseteq DOMAIN pols
  BY <1>2, PolicyNames
<1>8. "portal" \in DOMAIN o.deps => {"portal_ingress", "grafana_tailnet_ingress"} \subseteq DOMAIN pols
  BY <1>2, PolicyNames
<1>9. "negative" \in DOMAIN o.deps => {"negative"} \subseteq DOMAIN pols
  BY <1>2, PolicyNames
<1>10. "grafana" \in DOMAIN o.deps => {"grafana_restricted", "prometheus_grafana_ingress"} \subseteq DOMAIN pols
  BY <1>2, PolicyNames
<1>11. "snmp" \in DOMAIN o.deps => {"snmp_restricted", "nas_prometheus_egress"} \subseteq DOMAIN pols
  BY <1>2, PolicyNames
<1>12. "syslog" \in DOMAIN o.deps => {"syslog_restricted", "nas_loki_ingress"} \subseteq DOMAIN pols
  BY <1>2, PolicyNames
<1>13. "nfs" \in DOMAIN o.deps => {"nfs_restricted", "nfs_prometheus_egress"} \subseteq DOMAIN pols
  BY <1>2, PolicyNames
<1>14. "files" \in DOMAIN o.deps => {"files_restricted", "files_prometheus_egress", "files_loki_ingress"} \subseteq DOMAIN pols
  BY <1>2, PolicyNames
<1>15. ASSUME "blackbox" \in DOMAIN o.deps
       PROVE  /\ LetsIn(pols, "prometheus", "blackbox", 9115)
              /\ LetsOut(pols, "blackbox", "kube-dns", 53)
              /\ \A h, port : <<h, port>> \in Probed => LetsOut(pols, "blackbox", h, port)
  BY <1>1, <1>3, <1>15, KeptLets
<1>16. ASSUME "prometheus" \in DOMAIN o.deps
       PROVE  /\ LetsOut(pols, "prometheus", "kube-dns", 53)
              /\ LetsOut(pols, "prometheus", "blackbox", 9115)
  BY <1>1, <1>4, <1>16, KeptLets
<1>17. ASSUME "alertmanager" \in DOMAIN o.deps
       PROVE  /\ LetsIn(pols, "prometheus", "alertmanager", 9093)
              /\ LetsOut(pols, "alertmanager", "kube-dns", 53)
              /\ LetsOut(pols, "alertmanager", "slack", 443)
              /\ LetsOut(pols, "prometheus", "alertmanager", 9093)
  BY <1>1, <1>5, <1>17, KeptLets
<1>18. ASSUME "loki" \in DOMAIN o.deps
       PROVE  /\ LetsIn(pols, "grafana", "loki", 3100)
              /\ LetsOut(pols, "grafana", "loki", 3100)
  BY <1>1, <1>6, <1>18, KeptLets
<1>19. ASSUME "gateway" \in DOMAIN o.deps
       PROVE  /\ LetsIn(pols, "staging", "gateway", 8443)
              /\ LetsOut(pols, "gateway", "loki", 3100)
              /\ LetsOut(pols, "gateway", "kube-dns", 53)
              /\ LetsIn(pols, "gateway", "loki", 3100)
  BY <1>1, <1>7, <1>19, KeptLets
<1>20. ASSUME "portal" \in DOMAIN o.deps
       PROVE  /\ LetsIn(pols, "tailnet", "portal", 8080)
              /\ LetsIn(pols, "tailnet", "grafana", 3000)
  BY <1>1, <1>8, <1>20, KeptLets
<1>21. ASSUME "negative" \in DOMAIN o.deps
       PROVE  LetsIn(pols, "negative", "blackbox", 9115)
  BY <1>1, <1>9, <1>21, KeptLets
<1>22. ASSUME "grafana" \in DOMAIN o.deps
       PROVE  /\ LetsOut(pols, "grafana", "kube-dns", 53)
              /\ LetsOut(pols, "grafana", "prometheus", 9090)
              /\ LetsIn(pols, "grafana", "prometheus", 9090)
  BY <1>1, <1>10, <1>22, KeptLets
<1>23. ASSUME "snmp" \in DOMAIN o.deps
       PROVE  /\ LetsIn(pols, "prometheus", "snmp", 9116)
              /\ LetsOut(pols, "snmp", "nas", 161)
              /\ LetsOut(pols, "prometheus", "snmp", 9116)
  BY <1>1, <1>11, <1>23, KeptLets
<1>24. ASSUME "syslog" \in DOMAIN o.deps
       PROVE  /\ LetsIn(pols, "nas", "syslog", 1514)
              /\ LetsIn(pols, "prometheus", "syslog", 12345)
              /\ LetsOut(pols, "syslog", "loki", 3100)
              /\ LetsOut(pols, "syslog", "kube-dns", 53)
              /\ LetsIn(pols, "syslog", "loki", 3100)
  BY <1>1, <1>12, <1>24, KeptLets
<1>25. ASSUME "nfs" \in DOMAIN o.deps
       PROVE  /\ LetsIn(pols, "prometheus", "nfs", 9189)
              /\ LetsOut(pols, "nfs", "nas", 22)
              /\ LetsOut(pols, "prometheus", "nfs", 9189)
  BY <1>1, <1>13, <1>25, KeptLets
<1>26. ASSUME "files" \in DOMAIN o.deps
       PROVE  /\ LetsIn(pols, "prometheus", "files", 9188)
              /\ LetsOut(pols, "files", "nas", 22)
              /\ LetsOut(pols, "files", "loki", 3100)
              /\ LetsOut(pols, "files", "kube-dns", 53)
              /\ LetsOut(pols, "prometheus", "files", 9188)
              /\ LetsIn(pols, "files", "loki", 3100)
  BY <1>1, <1>14, <1>26, KeptLets
<1> QED BY <1>15, <1>16, <1>17, <1>18, <1>19, <1>20, <1>21, <1>22, <1>23, <1>24, <1>25, <1>26

\* The Pods there are among the ends of a connection.
There(o, x) == x \in MonitoringStack!PodNames => x \in DOMAIN o.deps

\* No policy stands before what is outside the namespace, nor before the acceptance Pod.
LEMMA OtherEnds ==
    ASSUME NEW o, Wired(o), NEW x \in {"staging", "tailnet", "nas", "slack", "kube-dns", "negative"}
    PROVE  \A y, port : LetsOut(o.pols, x, y, port) /\ LetsIn(o.pols, y, x, port)
<1>1. x \notin Selected
  BY DEF Selected
<1> QED BY <1>1, UnselectedLets DEF Wired, Lines

\* What a Deployment itself opens or is opened to.
LEMMA TemplateLets ==
    ASSUME NEW o, Wired(o), NEW d \in DOMAIN o.deps, NEW f \in TemplateCalls(d)
    PROVE  Lets(o.pols, f[1], f[2], f[3])
<1>1. \/ d = "gateway" /\ f = <<"staging", "gateway", 8443>>
      \/ d = "portal" /\ f = <<"tailnet", "portal", 8080>>
      \/ d = "portal" /\ f = <<"tailnet", "grafana", 3000>>
      \/ d = "syslog" /\ f = <<"nas", "syslog", 1514>>
      \/ d = "nfs" /\ f = <<"nfs", "nas", 22>>
      \/ d = "files" /\ f = <<"files", "nas", 22>>
  BY DEF TemplateCalls
<1>2. CASE d = "gateway" /\ f = <<"staging", "gateway", 8443>>
  <2>1. LetsIn(o.pols, "staging", "gateway", 8443)
    BY <1>2, DeployedLets
  <2>2. LetsOut(o.pols, "staging", "gateway", 8443)
    BY OtherEnds
  <2> QED BY <1>2, <2>1, <2>2 DEF Lets
<1>3. CASE d = "portal" /\ f = <<"tailnet", "portal", 8080>>
  <2>1. LetsIn(o.pols, "tailnet", "portal", 8080)
    BY <1>3, DeployedLets
  <2>2. LetsOut(o.pols, "tailnet", "portal", 8080)
    BY OtherEnds
  <2> QED BY <1>3, <2>1, <2>2 DEF Lets
<1>4. CASE d = "portal" /\ f = <<"tailnet", "grafana", 3000>>
  <2>1. LetsIn(o.pols, "tailnet", "grafana", 3000)
    BY <1>4, DeployedLets
  <2>2. LetsOut(o.pols, "tailnet", "grafana", 3000)
    BY OtherEnds
  <2> QED BY <1>4, <2>1, <2>2 DEF Lets
<1>5. CASE d = "syslog" /\ f = <<"nas", "syslog", 1514>>
  <2>1. LetsIn(o.pols, "nas", "syslog", 1514)
    BY <1>5, DeployedLets
  <2>2. LetsOut(o.pols, "nas", "syslog", 1514)
    BY OtherEnds
  <2> QED BY <1>5, <2>1, <2>2 DEF Lets
<1>6. CASE d = "nfs" /\ f = <<"nfs", "nas", 22>>
  <2>1. LetsOut(o.pols, "nfs", "nas", 22)
    BY <1>6, DeployedLets
  <2>2. LetsIn(o.pols, "nfs", "nas", 22)
    BY OtherEnds
  <2> QED BY <1>6, <2>1, <2>2 DEF Lets
<1>7. CASE d = "files" /\ f = <<"files", "nas", 22>>
  <2>1. LetsOut(o.pols, "files", "nas", 22)
    BY <1>7, DeployedLets
  <2>2. LetsIn(o.pols, "files", "nas", 22)
    BY OtherEnds
  <2> QED BY <1>7, <2>1, <2>2 DEF Lets
<1> QED BY <1>1, <1>2, <1>3, <1>4, <1>5, <1>6, <1>7

\* What the text of a ConfigMap opens passes, if its ends are there.
LEMMA TextLets ==
    ASSUME NEW o, Wired(o), NEW c, NEW f \in TextCalls(c, DOMAIN o.pols), There(o, f[1]), There(o, f[2])
    PROVE  Lets(o.pols, f[1], f[2], f[3])
<1>1. \/ f = <<"alertmanager", "slack", 443>> \/ f = <<"alertmanager", "kube-dns", 53>>
      \/ f = <<"gateway", "loki", 3100>> \/ f = <<"gateway", "kube-dns", 53>>
      \/ f = <<"negative", "blackbox", 9115>> \/ f = <<"negative", "kube-dns", 53>>
      \/ f = <<"syslog", "loki", 3100>> \/ f = <<"syslog", "kube-dns", 53>>
      \/ f = <<"files", "loki", 3100>> \/ f = <<"files", "kube-dns", 53>>
      \/ f = <<"grafana", "prometheus", 9090>> \/ f = <<"grafana", "loki", 3100>>
      \/ f = <<"grafana", "kube-dns", 53>>
      \/ f = <<"grafana", "slack", 443>> /\ "grafana_slack_egress" \in DOMAIN o.pols
  BY DEF TextCalls, SlackCall
<1>2. CASE f = <<"alertmanager", "slack", 443>>
  <2>1. "alertmanager" \in DOMAIN o.deps
    BY <1>2 DEF There, MonitoringStack!PodNames
  <2>2. LetsOut(o.pols, "alertmanager", "slack", 443)
    BY <2>1, DeployedLets
  <2>3. LetsIn(o.pols, "alertmanager", "slack", 443)
    BY OtherEnds
  <2> QED BY <1>2, <2>2, <2>3 DEF Lets
<1>3. CASE f = <<"alertmanager", "kube-dns", 53>>
  <2>1. "alertmanager" \in DOMAIN o.deps
    BY <1>3 DEF There, MonitoringStack!PodNames
  <2>2. LetsOut(o.pols, "alertmanager", "kube-dns", 53)
    BY <2>1, DeployedLets
  <2>3. LetsIn(o.pols, "alertmanager", "kube-dns", 53)
    BY OtherEnds
  <2> QED BY <1>3, <2>2, <2>3 DEF Lets
<1>4. CASE f = <<"gateway", "loki", 3100>>
  <2>1. "gateway" \in DOMAIN o.deps
    BY <1>4 DEF There, MonitoringStack!PodNames
  <2>2. LetsOut(o.pols, "gateway", "loki", 3100)
    BY <2>1, DeployedLets
  <2>3. LetsIn(o.pols, "gateway", "loki", 3100)
    BY <2>1, DeployedLets
  <2> QED BY <1>4, <2>2, <2>3 DEF Lets
<1>5. CASE f = <<"gateway", "kube-dns", 53>>
  <2>1. "gateway" \in DOMAIN o.deps
    BY <1>5 DEF There, MonitoringStack!PodNames
  <2>2. LetsOut(o.pols, "gateway", "kube-dns", 53)
    BY <2>1, DeployedLets
  <2>3. LetsIn(o.pols, "gateway", "kube-dns", 53)
    BY OtherEnds
  <2> QED BY <1>5, <2>2, <2>3 DEF Lets
<1>6. CASE f = <<"negative", "blackbox", 9115>>
  <2>1. "negative" \in DOMAIN o.deps
    BY <1>6 DEF There, MonitoringStack!PodNames
  <2>2. LetsOut(o.pols, "negative", "blackbox", 9115)
    BY OtherEnds
  <2>3. LetsIn(o.pols, "negative", "blackbox", 9115)
    BY <2>1, DeployedLets
  <2> QED BY <1>6, <2>2, <2>3 DEF Lets
<1>7. CASE f = <<"negative", "kube-dns", 53>>
  <2>1. LetsOut(o.pols, "negative", "kube-dns", 53)
    BY OtherEnds
  <2>2. LetsIn(o.pols, "negative", "kube-dns", 53)
    BY OtherEnds
  <2> QED BY <1>7, <2>1, <2>2 DEF Lets
<1>8. CASE f = <<"syslog", "loki", 3100>>
  <2>1. "syslog" \in DOMAIN o.deps
    BY <1>8 DEF There, MonitoringStack!PodNames
  <2>2. LetsOut(o.pols, "syslog", "loki", 3100)
    BY <2>1, DeployedLets
  <2>3. LetsIn(o.pols, "syslog", "loki", 3100)
    BY <2>1, DeployedLets
  <2> QED BY <1>8, <2>2, <2>3 DEF Lets
<1>9. CASE f = <<"syslog", "kube-dns", 53>>
  <2>1. "syslog" \in DOMAIN o.deps
    BY <1>9 DEF There, MonitoringStack!PodNames
  <2>2. LetsOut(o.pols, "syslog", "kube-dns", 53)
    BY <2>1, DeployedLets
  <2>3. LetsIn(o.pols, "syslog", "kube-dns", 53)
    BY OtherEnds
  <2> QED BY <1>9, <2>2, <2>3 DEF Lets
<1>10. CASE f = <<"files", "loki", 3100>>
  <2>1. "files" \in DOMAIN o.deps
    BY <1>10 DEF There, MonitoringStack!PodNames
  <2>2. LetsOut(o.pols, "files", "loki", 3100)
    BY <2>1, DeployedLets
  <2>3. LetsIn(o.pols, "files", "loki", 3100)
    BY <2>1, DeployedLets
  <2> QED BY <1>10, <2>2, <2>3 DEF Lets
<1>11. CASE f = <<"files", "kube-dns", 53>>
  <2>1. "files" \in DOMAIN o.deps
    BY <1>11 DEF There, MonitoringStack!PodNames
  <2>2. LetsOut(o.pols, "files", "kube-dns", 53)
    BY <2>1, DeployedLets
  <2>3. LetsIn(o.pols, "files", "kube-dns", 53)
    BY OtherEnds
  <2> QED BY <1>11, <2>2, <2>3 DEF Lets
<1>12. CASE f = <<"grafana", "prometheus", 9090>>
  <2>1. "grafana" \in DOMAIN o.deps
    BY <1>12 DEF There, MonitoringStack!PodNames
  <2>2. LetsOut(o.pols, "grafana", "prometheus", 9090)
    BY <2>1, DeployedLets
  <2>3. LetsIn(o.pols, "grafana", "prometheus", 9090)
    BY <2>1, DeployedLets
  <2> QED BY <1>12, <2>2, <2>3 DEF Lets
<1>13. CASE f = <<"grafana", "loki", 3100>>
  <2>1. "loki" \in DOMAIN o.deps
    BY <1>13 DEF There, MonitoringStack!PodNames
  <2>2. LetsOut(o.pols, "grafana", "loki", 3100)
    BY <2>1, DeployedLets
  <2>3. LetsIn(o.pols, "grafana", "loki", 3100)
    BY <2>1, DeployedLets
  <2> QED BY <1>13, <2>2, <2>3 DEF Lets
<1>14. CASE f = <<"grafana", "kube-dns", 53>>
  <2>1. "grafana" \in DOMAIN o.deps
    BY <1>14 DEF There, MonitoringStack!PodNames
  <2>2. LetsOut(o.pols, "grafana", "kube-dns", 53)
    BY <2>1, DeployedLets
  <2>3. LetsIn(o.pols, "grafana", "kube-dns", 53)
    BY OtherEnds
  <2> QED BY <1>14, <2>2, <2>3 DEF Lets
<1>15. CASE f = <<"grafana", "slack", 443>> /\ "grafana_slack_egress" \in DOMAIN o.pols
  <2>1. \A n \in DOMAIN o.pols : Keeps(n, o.pols[n])
    BY DEF Wired, Lines
  <2>2. LetsOut(o.pols, "grafana", "slack", 443)
    BY <1>15, <2>1, KeptLets
  <2>3. LetsIn(o.pols, "grafana", "slack", 443)
    BY OtherEnds
  <2> QED BY <1>15, <2>2, <2>3 DEF Lets
<1> QED BY <1>1, <1>2, <1>3, <1>4, <1>5, <1>6, <1>7, <1>8, <1>9, <1>10, <1>11, <1>12, <1>13, <1>14, <1>15

\* syslog_resources opens Prometheus to the collector in the policy of another
\* opt-in, which therefore has to be there.
LEMMA SyslogLets ==
    ASSUME NEW o, Wired(o), "syslog" \in DOMAIN o.deps
    PROVE  LetsOut(o.pols, "prometheus", "syslog", 12345)
<1> DEFINE pols == o.pols
           n == "nas_prometheus_egress"
<1>1. n \in DOMAIN pols /\ <<"syslog", 12345>> \in pols[n].egress
  BY DEF Wired, Guarded, SyslogScraped, PoliciesOf
<1>2. Keeps(n, pols[n])
  BY <1>1 DEF Wired, Lines
<1>3. Grants(pols[n], "prometheus", {}, {<<"snmp", 9116>>})
  BY <1>2 DEF Keeps
<1>4. pols[n].pod = "prometheus" /\ "Egress" \in pols[n].types
  BY <1>3 DEF Grants
<1> HIDE DEF pols, n
<1>5. LetsOut(pols, "prometheus", "syslog", 12345)
  BY <1>1, <1>4 DEF LetsOut, MonitoringStack!Allows
<1> QED BY <1>5 DEF pols

\* What the configuration of Prometheus opens passes, if its ends are there.
LEMMA LicensedLets ==
    ASSUME NEW o, Wired(o), "prometheus" \in DOMAIN o.cms, NEW f \in o.cms["prometheus"].config.calls,
           There(o, f[1]), There(o, f[2])
    PROVE  Lets(o.pols, f[1], f[2], f[3])
<1> DEFINE out == o.pols["prometheus_restricted"].egress
<1>1. \/ f \in PrometheusCalls
      \/ f[1] = "blackbox" /\ f[2] \notin MonitoringStack!PodNames /\ <<f[2], f[3]>> \in Probed
      \/ f[1] = "prometheus" /\ f[2] \notin MonitoringStack!PodNames /\ <<f[2], f[3]>> \in out
  BY DEF Wired, Scrapes, Licensed
<1>2. CASE f = <<"prometheus", "blackbox", 9115>>
  <2>1. "blackbox" \in DOMAIN o.deps /\ "prometheus" \in DOMAIN o.deps
    BY <1>2 DEF There, MonitoringStack!PodNames
  <2>2. LetsOut(o.pols, "prometheus", "blackbox", 9115)
    BY <2>1, DeployedLets
  <2>3. LetsIn(o.pols, "prometheus", "blackbox", 9115)
    BY <2>1, DeployedLets
  <2> QED BY <1>2, <2>2, <2>3 DEF Lets
<1>3. CASE f = <<"prometheus", "kube-dns", 53>>
  <2>1. "prometheus" \in DOMAIN o.deps
    BY <1>3 DEF There, MonitoringStack!PodNames
  <2>2. LetsOut(o.pols, "prometheus", "kube-dns", 53)
    BY <2>1, DeployedLets
  <2>3. LetsIn(o.pols, "prometheus", "kube-dns", 53)
    BY OtherEnds
  <2> QED BY <1>3, <2>2, <2>3 DEF Lets
<1>4. CASE f = <<"blackbox", "kube-dns", 53>>
  <2>1. "blackbox" \in DOMAIN o.deps
    BY <1>4 DEF There, MonitoringStack!PodNames
  <2>2. LetsOut(o.pols, "blackbox", "kube-dns", 53)
    BY <2>1, DeployedLets
  <2>3. LetsIn(o.pols, "blackbox", "kube-dns", 53)
    BY OtherEnds
  <2> QED BY <1>4, <2>2, <2>3 DEF Lets
<1>5. CASE f = <<"prometheus", "alertmanager", 9093>>
  <2>1. "alertmanager" \in DOMAIN o.deps
    BY <1>5 DEF There, MonitoringStack!PodNames
  <2>2. LetsOut(o.pols, "prometheus", "alertmanager", 9093)
    BY <2>1, DeployedLets
  <2>3. LetsIn(o.pols, "prometheus", "alertmanager", 9093)
    BY <2>1, DeployedLets
  <2> QED BY <1>5, <2>2, <2>3 DEF Lets
<1>6. CASE f = <<"prometheus", "snmp", 9116>>
  <2>1. "snmp" \in DOMAIN o.deps
    BY <1>6 DEF There, MonitoringStack!PodNames
  <2>2. LetsOut(o.pols, "prometheus", "snmp", 9116)
    BY <2>1, DeployedLets
  <2>3. LetsIn(o.pols, "prometheus", "snmp", 9116)
    BY <2>1, DeployedLets
  <2> QED BY <1>6, <2>2, <2>3 DEF Lets
<1>7. CASE f = <<"snmp", "nas", 161>>
  <2>1. "snmp" \in DOMAIN o.deps
    BY <1>7 DEF There, MonitoringStack!PodNames
  <2>2. LetsOut(o.pols, "snmp", "nas", 161)
    BY <2>1, DeployedLets
  <2>3. LetsIn(o.pols, "snmp", "nas", 161)
    BY OtherEnds
  <2> QED BY <1>7, <2>2, <2>3 DEF Lets
<1>8. CASE f = <<"prometheus", "syslog", 12345>>
  <2>1. "syslog" \in DOMAIN o.deps
    BY <1>8 DEF There, MonitoringStack!PodNames
  <2>2. LetsOut(o.pols, "prometheus", "syslog", 12345)
    BY <2>1, SyslogLets
  <2>3. LetsIn(o.pols, "prometheus", "syslog", 12345)
    BY <2>1, DeployedLets
  <2> QED BY <1>8, <2>2, <2>3 DEF Lets
<1>9. CASE f = <<"prometheus", "nfs", 9189>>
  <2>1. "nfs" \in DOMAIN o.deps
    BY <1>9 DEF There, MonitoringStack!PodNames
  <2>2. LetsOut(o.pols, "prometheus", "nfs", 9189)
    BY <2>1, DeployedLets
  <2>3. LetsIn(o.pols, "prometheus", "nfs", 9189)
    BY <2>1, DeployedLets
  <2> QED BY <1>9, <2>2, <2>3 DEF Lets
<1>10. CASE f = <<"prometheus", "files", 9188>>
  <2>1. "files" \in DOMAIN o.deps
    BY <1>10 DEF There, MonitoringStack!PodNames
  <2>2. LetsOut(o.pols, "prometheus", "files", 9188)
    BY <2>1, DeployedLets
  <2>3. LetsIn(o.pols, "prometheus", "files", 9188)
    BY <2>1, DeployedLets
  <2> QED BY <1>10, <2>2, <2>3 DEF Lets
<1>11. f[2] \notin MonitoringStack!PodNames => LetsIn(o.pols, f[1], f[2], f[3])
  <2>1. Selected \subseteq MonitoringStack!PodNames
    BY DEF Selected, MonitoringStack!PodNames
  <2> QED BY <2>1, UnselectedLets DEF Wired, Lines
<1>12. CASE f[1] = "blackbox" /\ f[2] \notin MonitoringStack!PodNames /\ <<f[2], f[3]>> \in Probed
  <2>1. "blackbox" \in DOMAIN o.deps
    BY <1>12 DEF There, MonitoringStack!PodNames
  <2>2. LetsOut(o.pols, "blackbox", f[2], f[3])
    BY <1>12, <2>1, DeployedLets
  <2> QED BY <1>11, <1>12, <2>2 DEF Lets
<1>13. CASE f[1] = "prometheus" /\ f[2] \notin MonitoringStack!PodNames /\ <<f[2], f[3]>> \in out
  <2> DEFINE pols == o.pols
             n == "prometheus_restricted"
  <2>1. n \in DOMAIN pols /\ <<f[2], f[3]>> \in pols[n].egress
    BY <1>13 DEF Wired, Scrapes
  <2>2. Keeps(n, pols[n])
    BY <2>1 DEF Wired, Lines
  <2>3. Grants(pols[n], "prometheus", {}, {Any, <<"blackbox", 9115>>})
    BY <2>2 DEF Keeps
  <2>4. pols[n].pod = "prometheus" /\ "Egress" \in pols[n].types
    BY <2>3 DEF Grants
  <2> HIDE DEF pols, n
  <2>5. LetsOut(pols, "prometheus", f[2], f[3])
    BY <2>1, <2>4 DEF LetsOut, MonitoringStack!Allows
  <2> QED BY <1>11, <1>13, <2>5 DEF Lets, pols
<1>14. CASE f \in PrometheusCalls
  BY <1>14, <1>2, <1>3, <1>4, <1>5, <1>6, <1>7, <1>8, <1>9, <1>10 DEF PrometheusCalls
<1> QED BY <1>1, <1>12, <1>13, <1>14

\* What a Pod has read opens what the ConfigMap it read opens: the texts that
\* may have changed since are alert rules, which open nothing.
LEMMA PodCalls ==
    ASSUME StackInv, FlowInv, NEW d \in DOMAIN pods, pods[d] # None, NEW x \in DOMAIN pods[d],
           NEW f \in pods[d][x].calls
    PROVE  \/ \E c : f \in TextCalls(c, DOMAIN objects.pols)
           \/ /\ "prometheus" \in DOMAIN objects.cms
              /\ f \in objects.cms["prometheus"].config.calls
<1>1. d \in DOMAIN objects.deps /\ x \in objects.deps[d].mounts
  BY DEF StackInv, StackHolds, PodsRead
<1>2. x[1] # "rules" /\ x # <<"nfs", "alerts">>
  BY DEF FlowInv, Quiet
<1>3. pods[d][x] = objects.cms[x[1]][x[2]]
  BY <1>2 DEF StackInv, StackHolds, PodsRead
<1>4. \A c \in DOMAIN objects.cms : c # "prometheus" =>
          \A k \in DOMAIN objects.cms[c] : objects.cms[c][k].calls \subseteq TextCalls(c, DOMAIN objects.pols)
  BY DEF FlowInv, Wired, Lines, CallsWithin
<1>5. CASE x[1] = d
  <2>1. d \in DOMAIN objects.cms /\ x[2] \in DOMAIN objects.cms[d]
    BY <1>1, <1>5 DEF StackInv, StackHolds, OwnTied, Told
  <2>2. CASE d = "prometheus"
    <3>1. x[2] = "config"
      BY <1>1, <1>5, <2>2 DEF StackInv, StackHolds, OwnTied, Template, RuleMounts
    <3> QED BY <1>3, <1>5, <2>1, <2>2, <3>1
  <2>3. CASE d # "prometheus"
    BY <1>3, <1>4, <1>5, <2>1, <2>3
  <2> QED BY <2>2, <2>3
<1>6. CASE x[1] # d
  <2>1. d = "prometheus" /\ x = <<"files", "alerts">>
    BY <1>1, <1>2, <1>6 DEF StackInv, StackHolds, OwnTied, Template, RuleMounts
  <2>2. "files" \in DOMAIN objects.cms
    BY <1>1, <2>1 DEF StackInv, StackHolds, FilesTied, FilesMounted
  <2>3. "alerts" \in DOMAIN objects.cms["files"]
    BY <2>2 DEF FlowInv, Wired, Lines
  <2> QED BY <1>3, <1>4, <2>1, <2>2, <2>3
<1> QED BY <1>5, <1>6

LEMMA LetOpen ==
    ASSUME NEW f, Lets(objects.pols, f[1], f[2], f[3])
    PROVE  MonitoringStack!Open(f)
<1>1. \A n \in DOMAIN objects.pols : objects.pols[n] \in MonitoringStack!Policies
  BY DEF MonitoringStack!Policies
<1>2. \A p \in MonitoringStack!Policies : \E n \in DOMAIN objects.pols : p = objects.pols[n]
  BY DEF MonitoringStack!Policies
<1>3. \/ \A p \in MonitoringStack!Policies : p.pod = f[1] => "Egress" \notin p.types
      \/ \E p \in MonitoringStack!Policies : p.pod = f[1] /\ "Egress" \in p.types
                                             /\ MonitoringStack!Allows(p.egress, f[2], f[3])
  BY <1>1, <1>2 DEF Lets, LetsOut
<1>4. \/ \A p \in MonitoringStack!Policies : p.pod = f[2] => "Ingress" \notin p.types
      \/ \E p \in MonitoringStack!Policies : p.pod = f[2] /\ "Ingress" \in p.types
                                             /\ MonitoringStack!Allows(p.ingress, f[1], f[3])
  BY <1>1, <1>2 DEF Lets, LetsIn
<1> QED BY <1>3, <1>4 DEF MonitoringStack!Open

\* Every connection is of one of these kinds, and each passes.
LEMMA StackOpen == StackInv /\ FlowInv => MonitoringStack!FlowsOpen
<1> SUFFICES ASSUME StackInv, FlowInv, NEW f \in MonitoringStack!Flows,
                    MonitoringStack!Present(f[1]), MonitoringStack!Present(f[2])
             PROVE  MonitoringStack!Open(f)
  BY DEF MonitoringStack!FlowsOpen
<1>1. Wired(objects)
  BY DEF FlowInv
<1>2. MonitoringStack!Running \subseteq DOMAIN objects.deps
  BY DEF MonitoringStack!Running, StackInv, StackHolds, PodsRead
<1>3. There(objects, f[1]) /\ There(objects, f[2])
  BY <1>2 DEF There, MonitoringStack!Present
<1>4. PICK d \in MonitoringStack!Running :
          f \in (UNION {pods[d][m].calls : m \in DOMAIN pods[d]}) \union objects.deps[d].calls
  BY DEF MonitoringStack!Flows
<1>5. CASE f \in objects.deps[d].calls
  <2>1. d \in DOMAIN objects.deps /\ f \in TemplateCalls(d)
    BY <1>1, <1>2, <1>5 DEF Wired, Lines
  <2> QED BY <1>1, <2>1, TemplateLets, LetOpen
<1>6. CASE f \in UNION {pods[d][m].calls : m \in DOMAIN pods[d]}
  <2>1. PICK m \in DOMAIN pods[d] : f \in pods[d][m].calls
    BY <1>6
  <2>2. d \in DOMAIN pods /\ pods[d] # None
    BY DEF MonitoringStack!Running
  <2>3. \/ \E c : f \in TextCalls(c, DOMAIN objects.pols)
        \/ "prometheus" \in DOMAIN objects.cms /\ f \in objects.cms["prometheus"].config.calls
    BY <2>1, <2>2, PodCalls
  <2>4. Lets(objects.pols, f[1], f[2], f[3])
    BY <1>1, <1>3, <2>3, TextLets, LicensedLets
  <2> QED BY <2>4, LetOpen
<1> QED BY <1>4, <1>5, <1>6

\* The invariant, of the composed specification.
LEMMA StackAlways == Spec => [](Is("MonitoringStack") => StackInv)
<1> DEFINE I == Is("MonitoringStack") => StackInv
<1>1. Init => I
  BY StackInitial DEF Init, Is
<1>2. I /\ [Next]_vars => I'
  <2> SUFFICES ASSUME I, [Next]_vars, Is("MonitoringStack")' PROVE StackInv'
    OBVIOUS
  <2>1. CASE UNCHANGED vars
    BY <2>1, StackStays DEF vars, stackVars, Is
  <2>2. CASE Next
    BY <2>2, StackStep, StackStays DEF Next, Others, Is, stackVars
  <2> QED
    BY <2>1, <2>2
<1> QED
  BY <1>1, <1>2, PTL DEF Spec

\* The renderers, applied in any order and any number of times: no dashboard or
\* rule asks for a series that the scrape job it reads from drops.
THEOREM SeriesAlwaysKept == Spec => []SeriesKept
<1>1. (Is("MonitoringStack") => StackInv) => SeriesKept
  BY StackSeries DEF SeriesKept
<1> QED
  BY <1>1, StackAlways, PTL

\* The renderers: a Pod that runs has read the text that its ConfigMaps hold,
\* because whatever changes that text changes the digest in its template.
THEOREM PodsStayCurrent == Spec => []PodsCurrent
<1>1. (Is("MonitoringStack") => StackInv) => PodsCurrent
  BY StackCurrent DEF PodsCurrent
<1> QED
  BY <1>1, StackAlways, PTL

\* Likewise for the connections.
LEMMA FlowAlways == OneNetwork => (Spec => [](Is("MonitoringStack") => StackInv /\ FlowInv))
<1> SUFFICES ASSUME OneNetwork
             PROVE  Spec => [](Is("MonitoringStack") => StackInv /\ FlowInv)
  OBVIOUS
<1> DEFINE I == Is("MonitoringStack") => StackInv
           J == Is("MonitoringStack") => StackInv /\ FlowInv
<1>1. Init => J
  BY StackInitial, FlowInitial DEF Init, Is
<1>2. J /\ [Next]_vars /\ I' => J'
  <2> SUFFICES ASSUME J, [Next]_vars, I', Is("MonitoringStack")' PROVE FlowInv'
    OBVIOUS
  <2>1. CASE UNCHANGED vars
    BY <2>1, FlowStays DEF vars, stackVars, Is
  <2>2. CASE Next
    BY <2>2, FlowStep, FlowStays DEF Next, Others, Is, stackVars
  <2> QED
    BY <2>1, <2>2
<1>3. Spec => []I
  BY StackAlways
<1> QED
  BY <1>1, <1>2, <1>3, PTL DEF Spec

\* The renderers, applied in any order and any number of times over one another:
\* what the configuration of a running Pod makes it connect to, its NetworkPolicies
\* and those of the other end let through, each opened by another script.  No
\* script compares the site file it renders from with the one the others used,
\* hence the hypothesis that the sites describe one network.
THEOREM FlowsStayOpen == OneNetwork => (Spec => []FlowsOpen)
<1> SUFFICES ASSUME OneNetwork PROVE Spec => []FlowsOpen
  OBVIOUS
<1>1. (Is("MonitoringStack") => StackInv /\ FlowInv) => FlowsOpen
  BY StackOpen DEF FlowsOpen
<1>2. Spec => [](Is("MonitoringStack") => StackInv /\ FlowInv)
  BY FlowAlways
<1> QED
  BY <1>1, <1>2, PTL
=============================================================================
