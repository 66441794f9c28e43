-------------------------- MODULE MonitoringSites --------------------------
(* The site files and the Terraform queries that MonitoringStack is checked *)
(* with: sites with three and four node targets, and one query per set of   *)
(* opt-ins that changes the manifests in its own way.                       *)
EXTENDS Naturals, Sequences

CONSTANT None

Target(n, k, h, p) == [name |-> n, kind |-> k, host |-> h, port |-> p]
Api == Target("api", "dns", "api.stg", 6443)
Node(n) == Target(n, "ipv4", n, 9100)
Cidrs == {[hosts |-> {"api.stg", "n1", "n2", "n3", "n4"}, prefix |-> 24]}

Minimal == [api |-> <<Api>>, tcp |-> <<>>, metrics |-> <<>>, openwrt |-> None,
            prod |-> None, cidrs |-> Cidrs]
Full == [api |-> <<Api>>, tcp |-> <<Target("tcp", "ipv4", "n1", 9100)>>,
         metrics |-> <<Node("n1"), Node("n2"), Node("n3"), Node("n4")>>,
         openwrt |-> Node("router"),
         prod |-> [name |-> "prod", kind |-> "dns", host |-> "prod.name", port |-> 9100,
                   address |-> "prodnode"],
         cidrs |-> Cidrs]
Three == [Full EXCEPT !.metrics = SubSeq(@, 1, 3)]
MCSites == {Full, Three}

Off == [site |-> None, rag |-> FALSE, hosts |-> {}, llm |-> FALSE, attention |-> FALSE,
        prodHost |-> FALSE, nas |-> FALSE, syslog |-> FALSE, security |-> FALSE,
        paused |-> FALSE, nfs |-> FALSE, files |-> FALSE, filter |-> FALSE]
On == [Off EXCEPT !.site = Full]
Nas == [On EXCEPT !.nas = TRUE]
MCQueries ==
    {[Off EXCEPT !.site = Minimal, !.hosts = {"typevt"}],
     [On EXCEPT !.rag = TRUE, !.llm = TRUE, !.attention = TRUE, !.prodHost = TRUE, !.security = TRUE],
     [Nas EXCEPT !.syslog = TRUE, !.nfs = TRUE, !.filter = TRUE],
     [Nas EXCEPT !.nfs = TRUE],
     [Nas EXCEPT !.nfs = TRUE, !.files = TRUE],
     [Off EXCEPT !.nas = TRUE]}
============================================================================
