------------------------------ MODULE K3sTargets ------------------------------
(***************************************************************************)
(* The convergence monitor's two lookups.  pi_k3s_inventory_targets.py     *)
(* walks the groups of the Ansible inventory for the control node and the  *)
(* agents and turns each into an SSH target; a group may contain a group   *)
(* twice, or itself.  pi_k3s_remediation.py picks the document for a       *)
(* status result.  The recursion of group_hosts, with its shared set of    *)
(* seen groups, is the stack of groups still to visit.                     *)
(***************************************************************************)
EXTENDS Naturals, SequencesExt

CONSTANTS
    Queries,        \* what is asked: load (load_inventory's reason), groups (hosts and children,
                    \* in order), hostvars, result, mappings
    ControlGroup, AgentGroup,
    HostTexts,      \* the texts VALUE_RE accepts
    None

VARIABLES query, walk, found, answer
\* walk: the group list being made and the groups still to visit; found: the
\* host lists made; answer: of resolve_inventory and resolve_remediation

vars == <<query, walk, found, answer>>

Init ==
    /\ query \in Queries
    /\ walk = [for |-> ControlGroup, stack |-> <<ControlGroup>>, seen |-> {}, hosts |-> <<>>]
    /\ found = <<>>
    /\ answer = [inventory |-> [status |-> "walking"], remediation |-> [status |-> "walking"]]

Walking == answer.inventory.status = "walking"

Unique(seq) ==
    LET kept[n \in 0 .. Len(seq)] ==
            IF n = 0 THEN <<>>
            ELSE IF seq[n] \in Range(kept[n - 1]) THEN kept[n - 1] ELSE Append(kept[n - 1], seq[n])
    IN kept[Len(seq)]

-----------------------------------------------------------------------------
(* group_hosts                                                             *)

Known(group) == group \in DOMAIN query.groups

Visit ==
    LET group == Head(walk.stack)
        rest == Tail(walk.stack)
    IN
    /\ Walking /\ walk.stack # <<>>
    /\ walk' = IF group \in walk.seen \/ ~Known(group)
               THEN [walk EXCEPT !.stack = rest, !.seen = @ \cup {group}]
               ELSE [walk EXCEPT !.stack = query.groups[group].children \o rest,
                                 !.seen = @ \cup {group},
                                 !.hosts = Unique(@ \o query.groups[group].hosts)]
    /\ UNCHANGED <<query, found, answer>>

NextGroup ==
    /\ Walking /\ walk.stack = <<>> /\ Len(found) < 2
    /\ found' = Append(found, walk.hosts)
    /\ walk' = IF found = <<>> THEN [for |-> AgentGroup, stack |-> <<AgentGroup>>, seen |-> {}, hosts |-> <<>>]
               ELSE walk
    /\ UNCHANGED <<query, answer>>

-----------------------------------------------------------------------------
(* resolve_inventory                                                       *)

Var(host, name, default) ==
    IF host \in DOMAIN query.hostvars /\ name \in DOMAIN query.hostvars[host]
    THEN query.hostvars[host][name] ELSE default
Address(host) == Var(host, "ansible_host", host)
SshReason(host) ==
    CASE Var(host, "ansible_port", 22) # 22 -> "nonstandard_ansible_port_unsupported"
      [] Address(host) \notin HostTexts -> "invalid_ansible_host"
      [] OTHER -> "ok"
SshTarget(host) == <<Var(host, "ansible_user", "ansible"), Address(host)>>

\* Mutant of SameNode: the whole target is compared, so that another user makes another node.
SameNodeByTarget(a, b) == SshTarget(a) = SshTarget(b)
SameNode(a, b) == Address(a) = Address(b)

Fallback(reason) == [status |-> "fallback_required", reason |-> reason]

\* The first host of the order that has no target or another host's address.
Rejected(hosts) ==
    {n \in DOMAIN hosts : SshReason(hosts[n]) # "ok" \/ \E m \in 1 .. n - 1 : SameNode(hosts[m], hosts[n])}
Resolution(controls, agents) ==
    LET hosts == Unique(controls \o agents)
        bad == Rejected(hosts)
        first == CHOOSE n \in bad : \A m \in bad : n <= m
    IN IF query.load # "ok" THEN Fallback(query.load)
       ELSE IF controls = <<>> THEN Fallback("control_group_empty")
       ELSE IF Len(controls) > 1 THEN Fallback("control_group_not_singleton")
       ELSE IF agents = <<>> /\ ~Known(AgentGroup) THEN Fallback("agent_group_missing")
       ELSE IF bad # {} THEN Fallback(IF SshReason(hosts[first]) # "ok" THEN SshReason(hosts[first]) ELSE "duplicate_ansible_host")
       ELSE [status |-> "resolved", control |-> SshTarget(Head(controls)), node_hosts |-> hosts,
             targets |-> [n \in DOMAIN hosts |-> SshTarget(hosts[n])], expected_nodes |-> Len(hosts)]

-----------------------------------------------------------------------------
(* resolve_remediation                                                     *)

\* The case (NEW_CASE is none) and the further ones, then issues, then triggers.
CandidateKeys(result) ==
    Unique((IF result.case_id \in {"", "NEW_CASE"} THEN <<>> ELSE << <<"case", result.case_id>> >>)
           \o [n \in DOMAIN result.cases |-> <<"case", result.cases[n]>>]
           \o [n \in DOMAIN result.issues |-> <<"issue", result.issues[n]>>]
           \o [n \in DOMAIN result.triggers |-> <<"trigger", result.triggers[n]>>])
Usable(key) == key \in DOMAIN query.mappings /\ query.mappings[key] # None
Remediation(result) ==
    LET usable == SelectSeq(CandidateKeys(result), Usable) IN
    IF usable = <<>> THEN [status |-> "none"] ELSE [status |-> "matched", key |-> Head(usable), id |-> query.mappings[Head(usable)]]

Answer ==
    /\ Walking /\ Len(found) = 2
    /\ answer' = [inventory |-> Resolution(found[1], found[2]), remediation |-> Remediation(query.result)]
    /\ UNCHANGED <<query, walk, found>>

Next == Visit \/ NextGroup \/ Answer

Spec == Init /\ [][Next]_vars

-----------------------------------------------------------------------------
(* Properties                                                              *)

\* A set of groups with the groups that each of them contains.
Closed(groups) == \A g \in groups : \A c \in Range(query.groups[g].children) : Known(c) => c \in groups
\* Every group below one: those in each closed set that it is in.
Below(group) ==
    {g \in DOMAIN query.groups :
        \A groups \in SUBSET DOMAIN query.groups : Closed(groups) /\ (Known(group) => group \in groups) => g \in groups}
HostsBelow(group) == UNION {Range(query.groups[g].hosts) : g \in Below(group)}

\* A resolved inventory stands for the cluster: it lists every host below the
\* two groups, however the groups are nested, shared or cyclic, each once, and
\* no machine under two names, so that expected_nodes counts the machines the
\* monitor will wait for; its control node is the only host of its group.
EveryNodeOnce ==
    answer.inventory.status = "resolved" =>
        LET inventory == answer.inventory
            hosts == inventory.node_hosts
        IN
        /\ Range(hosts) = HostsBelow(ControlGroup) \cup HostsBelow(AgentGroup)
        /\ \A m, n \in DOMAIN inventory.targets : inventory.targets[m][2] = inventory.targets[n][2] => m = n
        /\ inventory.expected_nodes = Cardinality(Range(hosts))
        /\ HostsBelow(ControlGroup) = {Head(hosts)} /\ inventory.control = inventory.targets[1]
=============================================================================
