----------------------------- MODULE MCOperations -----------------------------
(* Constants for model checking Operations.                                  *)
EXTENDS Operations, FiniteSetsExt, SequencesExt, TLC

-----------------------------------------------------------------------------
(* Inventories for the client catalog: storage flags under every pair of    *)
(* roles, values and mappings over one another, legacy items beside         *)
(* generated ones.                                                          *)

Empty == <<>>
PlainHost == [hostname |-> "n1", enabled |-> TRUE, router |-> None, cfg |-> Empty, hv |-> Empty,
              roles |-> <<>>, distcc |-> FALSE, generate |-> {}, extra_vars |-> Empty,
              group_vars |-> Empty]
PlainInventory == [hosts |-> <<>>, legacy |-> [hosts |-> <<>>, boots |-> <<>>, overlays |-> <<>>],
                   group_vars |-> Empty, enabled |-> TRUE]

RoleLists == {<<"k3s_stg_storage">>, <<"k3s_stg_storage", "k3s_stg_server">>,
              <<"k3s_stg_agent", "k3s_stg_storage">>,
              <<"k3s_stg_storage", "k3s_prd_server", "k3s_prd_storage">>}
Flags == {Empty} \cup {k :> v : k \in {"allow_format", "force_format", "ephemeral"}, v \in {"yes", "off"}}
HostFlags == {f @@ t : f \in Flags \cup {"distcc" :> "x"},
                       t \in {Empty, [tailscale |-> "true", storage_enabled |-> "on", device |-> "d1"]}}
Extras == {Empty} \cup {r :> v : r \in {"k3s_stg_storage", "k3s_prd_storage"},
                                 v \in Flags \cup {"device" :> "d2"}}
StorageInventories ==
    {[PlainInventory EXCEPT !.hosts = <<[PlainHost EXCEPT !.roles = r, !.hv = f, !.extra_vars = x,
                                                          !.generate = g, !.distcc = TRUE]>>] :
        r \in RoleLists, f \in HostFlags, x \in Extras,
        g \in {{}, {"k3s_stg_storage", "k3s_stg_agent"}, {"k3s_stg_server", "k3s_stg_agent"}}}

GroupMaps == UNION {[D -> {1, 2}] : D \in {{}, {<<"g">>}, {<<"g", "x">>}, {<<"role_terraform_stg">>},
                                           {<<"role_terraform_stg", "stage_name">>}, {<<"g", "x">>, <<"role_terraform_stg", "stage_name">>}}}
MergeInventories ==
    {[PlainInventory EXCEPT !.group_vars = l, !.hosts =
        <<[PlainHost EXCEPT !.group_vars = a, !.hv = t, !.roles = <<"terraform_stg">>,
                            !.generate = {"terraform_stg"}],
          [PlainHost EXCEPT !.hostname = "n2", !.group_vars = b]>>] :
        l \in GroupMaps, a \in GroupMaps, b \in GroupMaps,
        t \in {Empty, [stage_name |-> 1, retry_secs |-> 2]}}

Overrides == {Empty, [name |-> "a"], [pxe_host |-> [networkid |-> "a", mac |-> "m"]],
              [boot |-> [enabled |-> "no"], overlay |-> [enabled |-> "no"]]}
Items == {[name |-> "a", ip |-> "i"], [networkid |-> "a"],
          [name |-> "n1", networkid |-> "n1", serveraddress |-> ""], [id |-> "n1"], [mac |-> "m"]}
LegacyInventories ==
    {[PlainInventory EXCEPT
        !.hosts = <<[PlainHost EXCEPT !.cfg = c], [PlainHost EXCEPT !.hostname = "n2", !.cfg = d, !.router = r]>>,
        !.legacy = [hosts |-> l, boots |-> l, overlays |-> l]] :
        c \in Overrides, d \in Overrides, r \in {None, "other"},
        l \in {<<>>} \cup {<<i>> : i \in Items} \cup {<<i, j>> : i \in Items, j \in Items}}

MCInventories == StorageInventories \cup MergeInventories \cup LegacyInventories

-----------------------------------------------------------------------------
(* Inventories for the convergence monitor: groups that contain one         *)
(* another or themselves, hosts under two names.                            *)

GroupKinds == [hosts : {<<>>, <<"h1">>, <<"h2", "h1">>},
               children : {<<>>, <<"control", "agents">>, <<"rack">>, <<"rack", "agents", "rack">>}]
Groupings == {[control |-> [hosts |-> <<"h1">>, children |-> c], agents |-> a, rack |-> r] :
                 c \in {<<>>, <<"control">>, <<"rack">>}, a \in GroupKinds, r \in GroupKinds}
             \cup {[control |-> a] : a \in GroupKinds}
MCTargetQueries ==
    [load : {"ok"}, groups : Groupings,
     hostvars : {<<>>, [h1 |-> [ansible_host |-> "a"], h2 |-> [ansible_host |-> "a", ansible_user |-> "root"]],
                 [h2 |-> [ansible_port |-> 2222]], [h2 |-> [ansible_host |-> "?"]]},
     result : {[case_id |-> "NEW_CASE", cases |-> <<>>, issues |-> <<"i">>, triggers |-> <<>>],
               [case_id |-> "c", cases |-> <<"c">>, issues |-> <<"i">>, triggers |-> <<"t">>]},
     mappings : {<<"issue", "i">> :> "doc1" @@ <<"case", "c">> :> None, <<"trigger", "t">> :> "doc2"}]

-----------------------------------------------------------------------------
(* Every table and every kernel set of up to three records.                 *)

Rows == {[start |-> n.base, end |-> n.base + CanonicalNets!Size(n.len) - 1, len |-> n.len] :
            n \in CanonicalNets!Networks} \cup {[start |-> 1, end |-> 2, len |-> 1]}
Elements == {[kind |-> "prefix", a |-> n.base, b |-> n.len] : n \in CanonicalNets!Networks}
            \cup {[kind |-> "range", a |-> x, b |-> y] :
                     <<x, y>> \in {p \in (0..3) \X (0..3) : p[1] < p[2]} \cup {<<2, 2>>, <<3, 1>>}}
MCTables == {{x, y, z} : x, y, z \in Rows}
MCKernelSets == {{x, y, z} : x, y, z \in Elements}

-----------------------------------------------------------------------------
(* Sequences and the sites of MonitoringSites.                              *)

MCGenerationOrder == <<"rpi5">>
MCNameOrder == <<".", "a">>
MCRoots == <<"crds", "env">>

Input == INSTANCE MonitoringSites
MCSites == Input!MCSites
MCStackQueries == Input!MCQueries

\* The theorem on the stack's connections is about such sites.
ASSUME SitesOfOneNetwork == OneNetwork
==============================================================================
