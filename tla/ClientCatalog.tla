---------------------------- MODULE ClientCatalog ----------------------------
(***************************************************************************)
(* openwrt_pxe_client_catalog.py: the Ansible filter that turns the        *)
(* inventory into the router's PXE catalog (DHCP hosts, boot entries,      *)
(* overlay clients) and into the variables every node's ansible-pull       *)
(* runs with.  A mapping is a function with the given keys as its domain;  *)
(* a nested mapping of group variables is a function from the paths of     *)
(* its leaves, so that no path is a prefix of another.  A flag is the text *)
(* the inventory holds.  Every other field of a client stands with ip.     *)
(***************************************************************************)
EXTENDS Naturals, SequencesExt

CONSTANTS
    Inventories,    \* the inventories to build from: hosts in name order, legacy items
    Router,         \* router_name
    None            \* a key that is not there

VARIABLES inventory, host, catalog     \* host: the next host of the loop

vars == <<inventory, host, catalog>>

-----------------------------------------------------------------------------
(* Reading values                                                          *)

Empty == <<>>
\* Two mappings in one: the first wins.
f ++ g == [x \in DOMAIN f \cup DOMAIN g |-> IF x \in DOMAIN f THEN f[x] ELSE g[x]]
Get(f, key) == IF key \in DOMAIN f THEN f[key] ELSE None
Only(f, keys) == [k \in DOMAIN f \cap keys |-> f[k]]
FirstPresent(values) ==
    LET present == SelectSeq(values, LAMBDA v : v # None) IN
    IF present = <<>> THEN None ELSE Head(present)
Clean(value) == IF value = None THEN "" ELSE value
OrElse(value, other) == IF Clean(value) = "" THEN other ELSE value
AsBool(value) == value \in {"1", "true", "yes", "on"}
AsFlag(value) == IF AsBool(value) THEN "true" ELSE "false"

Section(h, name, alias) == IF name \in DOMAIN h.cfg THEN h.cfg[name]
                           ELSE IF alias \in DOMAIN h.cfg THEN h.cfg[alias] ELSE Empty
MappingValue(h, section, key) == FirstPresent(<<Get(section, key), Get(h.cfg, key)>>)
Roles(h) == {Clean(r) : r \in Range(h.roles)} \ {""}

-----------------------------------------------------------------------------
(* The identity of a client                                                *)

Name(h) == OrElse(MappingValue(h, Section(h, "pxe_host", "host"), "name"), h.hostname)
NetworkId(h) == OrElse(MappingValue(h, Section(h, "pxe_host", "host"), "networkid"), Name(h))
OverlayId(h) == Clean(FirstPresent(<<Get(Section(h, "overlay", "overlay_client"), "id"),
                                     Get(h.cfg, "overlay_id"), Get(h.cfg, "id"), Name(h)>>))

Written(item) == [k \in {k \in DOMAIN item : Clean(item[k]) # ""} |-> item[k]]

\* _option_value_for_client: given text, else the identity and the first role.
OptionValue(h) ==
    LET section == Section(h, "overlay", "overlay_client")
        given == FirstPresent(<<Get(section, "option_value"), Get(h.cfg, "option_value")>>)
        role == FirstPresent(<<MappingValue(h, section, "role"), IF h.roles = <<>> THEN None ELSE Head(h.roles)>>)
    IN IF Clean(given) # "" THEN given ELSE <<OverlayId(h), Clean(role)>>

PxeHost(h) ==
    LET section == Section(h, "pxe_host", "host") IN
    Written([name |-> Name(h), networkid |-> NetworkId(h), mac |-> MappingValue(h, section, "mac"),
             ip |-> FirstPresent(<<MappingValue(h, section, "ip"), Get(h.hv, "ansible_host")>>)])
    ++ [dhcp_options |-> FirstPresent(<<MappingValue(h, section, "dhcp_options"), OptionValue(h)>>)]

\* The default filename is never empty, so that an enabled entry is always made.
PxeBoot(h) ==
    LET section == Section(h, "pxe_boot", "boot") IN
    IF "enabled" \in DOMAIN section /\ ~AsBool(section["enabled"]) THEN <<>>
    ELSE << [name |-> OrElse(Get(section, "name"), Name(h)),
             networkid |-> OrElse(Get(section, "networkid"), NetworkId(h)),
             serveraddress |-> Clean(FirstPresent(<<Get(section, "serveraddress"), Get(h.cfg, "serveraddress")>>))] >>
OverlayClient(h) ==
    LET section == Section(h, "overlay", "overlay_client") IN
    IF ("enabled" \in DOMAIN section /\ ~AsBool(section["enabled"])) \/ OverlayId(h) = "" THEN <<>>
    ELSE << Written([id |-> OverlayId(h), mac |-> FirstPresent(<<Get(section, "mac"), Get(h.cfg, "mac")>>)])
            ++ [option_value |-> OptionValue(h)] >>

-----------------------------------------------------------------------------
(* Nested mappings                                                         *)

Related(p, q) == IsPrefix(p, q) \/ IsPrefix(q, p)
Clashes(base, p) == {q \in DOMAIN base : Related(p, q)}

\* _merge_nested_mapping: the base wins ...
MergeNested(base, overlay) ==
    base ++ [p \in {p \in DOMAIN overlay : Clashes(base, p) = {}} |-> overlay[p]]
\* ... and the path of every value it keeps out is reported.
MergeConflicts(base, overlay) ==
    {IF Len(c[1]) < Len(c[2]) THEN c[1] ELSE c[2] :
        c \in {c \in (DOMAIN overlay) \X (DOMAIN base) :
                 Related(c[1], c[2]) /\ ~(c[1] = c[2] /\ overlay[c[1]] = base[c[2]])}}

Under(f, key) == [p \in {p \in DOMAIN f : Head(p) = key} |-> f[p]]
MappingLegacyMismatches(legacy, generated) ==
    {Head(p) : p \in {p \in DOMAIN legacy : Under(legacy, Head(p)) # Under(generated, Head(p))}}

-----------------------------------------------------------------------------
(* The variables of a role                                                 *)

Destructive == {"allow_format", "force_format", "ephemeral"}
BoolKeys == Destructive \cup {"storage_enabled", "node_password_sync"}
ValueKeys == {"device", "filesystem"}

\* Keys copied from the host when it has them: flags as booleans, values as they are.
BuildPicked(hv, bools, values) ==
    [k \in DOMAIN hv \cap (bools \cup values) |-> IF k \in bools THEN AsFlag(hv[k]) ELSE hv[k]]
IscsiBools == {"iscsi_login"}
IscsiValues == {"iscsi_portal"}
IscsiVars(hv) == BuildPicked(hv, IscsiBools, IscsiValues)
LlmBools == {"llama_enabled"}
LlmValues == {"llama_model"}
LlmVars(hv) == BuildPicked(hv, LlmBools, LlmValues)

StorageVars(hv, ephemeral, sync) ==
    BuildPicked(hv, BoolKeys, ValueKeys)
    ++ [storage_enabled |-> "false", filesystem |-> "ext4", allow_format |-> "true",
        force_format |-> "false", ephemeral |-> ephemeral]
    ++ (IF sync THEN [node_password_sync |-> "false"] ELSE Empty)

NodeVars(h) == [node_name |-> OrElse(OverlayId(h), h.hostname),
                node_ip |-> Clean(FirstPresent(<<Get(h.hv, "node_ip"), Get(h.hv, "ansible_host"), Get(h.cfg, "ip")>>))]
Snapshotter(h) == OrElse(Get(h.hv, "snapshotter"), "native")
SnapshotterRefused(h) ==
    \/ Snapshotter(h) \notin {"native", "overlayfs"}
    \/ Snapshotter(h) = "overlayfs"
       /\ ~(AsBool(Get(h.hv, "storage_enabled")) /\ Get(h.hv, "filesystem") = "ext4")

AgentVars(h) == LlmVars(h.hv) ++ IscsiVars(h.hv) ++ StorageVars(h.hv, "true", FALSE)
                ++ NodeVars(h) ++ [snapshotter |-> Snapshotter(h)]
ServerVars(h, hv, mode) == IscsiVars(hv) ++ StorageVars(hv, "false", TRUE)
                           ++ NodeVars(h) ++ [kubeconfig_mode |-> mode]
BaseVars(h) == BuildPicked(IF h.distcc THEN h.hv ELSE Only(h.hv, {"picoclaw"}), {}, {"distcc", "picoclaw"})

\* _persistent_stg_storage_vars: its refusal, and what it makes of the rest.
FormatRefused(values) == \E k \in Destructive : AsBool(Get(values, k))
FormatOff(values) == [k \in Destructive |-> "false"] ++ values

Persistent(h) == "k3s_stg_server" \in Roles(h)
Tailscale(h) == AsBool(Get(h.hv, "tailscale"))
StorageRoles == {"k3s_stg_storage", "k3s_prd_storage"}

\* The roles whose variables the catalog makes itself; h.generate names the
\* staging roles for which the inventory leaves that on.
GeneratedRoles(h) ==
    (Roles(h) \cap (h.generate \cup {"k3s_prd_server", "k3s_prd_storage"}))
    \cup {r \in {"base"} \cap Roles(h) : BaseVars(h) # Empty}
    \cup {r \in {"host_tailscale"} : Tailscale(h)}
GeneratedVars(h, role) ==
    LET hv == IF Persistent(h) THEN FormatOff(h.hv) ELSE h.hv IN
    CASE role = "k3s_stg_server" -> ServerVars(h, hv, "0600")
      [] role = "k3s_prd_server" -> ServerVars(h, h.hv, "0644")
      [] role = "k3s_stg_agent" -> AgentVars(h)
      [] role = "k3s_stg_storage" -> IscsiVars(h.hv) ++ StorageVars(hv, "false", Persistent(h))
      [] role = "k3s_prd_storage" -> IscsiVars(h.hv) ++ StorageVars(h.hv, "false", TRUE)
      [] role = "host_tailscale" -> [device |-> Clean(Get(h.hv, "device"))]
      [] OTHER -> BaseVars(h)

\* The roles that extra_vars name.
ExtraRoles(h) == DOMAIN h.extra_vars \ {""}

\* What the catalog makes wins over extra_vars of the same role, and no conflict
\* of that merge is kept.  picoclaw, a mapping of its own, is one value here.
MergedVars(h) ==
    [r \in GeneratedRoles(h) \cup ExtraRoles(h) |->
        (IF r \in GeneratedRoles(h) THEN GeneratedVars(h, r) ELSE Empty)
        ++ (IF r \in ExtraRoles(h) THEN h.extra_vars[r] ELSE Empty)]

GuardedRoles(h) == IF Persistent(h) THEN Roles(h) \cap {"k3s_stg_storage", "k3s_stg_server"} ELSE {}
VarsBeforeGuard(h, role) == IF role \in DOMAIN MergedVars(h) THEN MergedVars(h)[role] ELSE Empty
\* Mutant of RoleVars: the variables are guarded before the merge only.
RoleVarsAsMerged(h) == MergedVars(h)
RoleVars(h) ==
    [r \in DOMAIN MergedVars(h) \cup GuardedRoles(h) |->
        IF r \in GuardedRoles(h) THEN FormatOff(VarsBeforeGuard(h, r)) ELSE MergedVars(h)[r]]

\* The host's own flags, then the merged ones: any ValueError ends the filter.
Refused(h) ==
    \/ Persistent(h) /\ FormatRefused(h.hv)
    \/ Tailscale(h) /\ (~AsBool(Get(h.hv, "storage_enabled"))
                        \/ \E k \in Destructive \ {"allow_format"} : AsBool(Get(h.hv, k)))
    \/ "k3s_stg_agent" \in GeneratedRoles(h) /\ SnapshotterRefused(h)
    \/ "host_tailscale" \in DOMAIN h.extra_vars
    \/ \E r \in GuardedRoles(h) : FormatRefused(VarsBeforeGuard(h, r))
    \/ Tailscale(h) /\ \E r \in StorageRoles \cap DOMAIN RoleVars(h) :
           \/ \E k \in Destructive \ {"allow_format"} : AsBool(Get(RoleVars(h)[r], k))
           \/ RoleVars(h)[r] # Empty /\ Clean(Get(RoleVars(h)[r], "device")) # Clean(Get(h.hv, "device"))

ClientVars(h) == {[overlay_id |-> OverlayId(h), host |-> h, role |-> r, vars |-> RoleVars(h)[r]] : r \in DOMAIN RoleVars(h)}

\* The settings of the staging Terraform apply, as the host has them.
TerraformKeys == {"stage_name", "retry_secs"}
TerraformVars(hv) == [p \in {"role_terraform_stg"} \X (DOMAIN hv \cap TerraformKeys) |-> hv[p[2]]]

TerraformSettings(h) ==
    IF "terraform_stg" \in Roles(h) /\ "terraform_stg" \in h.generate THEN TerraformVars(h.hv) ELSE Empty

\* The host's group variables.  Its own Terraform settings win over explicit
\* ones, and the conflicts of that merge are dropped.
GroupVars(h) ==
    IF TerraformSettings(h) = Empty THEN h.group_vars
    ELSE MergeNested(TerraformSettings(h), Only(h.group_vars, DOMAIN h.group_vars \ {<<"role_terraform_stg">>}))

-----------------------------------------------------------------------------
(* Legacy items                                                            *)

ItemKey(item, keys) ==
    LET named == SelectSeq(keys, LAMBDA k : Clean(Get(item, k)) # "") IN
    IF named = <<>> THEN "" ELSE item[Head(named)]
Keys(items, keys) == {ItemKey(i, keys) : i \in Range(items)} \ {""}
NonShadowed(legacy, generated, keys) ==
    LET kept[n \in 0..Len(legacy)] ==
            IF n = 0 THEN <<>>
            ELSE IF ItemKey(legacy[n], keys) \in Keys(generated, keys) THEN kept[n - 1]
            ELSE Append(kept[n - 1], legacy[n])
    IN kept[Len(legacy)]
\* The last legacy item of a key is the one compared.
LegacyMismatches(legacy, generated, fields, keys) ==
    {ItemKey(g, keys) : g \in {g \in Range(generated) :
        \E n \in DOMAIN legacy :
            /\ ItemKey(legacy[n], keys) = ItemKey(g, keys) /\ ItemKey(g, keys) # ""
            /\ \A m \in n + 1 .. Len(legacy) : ItemKey(legacy[m], keys) # ItemKey(g, keys)
            /\ \E f \in fields : Get(g, f) # Get(legacy[n], f)}}

Kinds == [hosts |-> [keys |-> <<"name", "networkid", "mac">>, fields |-> {"name", "mac", "ip", "networkid"}],
          boots |-> [keys |-> <<"name", "networkid">>, fields |-> {"name", "networkid", "serveraddress"}],
          overlays |-> [keys |-> <<"id">>, fields |-> {"id"}]]

-----------------------------------------------------------------------------
(* build_openwrt_pxe_client_catalog                                        *)

Init ==
    /\ inventory \in Inventories
    /\ host = 1
    /\ catalog = [status |-> "building", generated |-> [k \in DOMAIN Kinds |-> <<>>], items |-> [k \in DOMAIN Kinds |-> <<>>],
                  mismatches |-> [k \in DOMAIN Kinds |-> {}], group_vars |-> Empty, conflicts |-> {},
                  group_mismatches |-> {}, client_vars |-> {}]

Selected(h) == inventory.enabled /\ h.enabled /\ OrElse(h.router, Router) = Router

\* _build_generated_client
Generated(h) ==
    [hosts |-> <<PxeHost(h)>>, boots |-> PxeBoot(h), overlays |-> OverlayClient(h),
     group_vars |-> GroupVars(h), client_vars |-> ClientVars(h)]

BuildClient ==
    LET h == inventory.hosts[host] IN
    /\ catalog.status = "building" /\ host <= Len(inventory.hosts) /\ host' = host + 1
    /\ catalog' =
        IF ~Selected(h) THEN catalog
        ELSE IF Refused(h) THEN [catalog EXCEPT !.status = "refused"]
        ELSE LET client == Generated(h)
             IN [catalog EXCEPT
                    !.generated = [k \in DOMAIN Kinds |-> @[k] \o client[k]],
                    !.group_vars = MergeNested(@, client.group_vars),
                    !.conflicts = @ \cup MergeConflicts(catalog.group_vars, client.group_vars),
                    !.client_vars = @ \cup client.client_vars]
    /\ UNCHANGED inventory

Finish ==
    /\ catalog.status = "building" /\ host > Len(inventory.hosts)
    /\ catalog' = [catalog EXCEPT
        !.status = "built",
        !.items = [k \in DOMAIN Kinds |->
            NonShadowed(inventory.legacy[k], catalog.generated[k], Kinds[k].keys) \o catalog.generated[k]],
        !.mismatches = [k \in DOMAIN Kinds |->
            LegacyMismatches(inventory.legacy[k], catalog.generated[k], Kinds[k].fields, Kinds[k].keys)],
        !.group_mismatches = MappingLegacyMismatches(inventory.group_vars, catalog.group_vars),
        !.group_vars = MergeNested(inventory.group_vars, @),
        !.conflicts = @ \cup MergeConflicts(inventory.group_vars, catalog.group_vars)]
    /\ UNCHANGED <<inventory, host>>

Next == BuildClient \/ Finish

Spec == Init /\ [][Next]_vars

-----------------------------------------------------------------------------
(* Properties                                                              *)

\* No boot of a persistent staging server may format or clear its disk, and
\* none of a node whose Tailscale identity is on the disk may clear it or use
\* another: whatever the host's flags, the defaults and the extra_vars merged
\* over them say, the storage variables that reach such a node are safe and
\* leave no flag to the role's default.
PersistentDataKept ==
    catalog.status = "built" =>
        \A c \in catalog.client_vars :
            /\ c.role \in GuardedRoles(c.host) => \A k \in Destructive : Get(c.vars, k) = "false"
            /\ Tailscale(c.host) /\ c.role \in StorageRoles /\ c.vars # Empty =>
                   /\ \A k \in Destructive \ {"allow_format"} : ~AsBool(Get(c.vars, k))
                   /\ Clean(Get(c.vars, "device")) = Clean(Get(c.host.hv, "device"))

\* The value of f at p stands in the built catalog, or a conflict names its path
\* or one above it.
Kept(built, f, p) == \/ p \in DOMAIN built.group_vars /\ built.group_vars[p] = f[p]
                     \/ \E c \in built.conflicts : IsPrefix(c, p)

\* What extra_vars give a role is among its variables, but where the catalog
\* makes the same variable itself, or formatting is switched off.
ExtraKept(h, role, values) ==
    \A k \in DOMAIN h.extra_vars[role] :
        /\ k \in DOMAIN values
        /\ \/ values[k] = h.extra_vars[role][k]
           \/ role \in GeneratedRoles(h) /\ k \in DOMAIN GeneratedVars(h, role) /\ values[k] = GeneratedVars(h, role)[k]
           \/ role \in GuardedRoles(h) /\ k \in Destructive /\ values[k] = "false"

\* The catalog loses no value that the inventory declares but where it says so
\* or replaces it by one it makes of the same host.  A group variable of a host
\* or of the legacy mapping has its value in the result, or a conflict names
\* it, or (without a word, and so past the role's assertion that there is no
\* conflict) the host's own Terraform settings stand in its place; those
\* settings are not lost in turn.  What extra_vars give a role reaches the
\* node, or (again without a word) what the catalog makes for that role does.
\* A legacy client is in the result unless a generated one of its key stands
\* there, which then agrees with it or is listed as a mismatch (where no two
\* legacy items share a key).
ValuesAccountedFor ==
    catalog.status = "built" =>
        /\ \A p \in DOMAIN inventory.group_vars : Kept(catalog, inventory.group_vars, p)
        /\ \A h \in {h \in Range(inventory.hosts) : Selected(h)} :
             /\ \A p \in DOMAIN TerraformSettings(h) : Kept(catalog, TerraformSettings(h), p)
             /\ \A p \in DOMAIN h.group_vars :
                    Kept(catalog, h.group_vars, p) \/ \E q \in DOMAIN TerraformSettings(h) : Related(p, q)
             /\ \A r \in ExtraRoles(h) :
                    \E c \in catalog.client_vars :
                        c.overlay_id = OverlayId(h) /\ c.role = r /\ ExtraKept(h, r, c.vars)
        /\ \A k \in DOMAIN Kinds : \A n \in DOMAIN inventory.legacy[k] :
             LET old == inventory.legacy[k][n]
                 key == ItemKey(old, Kinds[k].keys)
             IN \/ old \in Range(catalog.items[k])
                \/ \E m \in DOMAIN inventory.legacy[k] \ {n} : ItemKey(inventory.legacy[k][m], Kinds[k].keys) = key
                \/ \E g \in Range(catalog.generated[k]) :
                     /\ ItemKey(g, Kinds[k].keys) = key
                     /\ key \in catalog.mismatches[k] \/ \A f \in Kinds[k].fields : Get(g, f) = Get(old, f)

\* The catalog keeps what it must not lose: the nodes' disks, and every value
\* that the inventory declares, but for the replacements named above
\* (build_openwrt_pxe_client_catalog).
CatalogKeeps == PersistentDataKept /\ ValuesAccountedFor
=============================================================================
