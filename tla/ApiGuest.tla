------------------------------ MODULE ApiGuest ------------------------------
(* Requests about one virtual machine, container, snapshot or firewall rule. *)
(* What takes several requests (cloud-init, tags, cloning, deleting a virtual *)
(* machine, waiting for the agent) is in the module Guest.                    *)
EXTENDS ApiTable

\* Liveness and configuration of a virtual machine.
GuestConfig == {
    Get("VirtualMachine", "Ping", <<"nodes", ".node", "qemu", ".vmid", "status", "current">>, {}, ItselfTwice),
    Post("VirtualMachine", "Config", <<"nodes", ".node", "qemu", ".vmid", "config">>, {}, ATask),
    Put("VirtualMachine", "ConfigSync", <<"nodes", ".node", "qemu", ".vmid", "config">>, {}, Nothing),
    Get("VirtualMachine", "Feature", <<"nodes", ".node", "qemu", ".vmid", "feature">>, {}, Data),
    Post("VirtualMachine", "DBusVMState", <<"nodes", ".node", "qemu", ".vmid", "dbus-vmstate">>, {}, Nothing),
    Post("VirtualMachine", "Monitor", <<"nodes", ".node", "qemu", ".vmid", "monitor">>, {}, Data),
    Post("VirtualMachine", "TermProxy", <<"nodes", ".node", "qemu", ".vmid", "termproxy">>, {}, Data),
    Post("VirtualMachine", "VNCProxy", <<"nodes", ".node", "qemu", ".vmid", "vncproxy">>, {}, Data)}

\* Consoles and power of a virtual machine.
GuestPower == {
    Dial("VirtualMachine", "TermWebSocket", <<"nodes", ".node", "qemu", ".vmid", "vncwebsocket">>),
    Dial("VirtualMachine", "VNCWebSocket", <<"nodes", ".node", "qemu", ".vmid", "vncwebsocket">>),
    Post("VirtualMachine", "SpiceProxy", <<"nodes", ".node", "qemu", ".vmid", "spiceproxy">>, {}, Data),
    Post("VirtualMachine", "Start", <<"nodes", ".node", "qemu", ".vmid", "status", "start">>, {}, ATask),
    Post("VirtualMachine", "Reset", <<"nodes", ".node", "qemu", ".vmid", "status", "reset">>, {}, ATask),
    Post("VirtualMachine", "Shutdown", <<"nodes", ".node", "qemu", ".vmid", "status", "shutdown">>, {}, ATask),
    Post("VirtualMachine", "Stop", <<"nodes", ".node", "qemu", ".vmid", "status", "stop">>, {}, ATask),
    Post("VirtualMachine", "Pause", <<"nodes", ".node", "qemu", ".vmid", "status", "suspend">>, {}, ATask),
    Post("VirtualMachine", "Hibernate", <<"nodes", ".node", "qemu", ".vmid", "status", "suspend">>, {}, ATask),
    Post("VirtualMachine", "Resume", <<"nodes", ".node", "qemu", ".vmid", "status", "resume">>, {}, ATask),
    Post("VirtualMachine", "Reboot", <<"nodes", ".node", "qemu", ".vmid", "status", "reboot">>, {}, ATask)}

\* Migrating a virtual machine.
GuestMigration == {
    Get("VirtualMachine", "MigratePreconditions", <<"nodes", ".node", "qemu", ".vmid", "migrate">>, {}, Data),
    Post("VirtualMachine", "Migrate", <<"nodes", ".node", "qemu", ".vmid", "migrate">>, {}, ATask),
    Post("VirtualMachine", "RemoteMigrate", <<"nodes", ".node", "qemu", ".vmid", "remote_migrate">>, {}, ATask)}

\* Disks of a virtual machine, and what its agent says of it.
GuestDisks == {
    Put("VirtualMachine", "ResizeDisk", <<"nodes", ".node", "qemu", ".vmid", "resize">>, {}, ATask),
    Put("VirtualMachine", "UnlinkDisk", <<"nodes", ".node", "qemu", ".vmid", "unlink">>, {}, ATask),
    Post("VirtualMachine", "MoveDisk", <<"nodes", ".node", "qemu", ".vmid", "move_disk">>, {}, ATask),
    Get("VirtualMachine", "AgentGetHostName", <<"nodes", ".node", "qemu", ".vmid", "agent", "get-host-name">>,
        {}, SomeData),
    Get("VirtualMachine", "AgentGetNetworkIFaces", <<"nodes", ".node", "qemu", ".vmid", "agent",
        "network-get-interfaces">>,
        {}, Data)}

\* Running a command through the agent.
GuestAgentExec == {
    Post("VirtualMachine", "AgentExec", <<"nodes", ".node", "qemu", ".vmid", "agent", "exec">>, {}, SomeData),
    Get("VirtualMachine", "AgentExecStatus", <<"nodes", ".node", "qemu", ".vmid", "agent", "exec-status">>,
        {}, SomeData)}

\* Agent requests, and the firewall of a virtual machine.  The handle of a new rule
\* keeps the caller's position.
GuestFirewall == {
    Get("VirtualMachine", "AgentOsInfo", <<"nodes", ".node", "qemu", ".vmid", "agent", "get-osinfo">>, {}, SomeData),
    Post("VirtualMachine", "AgentSetUserPassword", <<"nodes", ".node", "qemu", ".vmid", "agent",
        "set-user-password">>,
        {}, Nothing),
    Put("VirtualMachine", "SendKey", <<"nodes", ".node", "qemu", ".vmid", "sendkey">>, {}, Nothing),
    Get("VirtualMachine", "GetFirewallIPSet", <<"nodes", ".node", "qemu", ".vmid", "firewall", "ipset">>, {}, Data),
    Post("VirtualMachine", "NewFirewallIPSet", <<"nodes", ".node", "qemu", ".vmid", "firewall", "ipset">>,
        {}, Nothing),
    Delete("VirtualMachine", "DeleteFirewallIPSet", <<"nodes", ".node", "qemu", ".vmid", "firewall", "ipset",
        "<name>">>,
        {}, Nothing),
    Get("VirtualMachine", "GetFirewallIPSetEntries", <<"nodes", ".node", "qemu", ".vmid", "firewall", "ipset",
        "<name>">>,
        {}, Data),
    Post("VirtualMachine", "NewFirewallIPSetEntry", <<"nodes", ".node", "qemu", ".vmid", "firewall", "ipset",
        "<name>">>,
        {}, Nothing),
    Delete("VirtualMachine", "DeleteFirewallIPSetEntry", <<"nodes", ".node", "qemu", ".vmid", "firewall",
        "ipset", "<name>", "<cidr>">>,
        {}, Nothing),
    Get("VirtualMachine", "GetFirewallIPSetEntry", <<"nodes", ".node", "qemu", ".vmid", "firewall", "ipset",
        "<name>", "<cidr>">>,
        {}, Data),
    Put("VirtualMachine", "UpdateFirewallIPSetEntry", <<"nodes", ".node", "qemu", ".vmid", "firewall", "ipset",
        "<name>", "<cidr>">>,
        {}, Nothing),
    Get("VirtualMachine", "FirewallOptionGet", <<"nodes", ".node", "qemu", ".vmid", "firewall", "options">>,
        {}, Data),
    Put("VirtualMachine", "FirewallOptionSet", <<"nodes", ".node", "qemu", ".vmid", "firewall", "options">>,
        {}, Nothing),
    Get("VirtualMachine", "FirewallRules", <<"nodes", ".node", "qemu", ".vmid", "firewall", "rules">>, {},
        Each("GuestRule", ".node" :> ".node" @@ ".vmid" :> ".vmid", Wired)),
    Lazy("VirtualMachine", "FirewallRule", <<"nodes", ".node", "qemu", ".vmid", "firewall", "rules", "<pos>">>, {},
        One("GuestRule", ".node" :> ".node" @@ ".vmid" :> ".vmid" @@ ".pos" :> "<pos>", Wired, "kept")),
    Post("VirtualMachine", "NewFirewallRule", <<"nodes", ".node", "qemu", ".vmid", "firewall", "rules">>, {},
        Created("GuestRule", ".node" :> ".node" @@ ".vmid" :> ".vmid" @@ ".pos" :> "<pos>"))}

\* Snapshots and metrics of a virtual machine.
GuestSnapshots == {
    Post("VirtualMachine", "NewSnapshot", <<"nodes", ".node", "qemu", ".vmid", "snapshot">>, {}, ATask),
    Get("VirtualMachine", "Snapshots", <<"nodes", ".node", "qemu", ".vmid", "snapshot">>, {},
        Each("VirtualMachineSnapshot", ".node" :> ".node" @@ ".vmid" :> ".vmid", Wired)),
    Lazy("VirtualMachine", "Snapshot", <<"nodes", ".node", "qemu", ".vmid", "snapshot", "<name>">>, {},
        One("VirtualMachineSnapshot", ".node" :> ".node" @@ ".vmid" :> ".vmid"
        @@ ".name" :> "<name>", Wired, "kept")),
    Post("VirtualMachineSnapshot", "Rollback", <<"nodes", ".node", "qemu", ".vmid", "snapshot", ".name",
        "rollback">>,
        {}, ATask),
    Delete("VirtualMachineSnapshot", "Delete", <<"nodes", ".node", "qemu", ".vmid", "snapshot", ".name">>,
        {}, ATask),
    Get("VirtualMachineSnapshot", "Config", <<"nodes", ".node", "qemu", ".vmid", "snapshot", ".name", "config">>,
        {}, Data),
    Put("VirtualMachineSnapshot", "UpdateConfig", <<"nodes", ".node", "qemu", ".vmid", "snapshot", ".name",
        "config">>,
        {}, Nothing),
    Get("VirtualMachineSnapshot", "SubResources", <<"nodes", ".node", "qemu", ".vmid", "snapshot", ".name">>,
        {}, Data),
    Get("VirtualMachine", "RRD", <<"nodes", ".node", "qemu", ".vmid", "rrd">>, {}, Data),
    Get("VirtualMachine", "RRDData", <<"nodes", ".node", "qemu", ".vmid", "rrddata">>, {}, Data),
    Post("VirtualMachine", "ConvertToTemplate", <<"nodes", ".node", "qemu", ".vmid", "template">>, {}, ATask)}

\* Pending changes, indexes and migration tunnel.
GuestTunnels == {
    Get("VirtualMachine", "Pending", <<"nodes", ".node", "qemu", ".vmid", "pending">>, {}, Data),
    Get("VirtualMachine", "DirIndex", <<"nodes", ".node", "qemu", ".vmid">>, {}, Data),
    Get("VirtualMachine", "StatusIndex", <<"nodes", ".node", "qemu", ".vmid", "status">>, {}, Data),
    Post("VirtualMachine", "MigrationTunnel", <<"nodes", ".node", "qemu", ".vmid", "mtunnel">>, {}, Data),
    Lazy("VirtualMachine", "MigrationTunnelWebSocketPath", <<"nodes", ".node", "qemu", ".vmid", "mtunnelwebsocket">>,
        {}, Data)}

\* What the agent reports.
AgentFacts == {
    Get("VirtualMachine", "AgentCommandIndex", <<"nodes", ".node", "qemu", ".vmid", "agent">>, {}, Data),
    Post("VirtualMachine", "AgentCommand", <<"nodes", ".node", "qemu", ".vmid", "agent">>, {}, Data),
    Post("VirtualMachine", "AgentPing", <<"nodes", ".node", "qemu", ".vmid", "agent", "ping">>, {}, Nothing),
    Get("VirtualMachine", "AgentGetTime", <<"nodes", ".node", "qemu", ".vmid", "agent", "get-time">>, {}, Data),
    Get("VirtualMachine", "AgentGetTimezone", <<"nodes", ".node", "qemu", ".vmid", "agent", "get-timezone">>,
        {}, Data),
    Get("VirtualMachine", "AgentGetUsers", <<"nodes", ".node", "qemu", ".vmid", "agent", "get-users">>, {}, Data),
    Get("VirtualMachine", "AgentGetVCPUs", <<"nodes", ".node", "qemu", ".vmid", "agent", "get-vcpus">>, {}, Data),
    Get("VirtualMachine", "AgentGetFsInfo", <<"nodes", ".node", "qemu", ".vmid", "agent", "get-fsinfo">>, {}, Data),
    Get("VirtualMachine", "AgentGetMemoryBlocks", <<"nodes", ".node", "qemu", ".vmid", "agent", "get-memory-blocks">>,
        {}, Data),
    Get("VirtualMachine", "AgentGetMemoryBlockInfo", <<"nodes", ".node", "qemu", ".vmid", "agent",
        "get-memory-block-info">>,
        {}, Data),
    Get("VirtualMachine", "AgentGetInfo", <<"nodes", ".node", "qemu", ".vmid", "agent", "info">>, {}, Data)}

\* What the agent is told to do.
AgentCommands == {
    Post("VirtualMachine", "AgentFsfreezeFreeze", <<"nodes", ".node", "qemu", ".vmid", "agent", "fsfreeze-freeze">>,
        {}, Data),
    Post("VirtualMachine", "AgentFsfreezeThaw", <<"nodes", ".node", "qemu", ".vmid", "agent", "fsfreeze-thaw">>,
        {}, Data),
    Post("VirtualMachine", "AgentFsfreezeStatus", <<"nodes", ".node", "qemu", ".vmid", "agent", "fsfreeze-status">>,
        {}, Data),
    Post("VirtualMachine", "AgentFstrim", <<"nodes", ".node", "qemu", ".vmid", "agent", "fstrim">>, {}, Data),
    Post("VirtualMachine", "AgentShutdown", <<"nodes", ".node", "qemu", ".vmid", "agent", "shutdown">>, {}, Nothing),
    Post("VirtualMachine", "AgentSuspendDisk", <<"nodes", ".node", "qemu", ".vmid", "agent", "suspend-disk">>,
        {}, Nothing),
    Post("VirtualMachine", "AgentSuspendHybrid", <<"nodes", ".node", "qemu", ".vmid", "agent", "suspend-hybrid">>,
        {}, Nothing),
    Post("VirtualMachine", "AgentSuspendRAM", <<"nodes", ".node", "qemu", ".vmid", "agent", "suspend-ram">>,
        {}, Nothing),
    Get("VirtualMachine", "AgentFileRead", <<"nodes", ".node", "qemu", ".vmid", "agent", "file-read">>, {}, Data),
    Post("VirtualMachine", "AgentFileWrite", <<"nodes", ".node", "qemu", ".vmid", "agent", "file-write">>,
        {}, Nothing)}

\* The cloud-init settings kept by the server.
CloudInitState == {
    Get("VirtualMachine", "CloudInitPending", <<"nodes", ".node", "qemu", ".vmid", "cloudinit">>, {}, Data),
    Put("VirtualMachine", "CloudInitRegenerate", <<"nodes", ".node", "qemu", ".vmid", "cloudinit">>, {}, Nothing),
    Get("VirtualMachine", "CloudInitDump", <<"nodes", ".node", "qemu", ".vmid", "cloudinit", "dump">>,
        {"<kind>"}, Data)}

\* Log, references and aliases of a virtual machine's firewall.
GuestFirewallAliases == {
    Get("VirtualMachine", "Firewall", <<"nodes", ".node", "qemu", ".vmid", "firewall">>, {}, Data),
    Get("VirtualMachine", "FirewallLog", <<"nodes", ".node", "qemu", ".vmid", "firewall", "log">>, {}, Data),
    Get("VirtualMachine", "FirewallRefs", <<"nodes", ".node", "qemu", ".vmid", "firewall", "refs">>, {}, Data),
    Get("VirtualMachine", "GetFirewallAliases", <<"nodes", ".node", "qemu", ".vmid", "firewall", "aliases">>,
        {}, Data),
    Post("VirtualMachine", "NewFirewallAlias", <<"nodes", ".node", "qemu", ".vmid", "firewall", "aliases">>,
        {}, Nothing),
    Get("VirtualMachine", "GetFirewallAlias", <<"nodes", ".node", "qemu", ".vmid", "firewall", "aliases", "<name>">>,
        {}, Data),
    Put("VirtualMachine", "UpdateFirewallAlias", <<"nodes", ".node", "qemu", ".vmid", "firewall", "aliases",
        "<name>">>,
        {}, Nothing),
    Delete("VirtualMachine", "DeleteFirewallAlias", <<"nodes", ".node", "qemu", ".vmid", "firewall", "aliases",
        "<name>">>,
        {}, Nothing)}

\* Configuration, power and consoles of a container.
ContainerPower == {
    Delete("Container", "Delete", <<"nodes", ".node", "lxc", ".vmid">>, {}, ATask),
    Get("Container", "Ping", <<"nodes", ".node", "lxc", ".vmid", "status", "current">>, {}, Nothing),
    Put("Container", "Config", <<"nodes", ".node", "lxc", ".vmid", "config">>, {}, ATask),
    Post("Container", "Start", <<"nodes", ".node", "lxc", ".vmid", "status", "start">>, {}, ATask),
    Post("Container", "Stop", <<"nodes", ".node", "lxc", ".vmid", "status", "stop">>, {}, ATask),
    Post("Container", "Suspend", <<"nodes", ".node", "lxc", ".vmid", "status", "suspend">>, {}, ATask),
    Post("Container", "Reboot", <<"nodes", ".node", "lxc", ".vmid", "status", "reboot">>, {}, ATask),
    Post("Container", "Resume", <<"nodes", ".node", "lxc", ".vmid", "status", "resume">>, {}, ATask),
    Post("Container", "Shutdown", <<"nodes", ".node", "lxc", ".vmid", "status", "shutdown">>, {}, ATask),
    Post("Container", "TermProxy", <<"nodes", ".node", "lxc", ".vmid", "termproxy">>, {}, Data),
    Dial("Container", "TermWebSocket", <<"nodes", ".node", "lxc", ".vmid", "vncwebsocket">>),
    Dial("Container", "VNCWebSocket", <<"nodes", ".node", "lxc", ".vmid", "vncwebsocket">>),
    Get("Container", "Feature", <<"nodes", ".node", "lxc", ".vmid", "feature">>, {}, Data),
    Get("Container", "Interfaces", <<"nodes", ".node", "lxc", ".vmid", "interfaces">>, {}, Data),
    Post("Container", "Migrate", <<"nodes", ".node", "lxc", ".vmid", "migrate">>, {}, ATask),
    Put("Container", "Resize", <<"nodes", ".node", "lxc", ".vmid", "resize">>, {}, ATask),
    Post("Container", "MoveVolume", <<"nodes", ".node", "lxc", ".vmid", "move_volume">>, {}, ATask)}

\* Metrics and snapshots of a container.
ContainerSnapshots == {
    Get("Container", "RRDData", <<"nodes", ".node", "lxc", ".vmid", "rrddata">>, {}, Data),
    Post("Container", "Template", <<"nodes", ".node", "lxc", ".vmid", "template">>, {}, Nothing),
    Post("Container", "VNCProxy", <<"nodes", ".node", "lxc", ".vmid", "vncproxy">>, {}, Data),
    Get("Container", "Snapshots", <<"nodes", ".node", "lxc", ".vmid", "snapshot">>, {},
        Each("ContainerSnapshot", ".node" :> ".node" @@ ".vmid" :> ".vmid", Wired)),
    Post("Container", "NewSnapshot", <<"nodes", ".node", "lxc", ".vmid", "snapshot">>, {}, ATask),
    Lazy("Container", "Snapshot", <<"nodes", ".node", "lxc", ".vmid", "snapshot", "<name>">>, {},
        One("ContainerSnapshot", ".node" :> ".node" @@ ".vmid" :> ".vmid" @@ ".name" :> "<name>", Wired, "kept")),
    Post("ContainerSnapshot", "Rollback", <<"nodes", ".node", "lxc", ".vmid", "snapshot", ".name", "rollback">>,
        {}, ATask),
    Delete("ContainerSnapshot", "Delete", <<"nodes", ".node", "lxc", ".vmid", "snapshot", ".name">>, {}, ATask),
    Get("ContainerSnapshot", "Config", <<"nodes", ".node", "lxc", ".vmid", "snapshot", ".name", "config">>,
        {}, Data),
    Put("ContainerSnapshot", "UpdateConfig", <<"nodes", ".node", "lxc", ".vmid", "snapshot", ".name", "config">>,
        {}, Nothing),
    Get("ContainerSnapshot", "SubResources", <<"nodes", ".node", "lxc", ".vmid", "snapshot", ".name">>, {}, Data),
    Get("Container", "Firewall", <<"nodes", ".node", "lxc", ".vmid", "firewall">>, {}, Data)}

\* The firewall of a container.  The handle of a new rule keeps the caller's position.
ContainerFirewall == {
    Get("Container", "GetFirewallAliases", <<"nodes", ".node", "lxc", ".vmid", "firewall", "aliases">>, {}, Data),
    Post("Container", "NewFirewallAlias", <<"nodes", ".node", "lxc", ".vmid", "firewall", "aliases">>, {}, Nothing),
    Get("Container", "GetFirewallAlias", <<"nodes", ".node", "lxc", ".vmid", "firewall", "aliases", "<name>">>,
        {}, Data),
    Put("Container", "UpdateFirewallAlias", <<"nodes", ".node", "lxc", ".vmid", "firewall", "aliases", "<name>">>,
        {}, Nothing),
    Delete("Container", "DeleteFirewallAlias", <<"nodes", ".node", "lxc", ".vmid", "firewall", "aliases", "<name>">>,
        {}, Nothing),
    Get("Container", "GetFirewallIPSet", <<"nodes", ".node", "lxc", ".vmid", "firewall", "ipset">>, {}, Data),
    Post("Container", "NewFirewallIPSet", <<"nodes", ".node", "lxc", ".vmid", "firewall", "ipset">>, {}, Nothing),
    Delete("Container", "DeleteFirewallIPSet", <<"nodes", ".node", "lxc", ".vmid", "firewall", "ipset", "<name>">>,
        {}, Nothing),
    Get("Container", "GetFirewallIPSetEntries", <<"nodes", ".node", "lxc", ".vmid", "firewall", "ipset", "<name>">>,
        {}, Data),
    Post("Container", "NewFirewallIPSetEntry", <<"nodes", ".node", "lxc", ".vmid", "firewall", "ipset", "<name>">>,
        {}, Nothing),
    Delete("Container", "DeleteFirewallIPSetEntry", <<"nodes", ".node", "lxc", ".vmid", "firewall", "ipset",
        "<name>", "<cidr>">>,
        {}, Nothing),
    Get("Container", "GetFirewallIPSetEntry", <<"nodes", ".node", "lxc", ".vmid", "firewall", "ipset", "<name>",
        "<cidr>">>,
        {}, Data),
    Put("Container", "UpdateFirewallIPSetEntry", <<"nodes", ".node", "lxc", ".vmid", "firewall", "ipset",
        "<name>", "<cidr>">>,
        {}, Nothing),
    Get("Container", "FirewallRules", <<"nodes", ".node", "lxc", ".vmid", "firewall", "rules">>, {},
        Each("ContainerRule", ".node" :> ".node" @@ ".vmid" :> ".vmid", Wired)),
    Lazy("Container", "FirewallRule", <<"nodes", ".node", "lxc", ".vmid", "firewall", "rules", "<pos>">>, {},
        One("ContainerRule", ".node" :> ".node" @@ ".vmid" :> ".vmid" @@ ".pos" :> "<pos>", Wired, "kept")),
    Post("Container", "NewFirewallRule", <<"nodes", ".node", "lxc", ".vmid", "firewall", "rules">>, {},
        Created("ContainerRule", ".node" :> ".node" @@ ".vmid" :> ".vmid" @@ ".pos" :> "<pos>")),
    Get("Container", "GetFirewallOptions", <<"nodes", ".node", "lxc", ".vmid", "firewall", "options">>, {}, Data),
    Put("Container", "UpdateFirewallOptions", <<"nodes", ".node", "lxc", ".vmid", "firewall", "options">>,
        {}, Nothing)}

\* Pending changes, migration and indexes of a container.
ContainerTunnels == {
    Get("Container", "Pending", <<"nodes", ".node", "lxc", ".vmid", "pending">>, {}, Data),
    Get("Container", "RRD", <<"nodes", ".node", "lxc", ".vmid", "rrd">>, {}, Data),
    Post("Container", "RemoteMigrate", <<"nodes", ".node", "lxc", ".vmid", "remote_migrate">>, {}, ATask),
    Post("Container", "SpiceProxy", <<"nodes", ".node", "lxc", ".vmid", "spiceproxy">>, {}, Data),
    Get("Container", "FirewallLog", <<"nodes", ".node", "lxc", ".vmid", "firewall", "log">>, {}, Data),
    Get("Container", "FirewallRefs", <<"nodes", ".node", "lxc", ".vmid", "firewall", "refs">>, {}, Data),
    Get("Container", "DirIndex", <<"nodes", ".node", "lxc", ".vmid">>, {}, Data),
    Get("Container", "StatusIndex", <<"nodes", ".node", "lxc", ".vmid", "status">>, {}, Data),
    Get("Container", "MigratePreconditions", <<"nodes", ".node", "lxc", ".vmid", "migrate">>, {}, Data),
    Post("Container", "MigrationTunnel", <<"nodes", ".node", "lxc", ".vmid", "mtunnel">>, {}, Data),
    Lazy("Container", "MigrationTunnelWebSocketPath", <<"nodes", ".node", "lxc", ".vmid", "mtunnelwebsocket">>,
        {}, Data)}

\* A firewall rule reaches the firewall it was read from; one without a parent is refused.
AttachedRules == {
    Get("NodeRule", "Get", <<"nodes", ".node", "firewall", "rules", ".pos">>, {".client"}, Itself),
    Put("NodeRule", "Update", <<"nodes", ".node", "firewall", "rules", ".pos">>, {".client"}, Nothing),
    Delete("NodeRule", "Delete", <<"nodes", ".node", "firewall", "rules", ".pos">>, {".client"}, Nothing),
    Get("GuestRule", "Get", <<"nodes", ".node", "qemu", ".vmid", "firewall", "rules", ".pos">>,
        {".client"}, Itself),
    Put("GuestRule", "Update", <<"nodes", ".node", "qemu", ".vmid", "firewall", "rules", ".pos">>,
        {".client"}, Nothing),
    Delete("GuestRule", "Delete", <<"nodes", ".node", "qemu", ".vmid", "firewall", "rules", ".pos">>,
        {".client"}, Nothing),
    Get("ContainerRule", "Get", <<"nodes", ".node", "lxc", ".vmid", "firewall", "rules", ".pos">>,
        {".client"}, Itself),
    Put("ContainerRule", "Update", <<"nodes", ".node", "lxc", ".vmid", "firewall", "rules", ".pos">>,
        {".client"}, Nothing),
    Delete("ContainerRule", "Delete", <<"nodes", ".node", "lxc", ".vmid", "firewall", "rules", ".pos">>,
        {".client"}, Nothing),
    Get("LooseRule", "Get", <<>>, {".client"}, Itself),
    Put("LooseRule", "Update", <<>>, {".client"}, Nothing),
    Delete("LooseRule", "Delete", <<>>, {".client"}, Nothing)}

\* Every guest request.
ApiGuestOps ==
    UNION {GuestConfig, GuestPower, GuestMigration, GuestDisks, GuestAgentExec, GuestFirewall,
           GuestSnapshots, GuestTunnels, AgentFacts, AgentCommands, CloudInitState, GuestFirewallAliases,
           ContainerPower, ContainerSnapshots, ContainerFirewall, ContainerTunnels, AttachedRules}
================================================================================
