------------------------------ MODULE ApiNode ------------------------------
(* Requests about a node: its guests, storages, services, Ceph, disks,       *)
(* packages and networks, and about the volumes of its storages.            *)
EXTENDS ApiTable

\* The node itself, its consoles and its guests.
NodeGuests == {
    Get("Client", "Nodes", <<"nodes">>, {}, Data),
    Tolerant(Get("Client", "Node", <<"nodes", "<name>", "status">>, {},
        One("Node", ".node" :> "<name>", Wired, "kept"))),
    Lazy("Node", "New", <<"nodes", "<name>">>, {}, One("Node", ".node" :> "<name>", Wired, "kept")),
    Get("Node", "Status", <<"nodes", ".node", "status">>, {}, Itself),
    Get("Node", "Version", <<"nodes", ".node", "version">>, {}, Data),
    Get("Node", "Report", <<"nodes", ".node", "report">>, {}, Data),
    Post("Node", "TermProxy", <<"nodes", ".node", "termproxy">>, {}, Data),
    Dial("Node", "TermWebSocket", <<"nodes", ".node", "vncwebsocket">>),
    Dial("Node", "VNCWebSocket", <<"nodes", ".node", "vncwebsocket">>),
    Get("Node", "VirtualMachines", <<"nodes", ".node", "qemu">>, {},
        Each("VirtualMachine", ".node" :> ".node", Wired)),
    Post("Node", "NewVirtualMachine", <<"nodes", ".node", "qemu">>, {}, ATask),
    Get("Node", "VirtualMachine", <<"nodes", ".node", "qemu", "<vmid>", "status", "current">>, {},
        One("VirtualMachine", ".node" :> ".node", Wired, "panic")),
    Get("Node", "Containers", <<"nodes", ".node", "lxc">>, {}, Each("Container", ".node" :> ".node", Wired)),
    Get("Node", "Container", <<"nodes", ".node", "lxc", "<vmid>", "status", "current">>, {},
        One("Container", ".node" :> ".node", Wired, "panic"))}

\* Appliances and storages of a node.
NodeStorages == {
    Get("Node", "Appliances", <<"nodes", ".node", "aplinfo">>, {}, Each("Appliance", ".node" :> ".node", Wired)),
    Post("Node", "DownloadAppliance", <<"nodes", ".node", "aplinfo">>, {}, Data),
    Get("Node", "VzTmpls", <<"nodes", ".node", "storage", "<storage>", "content">>, {},
        Each("VzTmpl", FromReply, Unwired)),
    Get("Node", "VzTmpl", <<"nodes", ".node", "storage", "<storage>", "content">>, {},
        Found("VzTmpl", FromReply, Unwired)),
    Get("Node", "Storages", <<"nodes", ".node", "storage">>, {}, Each("Storage", ".node" :> ".node", Wired)),
    Get("Node", "Storage", <<"nodes", ".node", "storage", "<name>", "status">>, {},
        One("Storage", ".node" :> ".node" @@ ".storage" :> "<name>", Wired, "error")),
    Post("Node", "StorageDownloadURL", <<"nodes", ".node", "storage", "<storage>", "download-url">>, {}, Data),
    Get("Node", "StorageISO", <<"nodes", ".node", "storage">>, {}, Found("Storage", ".node" :> ".node", Wired)),
    Get("Node", "StorageVZTmpl", <<"nodes", ".node", "storage">>, {}, Found("Storage", ".node" :> ".node", Wired)),
    Get("Node", "StorageBackup", <<"nodes", ".node", "storage">>, {}, Found("Storage", ".node" :> ".node", Wired)),
    Get("Node", "StorageSnippets", <<"nodes", ".node", "storage">>, {}, Found("Storage", ".node" :> ".node", Wired)),
    Get("Node", "StorageRootDir", <<"nodes", ".node", "storage">>, {}, Found("Storage", ".node" :> ".node", Wired)),
    Get("Node", "StorageImages", <<"nodes", ".node", "storage">>, {}, Found("Storage", ".node" :> ".node", Wired))}

\* The node's firewall and its custom certificate.  The handle of a new rule keeps
\* the caller's position, wherever the server has put the rule.
NodeFirewall == {
    Get("Node", "FirewallOptionGet", <<"nodes", ".node", "firewall", "options">>, {}, Data),
    Put("Node", "FirewallOptionSet", <<"nodes", ".node", "firewall", "options">>, {}, Nothing),
    Get("Node", "FirewallRules", <<"nodes", ".node", "firewall", "rules">>, {},
        Each("NodeRule", ".node" :> ".node", Wired)),
    Lazy("Node", "FirewallRule", <<"nodes", ".node", "firewall", "rules", "<pos>">>, {},
        One("NodeRule", ".node" :> ".node" @@ ".pos" :> "<pos>", Wired, "kept")),
    Post("Node", "NewFirewallRule", <<"nodes", ".node", "firewall", "rules">>, {},
        Created("NodeRule", ".node" :> ".node" @@ ".pos" :> "<pos>")),
    Get("Node", "FirewallGetRule", <<"nodes", ".node", "firewall", "rules", "<rulepos>">>, {},
        One("LooseRule", FromReply, Unwired, "nil")),
    Get("Node", "FirewallLog", <<"nodes", ".node", "firewall", "log">>, {}, Data),
    Post("Node", "UploadCustomCertificate", <<"nodes", ".node", "certificates", "custom">>, {}, Nothing),
    Delete("Node", "DeleteCustomCertificate", <<"nodes", ".node", "certificates", "custom">>, {}, Nothing),
    Get("Node", "GetCustomCertificates", <<"nodes", ".node", "certificates", "info">>, {}, Data)}

\* Certificates and backups of a node.
NodeCertificates == {
    Get("Node", "ListCertificateSubresources", <<"nodes", ".node", "certificates">>, {}, Data),
    Get("Node", "ListACMECertificateSubresources", <<"nodes", ".node", "certificates", "acme">>, {}, Data),
    Post("Node", "OrderACMECertificate", <<"nodes", ".node", "certificates", "acme", "certificate">>, {}, ATask),
    Put("Node", "RenewACMECertificate", <<"nodes", ".node", "certificates", "acme", "certificate">>, {}, ATask),
    Delete("Node", "RevokeACMECertificate", <<"nodes", ".node", "certificates", "acme", "certificate">>, {}, ATask),
    Post("Node", "Vzdump", <<"nodes", ".node", "vzdump">>, {}, ATask),
    Get("Node", "VzdumpExtractConfig", <<"nodes", ".node", "vzdump", "extractconfig">>, {}, Data)}

\* Services and clock of a node.
NodeServices == {
    Get("Node", "Services", <<"nodes", ".node", "services">>, {}, Each("NodeService", ".node" :> ".node", Wired)),
    Lazy("Node", "Service", <<"nodes", ".node", "services", "<name>">>, {},
        One("NodeService", ".node" :> ".node" @@ ".name" :> "<name>", Wired, "kept")),
    Get("NodeService", "State", <<"nodes", ".node", "services", ".name", "state">>, {}, Itself),
    Post("NodeService", "Start", <<"nodes", ".node", "services", ".name", "start">>, {}, ATask),
    Post("NodeService", "Stop", <<"nodes", ".node", "services", ".name", "stop">>, {}, ATask),
    Post("NodeService", "Restart", <<"nodes", ".node", "services", ".name", "restart">>, {}, ATask),
    Post("NodeService", "Reload", <<"nodes", ".node", "services", ".name", "reload">>, {}, ATask),
    Get("Node", "Time", <<"nodes", ".node", "time">>, {}, Data),
    Put("Node", "SetTimezone", <<"nodes", ".node", "time">>, {}, Nothing)}

\* Subscription of a node, and actions on all its guests.
NodeSubscription == {
    Get("Node", "Subscription", <<"nodes", ".node", "subscription">>, {}, Data),
    Put("Node", "SetSubscription", <<"nodes", ".node", "subscription">>, {}, Nothing),
    Post("Node", "RefreshSubscription", <<"nodes", ".node", "subscription">>, {}, Nothing),
    Delete("Node", "DeleteSubscription", <<"nodes", ".node", "subscription">>, {}, Nothing),
    Post("Node", "StartAll", <<"nodes", ".node", "startall">>, {}, ATask),
    Post("Node", "StopAll", <<"nodes", ".node", "stopall">>, {}, ATask),
    Post("Node", "SuspendAll", <<"nodes", ".node", "suspendall">>, {}, ATask),
    Post("Node", "MigrateAll", <<"nodes", ".node", "migrateall">>, {"<target>"}, ATask),
    Post("Node", "WakeOnLAN", <<"nodes", ".node", "wakeonlan">>, {}, Data)}

\* Replication jobs as one node sees them.
NodeReplication == {
    Get("Node", "Replications", <<"nodes", ".node", "replication">>, {},
        Each("NodeReplicationJob", ".node" :> ".node", Wired)),
    Lazy("Node", "Replication", <<"nodes", ".node", "replication", "<id>">>, {},
        One("NodeReplicationJob", ".node" :> ".node" @@ ".id" :> "<id>", Wired, "kept")),
    Get("NodeReplicationJob", "Status", <<"nodes", ".node", "replication", ".id", "status">>, {}, Itself),
    Get("NodeReplicationJob", "Log", <<"nodes", ".node", "replication", ".id", "log">>, {}, Data),
    Post("NodeReplicationJob", "ScheduleNow", <<"nodes", ".node", "replication", ".id", "schedule_now">>, {}, ATask)}

\* Configuration, hosts file and power of a node.
NodeAdmin == {
    Get("Node", "GetConfig", <<"nodes", ".node", "config">>, {}, Data),
    Get("Node", "GetConfigProperty", <<"nodes", ".node", "config">>, {}, Data),
    Put("Node", "UpdateConfig", <<"nodes", ".node", "config">>, {}, Nothing),
    Get("Node", "Hosts", <<"nodes", ".node", "hosts">>, {}, Data),
    Post("Node", "UpdateHosts", <<"nodes", ".node", "hosts">>, {}, Nothing),
    Post("Node", "Reboot", <<"nodes", ".node", "status">>, {}, Nothing),
    Post("Node", "Shutdown", <<"nodes", ".node", "status">>, {}, Nothing)}

\* Journal, system log and batched commands of a node.
NodeLogs == {
    Get("Node", "Journal", <<"nodes", ".node", "journal">>, {}, Data),
    Get("Node", "Syslog", <<"nodes", ".node", "syslog">>, {}, Data),
    Get("Node", "Netstat", <<"nodes", ".node", "netstat">>, {}, Data),
    Post("Node", "Execute", <<"nodes", ".node", "execute">>, {"<commands>"}, Data)}

\* Shells on a node, and its task list.
NodeShells == {
    Post("Node", "VNCShell", <<"nodes", ".node", "vncshell">>, {}, Data),
    Post("Node", "SpiceShell", <<"nodes", ".node", "spiceshell">>, {}, Data),
    Get("Node", "Tasks", <<"nodes", ".node", "tasks">>, {}, Each("Task", FromReply, Wired)),
    Delete("Node", "RevertNetworkChanges", <<"nodes", ".node", "network">>, {}, Nothing)}

\* Packages and repositories.
AptPackages == {
    Get("Node", "APT", <<"nodes", ".node", "apt">>, {}, Data),
    Get("Node", "APTUpdates", <<"nodes", ".node", "apt", "update">>, {}, Data),
    Post("Node", "APTUpdate", <<"nodes", ".node", "apt", "update">>, {}, ATask),
    Get("Node", "APTChangelog", <<"nodes", ".node", "apt", "changelog">>, {}, Data),
    Get("Node", "APTRepositories", <<"nodes", ".node", "apt", "repositories">>, {}, Data),
    Post("Node", "APTChangeRepository", <<"nodes", ".node", "apt", "repositories">>, {}, Nothing),
    Put("Node", "APTAddRepository", <<"nodes", ".node", "apt", "repositories">>, {}, Nothing),
    Get("Node", "APTVersions", <<"nodes", ".node", "apt", "versions">>, {}, Data)}

\* What the node's hypervisor supports.
NodeCapabilities == {
    Get("Node", "CapabilitiesIndex", <<"nodes", ".node", "capabilities">>, {}, Data),
    Get("Node", "QEMUCapabilitiesIndex", <<"nodes", ".node", "capabilities", "qemu">>, {}, Data),
    Get("Node", "QEMUCPUModels", <<"nodes", ".node", "capabilities", "qemu", "cpu">>, {}, Data),
    Get("Node", "QEMUCPUFlags", <<"nodes", ".node", "capabilities", "qemu", "cpu-flags">>, {}, Data),
    Get("Node", "QEMUMachineTypes", <<"nodes", ".node", "capabilities", "qemu", "machines">>, {}, Data),
    Get("Node", "QEMUMigrationCapabilities", <<"nodes", ".node", "capabilities", "qemu", "migration">>, {}, Data)}

\* Setting up, starting and inspecting Ceph on a node.
CephControl == {
    Get("Node", "CephIndex", <<"nodes", ".node", "ceph">>, {}, Data),
    Post("Node", "InitCeph", <<"nodes", ".node", "ceph", "init">>, {}, ATask),
    Post("Node", "StartCeph", <<"nodes", ".node", "ceph", "start">>, {}, ATask),
    Post("Node", "StopCeph", <<"nodes", ".node", "ceph", "stop">>, {}, ATask),
    Post("Node", "RestartCeph", <<"nodes", ".node", "ceph", "restart">>, {}, ATask),
    Get("Node", "CephStatus", <<"nodes", ".node", "ceph", "status">>, {}, Data),
    Get("Node", "CephLog", <<"nodes", ".node", "ceph", "log">>, {}, Data),
    Get("Node", "CephCrush", <<"nodes", ".node", "ceph", "crush">>, {}, Data),
    Get("Node", "CephRules", <<"nodes", ".node", "ceph", "rules">>, {}, Data),
    Get("Node", "CephCmdSafety", <<"nodes", ".node", "ceph", "cmd-safety">>, {"<action>", "<id>", "<service>"}, Data)}

\* Ceph's configuration.
CephConfig == {
    Get("Node", "CephCfg", <<"nodes", ".node", "ceph", "cfg">>, {}, Data),
    Get("Node", "CephCfgDB", <<"nodes", ".node", "ceph", "cfg", "db">>, {}, Data),
    Get("Node", "CephCfgRaw", <<"nodes", ".node", "ceph", "cfg", "raw">>, {}, Data),
    Get("Node", "CephCfgValue", <<"nodes", ".node", "ceph", "cfg", "value">>, {"<configkeys>"}, Data)}

\* Ceph monitors and managers.
CephMonsAndMgrs == {
    Get("Node", "CephMons", <<"nodes", ".node", "ceph", "mon">>, {}, Each("CephMon", ".node" :> ".node", Wired)),
    Post("Node", "CreateCephMon", <<"nodes", ".node", "ceph", "mon", "<monid>">>, {}, ATask),
    Lazy("Node", "CephMon", <<"nodes", ".node", "ceph", "mon", "<monid>">>, {},
        One("CephMon", ".node" :> ".node" @@ ".name" :> "<monid>", Wired, "kept")),
    Delete("CephMon", "Delete", <<"nodes", ".node", "ceph", "mon", ".name">>, {".name"}, ATask),
    Get("Node", "CephMgrs", <<"nodes", ".node", "ceph", "mgr">>, {}, Each("CephMgr", ".node" :> ".node", Wired)),
    Post("Node", "CreateCephMgr", <<"nodes", ".node", "ceph", "mgr", "<id>">>, {}, ATask),
    Lazy("Node", "CephMgr", <<"nodes", ".node", "ceph", "mgr", "<id>">>, {},
        One("CephMgr", ".node" :> ".node" @@ ".name" :> "<id>", Wired, "kept")),
    Delete("CephMgr", "Delete", <<"nodes", ".node", "ceph", "mgr", ".name">>, {".name"}, ATask)}

\* Ceph metadata servers.
CephMDSs == {
    Get("Node", "CephMDSs", <<"nodes", ".node", "ceph", "mds">>, {}, Each("CephMDS", ".node" :> ".node", Wired)),
    Post("Node", "CreateCephMDS", <<"nodes", ".node", "ceph", "mds", "<name>">>, {}, ATask),
    Lazy("Node", "CephMDS", <<"nodes", ".node", "ceph", "mds", "<name>">>, {},
        One("CephMDS", ".node" :> ".node" @@ ".name" :> "<name>", Wired, "kept")),
    Delete("CephMDS", "Delete", <<"nodes", ".node", "ceph", "mds", ".name">>, {".name"}, ATask)}

\* Ceph file systems.
CephFileSystems == {
    Get("Node", "CephFSs", <<"nodes", ".node", "ceph", "fs">>, {}, Each("CephFS", ".node" :> ".node", Wired)),
    Post("Node", "CreateCephFS", <<"nodes", ".node", "ceph", "fs", "<name>">>, {"<name>"}, ATask),
    Lazy("Node", "CephFS", <<"nodes", ".node", "ceph", "fs", "<name>">>, {},
        One("CephFS", ".node" :> ".node" @@ ".name" :> "<name>", Wired, "kept")),
    Delete("CephFS", "Delete", <<"nodes", ".node", "ceph", "fs", ".name">>, {".name"}, ATask)}

\* Ceph object stores.
CephOSDs == {
    Get("Node", "CephOSDs", <<"nodes", ".node", "ceph", "osd">>, {}, Data),
    Post("Node", "CreateCephOSD", <<"nodes", ".node", "ceph", "osd">>, {"<dev>"}, ATask),
    Lazy("Node", "CephOSD", <<"nodes", ".node", "ceph", "osd", "<osdid>">>, {},
        One("CephOSD", ".node" :> ".node" @@ ".osdid" :> "<osdid>", Wired, "kept")),
    Get("CephOSD", "SubResources", <<"nodes", ".node", "ceph", "osd", ".osdid">>, {}, Data),
    Delete("CephOSD", "Delete", <<"nodes", ".node", "ceph", "osd", ".osdid">>, {}, ATask),
    Post("CephOSD", "In", <<"nodes", ".node", "ceph", "osd", ".osdid", "in">>, {}, Nothing),
    Post("CephOSD", "Out", <<"nodes", ".node", "ceph", "osd", ".osdid", "out">>, {}, Nothing),
    Post("CephOSD", "Scrub", <<"nodes", ".node", "ceph", "osd", ".osdid", "scrub">>, {}, Nothing),
    Get("CephOSD", "LVInfo", <<"nodes", ".node", "ceph", "osd", ".osdid", "lv-info">>, {}, Data),
    Get("CephOSD", "Metadata", <<"nodes", ".node", "ceph", "osd", ".osdid", "metadata">>, {}, Data)}

\* Ceph pools.
CephPools == {
    Get("Node", "CephPools", <<"nodes", ".node", "ceph", "pool">>, {}, Each("CephPool", ".node" :> ".node", Wired)),
    Post("Node", "CreateCephPool", <<"nodes", ".node", "ceph", "pool">>, {"<name>"}, ATask),
    Lazy("Node", "CephPool", <<"nodes", ".node", "ceph", "pool", "<name>">>, {},
        One("CephPool", ".node" :> ".node" @@ ".poolname" :> "<name>", Wired, "kept")),
    Get("CephPool", "SubResources", <<"nodes", ".node", "ceph", "pool", ".poolname">>, {".poolname"}, Data),
    Put("CephPool", "Update", <<"nodes", ".node", "ceph", "pool", ".poolname">>, {"<opts>", ".poolname"}, ATask),
    Delete("CephPool", "Delete", <<"nodes", ".node", "ceph", "pool", ".poolname">>, {".poolname"}, ATask),
    Get("CephPool", "Status", <<"nodes", ".node", "ceph", "pool", ".poolname", "status">>, {".poolname"}, Data)}

\* Directory listings; each goes through one of the helpers at its end.
NodeIndexes == {
    Get("Node", "Subdirs", <<"nodes", ".node">>, {}, Data),
    Get("Node", "FirewallSubdirs", <<"nodes", ".node", "firewall">>, {}, Data),
    Get("Node", "DisksSubdirs", <<"nodes", ".node", "disks">>, {}, Data),
    Get("NodeReplicationJob", "Subdirs", <<"nodes", ".node", "replication", ".id">>, {".id"}, Data),
    Get("NodeService", "Subdirs", <<"nodes", ".node", "services", ".name">>, {".name"}, Data),
    Get("Task", "Subdirs", <<"nodes", ".node", "tasks", ".upid">>, {".upid"}, Data),
    Get("Storage", "Status", <<"nodes", ".node", "storage", ".storage">>, {}, Data)}

\* Disks and directory storages.
DisksAndDirectories == {
    Get("Node", "Disks", <<"nodes", ".node", "disks", "list">>, {}, Data),
    Get("Node", "DiskSMART", <<"nodes", ".node", "disks", "smart">>, {"<disk>"}, Data),
    Post("Node", "DiskInitGPT", <<"nodes", ".node", "disks", "initgpt">>, {"<disk>"}, ATask),
    Put("Node", "DiskWipe", <<"nodes", ".node", "disks", "wipedisk">>, {"<disk>"}, ATask),
    Get("Node", "Directories", <<"nodes", ".node", "disks", "directory">>, {}, Data),
    Post("Node", "NewDirectory", <<"nodes", ".node", "disks", "directory">>, {"<device>", "<name>"}, ATask),
    Delete("Node", "DeleteDirectory", <<"nodes", ".node", "disks", "directory", "<name>">>, {"<name>"}, ATask)}

\* LVM, thin LVM and ZFS.
VolumeGroups == {
    Get("Node", "LVMs", <<"nodes", ".node", "disks", "lvm">>, {}, Data),
    Post("Node", "NewLVM", <<"nodes", ".node", "disks", "lvm">>, {"<device>", "<name>"}, ATask),
    Delete("Node", "DeleteLVM", <<"nodes", ".node", "disks", "lvm", "<name>">>, {"<name>"}, ATask),
    Get("Node", "LVMThins", <<"nodes", ".node", "disks", "lvmthin">>, {}, Data),
    Post("Node", "NewLVMThin", <<"nodes", ".node", "disks", "lvmthin">>, {"<device>", "<name>"}, ATask),
    Delete("Node", "DeleteLVMThin", <<"nodes", ".node", "disks", "lvmthin", "<name>">>,
        {"<name>", "<volumegroup>"}, ATask),
    Get("Node", "ZFSPools", <<"nodes", ".node", "disks", "zfs">>, {}, Data),
    Get("Node", "ZFSPool", <<"nodes", ".node", "disks", "zfs", "<name>">>, {"<name>"}, Data),
    Post("Node", "NewZFSPool", <<"nodes", ".node", "disks", "zfs">>, {"<devices>", "<name>", "<raidlevel>"}, ATask),
    Delete("Node", "DeleteZFSPool", <<"nodes", ".node", "disks", "zfs", "<name>">>, {"<name>"}, ATask)}

\* The resolver of a node.
NodeDns == {
    Get("Node", "DNS", <<"nodes", ".node", "dns">>, {}, Data),
    Put("Node", "UpdateDNS", <<"nodes", ".node", "dns">>, {}, Nothing)}

\* PCI and USB devices.
NodeHardware == {
    Get("Node", "HardwareIndex", <<"nodes", ".node", "hardware">>, {}, Data),
    Get("Node", "ListPCIDevices", <<"nodes", ".node", "hardware", "pci">>, {},
        Each("PCIDevice", ".node" :> ".node", Wired)),
    Get("Node", "ListUSBDevices", <<"nodes", ".node", "hardware", "usb">>, {}, Data),
    Lazy("Node", "PCIDevice", <<"nodes", ".node", "hardware", "pci", "<id>">>, {},
        One("PCIDevice", ".node" :> ".node" @@ ".id" :> "<id>", Wired, "kept")),
    Get("PCIDevice", "Index", <<"nodes", ".node", "hardware", "pci", ".id">>, {".id"}, Data),
    Get("PCIDevice", "Mdev", <<"nodes", ".node", "hardware", "pci", ".id", "mdev">>, {".id"}, Data)}

\* Metrics and remote metadata.
NodeMetrics == {
    Get("Node", "RRD", <<"nodes", ".node", "rrd">>, {"<ds>"}, Data),
    Get("Node", "RRDData", <<"nodes", ".node", "rrddata">>, {}, Data),
    Get("Node", "QueryURLMetadata", <<"nodes", ".node", "query-url-metadata">>, {"<fileurl>"}, Data),
    Get("Node", "QueryOCIRepoTags", <<"nodes", ".node", "query-oci-repo-tags">>, {"<reference>"}, Data),
    Get("Node", "VzdumpDefaults", <<"nodes", ".node", "vzdump", "defaults">>, {}, Data)}

\* Network interfaces: those without a name are left alone, silently.  A new one
\* becomes a handle, and the reload that follows gives a task.
NodeNetworks == {
    Post("Node", "NewNetwork", <<"nodes", ".node", "network">>, {}, ATask),
    Post("Node", "NewNetwork", <<"nodes", ".node", "network">>, {}, Created("NodeNetwork", ".node" :> ".node")),
    Get("Node", "Network", <<"nodes", ".node", "network", "<iface>">>, {},
        One("NodeNetwork", ".node" :> ".node" @@ ".iface" :> "<iface>", Wired, "nil")),
    Get("Node", "Networks", <<"nodes", ".node", "network">>, {}, Each("NodeNetwork", ".node" :> ".node", Wired)),
    Put("Node", "NetworkReload", <<"nodes", ".node", "network">>, {}, ATask),
    Silently(Put("NodeNetwork", "Update", <<"nodes", ".node", "network", ".iface">>, {".iface"}, Nothing)),
    Silently(Delete("NodeNetwork", "Delete", <<"nodes", ".node", "network", ".iface">>, {".iface"}, ATask)),
    Get("Node", "IPAM", <<"cluster", "sdn", "ipams", ".node", "status">>, {}, Data)}

\* Scans for storages a node could use.
StorageScans == {
    Get("Node", "ScanIndex", <<"nodes", ".node", "scan">>, {}, Data),
    Get("Node", "ScanZFS", <<"nodes", ".node", "scan", "zfs">>, {}, Data),
    Get("Node", "ScanLVM", <<"nodes", ".node", "scan", "lvm">>, {}, Data),
    Get("Node", "ScanLVMThin", <<"nodes", ".node", "scan", "lvmthin">>, {"<vg>"}, Data),
    Get("Node", "ScanNFS", <<"nodes", ".node", "scan", "nfs">>, {"<server>"}, Data),
    Get("Node", "ScanCIFS", <<"nodes", ".node", "scan", "cifs">>, {"<server>"}, Data),
    Get("Node", "ScanPBS", <<"nodes", ".node", "scan", "pbs">>, {"<password>", "<server>", "<username>"}, Data),
    Get("Node", "ScanISCSI", <<"nodes", ".node", "scan", "iscsi">>, {"<portal>"}, Data)}

\* SDN as one node sees it.
NodeSdn == {
    Get("Node", "SDNIndex", <<"nodes", ".node", "sdn">>, {}, Data),
    Get("Node", "SDNFabricIndex", <<"nodes", ".node", "sdn", "fabrics", "<fabric>">>, {"<fabric>"}, Data),
    Get("Node", "SDNFabricInterfaces", <<"nodes", ".node", "sdn", "fabrics", "<fabric>", "interfaces">>,
        {"<fabric>"}, Data),
    Get("Node", "SDNFabricNeighbors", <<"nodes", ".node", "sdn", "fabrics", "<fabric>", "neighbors">>,
        {"<fabric>"}, Data),
    Get("Node", "SDNFabricRoutes", <<"nodes", ".node", "sdn", "fabrics", "<fabric>", "routes">>, {"<fabric>"}, Data),
    Get("Node", "SDNVNetIndex", <<"nodes", ".node", "sdn", "vnets", "<vnet>">>, {"<vnet>"}, Data),
    Get("Node", "SDNVNetMACVRF", <<"nodes", ".node", "sdn", "vnets", "<vnet>", "mac-vrf">>, {"<vnet>"}, Data),
    Get("Node", "SDNZones", <<"nodes", ".node", "sdn", "zones">>, {}, Data),
    Get("Node", "SDNZoneIndex", <<"nodes", ".node", "sdn", "zones", "<zone>">>, {"<zone>"}, Data),
    Get("Node", "SDNZoneBridges", <<"nodes", ".node", "sdn", "zones", "<zone>", "bridges">>, {"<zone>"}, Data),
    Get("Node", "SDNZoneContent", <<"nodes", ".node", "sdn", "zones", "<zone>", "content">>, {"<zone>"}, Data),
    Get("Node", "SDNZoneIPVRF", <<"nodes", ".node", "sdn", "zones", "<zone>", "ip-vrf">>, {"<zone>"}, Data)}

\* The cluster's storage definitions.
ClusterStorages == {
    Get("Client", "ClusterStorages", <<"storage">>, {}, Each("ClusterStorage", FromReply, Wired)),
    Get("Client", "ClusterStorage", <<"storage", "<name>">>, {}, One("ClusterStorage", FromReply, Wired, "panic")),
    Delete("Client", "DeleteClusterStorage", <<"storage", "<name>">>, {}, ATask),
    Post("Client", "NewClusterStorage", <<"storage">>, {}, ATask),
    Put("Client", "UpdateClusterStorage", <<"storage", "<name>">>, {}, ATask)}

\* Uploads and downloads: content of an unknown type is refused.
StorageTransfers == {
    Post("Storage", "Upload", <<"nodes", ".node", "storage", ".storage", "upload">>, {"<content>"}, ATask),
    Post("Storage", "UploadWithName", <<"nodes", ".node", "storage", ".storage", "upload">>, {"<content>"}, ATask),
    Post("Storage", "UploadWithHash", <<"nodes", ".node", "storage", ".storage", "upload">>, {"<content>"}, ATask),
    Post("Storage", "UploadString", <<"nodes", ".node", "storage", ".storage", "upload">>, {"<content>"}, ATask),
    Post("Storage", "DownloadURL", <<"nodes", ".node", "storage", ".storage", "download-url">>, {"<content>"}, ATask),
    Post("Storage", "DownloadURLWithHash", <<"nodes", ".node", "storage", ".storage", "download-url">>,
        {"<content>"}, ATask)}

\* Volumes: a reply without data is an error, not an absent volume.
StorageVolumes == {
    Get("Storage", "GetContent", <<"nodes", ".node", "storage", ".storage", "content">>, {}, Data),
    Delete("Storage", "DeleteContent", <<"nodes", ".node", "storage", ".storage", "content", "<content>">>,
        {}, ATask),
    Get("Storage", "ISO", <<"nodes", ".node", "storage", ".storage", "content", "<name>">>, {},
        One("ISO", ".node" :> ".node" @@ ".storage" :> ".storage" @@ ".volid" :> "<name>", Wired, "error")),
    Get("Storage", "VzTmpl", <<"nodes", ".node", "storage", ".storage", "content", "<name>">>, {},
        One("VzTmpl", ".node" :> ".node" @@ ".storage" :> ".storage" @@ ".volid" :> "<name>", Wired, "error")),
    Get("Storage", "Import", <<"nodes", ".node", "storage", ".storage", "content", "<name>">>, {},
        One("Import", ".node" :> ".node" @@ ".storage" :> ".storage" @@ ".volid" :> "<name>", Wired, "error")),
    Get("Storage", "Backup", <<"nodes", ".node", "storage", ".storage", "content", "<name>">>, {},
        One("Backup", ".node" :> ".node" @@ ".storage" :> ".storage", Wired, "error")),
    Delete("VzTmpl", "Delete", <<"nodes", ".node", "storage", ".storage", "content", ".volid">>, {".volid"}, ATask),
    Delete("Backup", "Delete", <<"nodes", ".node", "storage", ".storage", "content", ".volid">>, {".volid"}, ATask),
    Delete("ISO", "Delete", <<"nodes", ".node", "storage", ".storage", "content", ".volid">>, {".volid"}, ATask)}

\* Pruning, metadata and identity of a storage.
StorageUpkeep == {
    Get("Storage", "PreviewPruneBackups", <<"nodes", ".node", "storage", ".storage", "prunebackups">>, {}, Data),
    Delete("Storage", "PruneBackups", <<"nodes", ".node", "storage", ".storage", "prunebackups">>, {}, ATask),
    Get("Storage", "ImportMetadata", <<"nodes", ".node", "storage", ".storage", "import-metadata">>, {}, Data),
    Get("Storage", "Identity", <<"nodes", ".node", "storage", ".storage", "identity">>, {}, Data),
    Get("Storage", "RRD", <<"nodes", ".node", "storage", ".storage", "rrd">>, {"<ds>"}, Data)}

\* Allocating, copying and restoring volumes.
StorageContents == {
    Post("Storage", "AllocContent", <<"nodes", ".node", "storage", ".storage", "content">>,
        {"<filename>", "<size>", "<vmid>"}, Data),
    Put("Storage", "UpdateContent", <<"nodes", ".node", "storage", ".storage", "content", "<volume>">>,
        {"<volume>"}, Nothing),
    Post("Storage", "CopyContent", <<"nodes", ".node", "storage", ".storage", "content", "<sourcevolume>">>,
        {"<sourcevolume>", "<targetvolume>"}, ATask),
    Post("Storage", "OCIRegistryPull", <<"nodes", ".node", "storage", ".storage", "oci-registry-pull">>,
        {"<reference>"}, ATask),
    Get("Storage", "FileRestoreList", <<"nodes", ".node", "storage", ".storage", "file-restore", "list">>,
        {"<filepath>", "<volume>"}, Data),
    Get("Storage", "RRDData", <<"nodes", ".node", "storage", ".storage", "rrddata">>, {}, Data)}

\* Every node and storage request.
ApiNodeOps ==
    UNION {NodeGuests, NodeStorages, NodeFirewall, NodeCertificates, NodeServices, NodeSubscription,
           NodeReplication, NodeAdmin, NodeLogs, NodeShells, AptPackages, NodeCapabilities, CephControl,
           CephConfig, CephMonsAndMgrs, CephMDSs, CephFileSystems, CephOSDs, CephPools, NodeIndexes,
           DisksAndDirectories, VolumeGroups, NodeDns, NodeHardware, NodeMetrics, NodeNetworks, StorageScans,
           NodeSdn, ClusterStorages, StorageTransfers, StorageVolumes, StorageUpkeep, StorageContents}
================================================================================
