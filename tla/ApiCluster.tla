------------------------------ MODULE ApiCluster ------------------------------
(* Requests about the cluster: its configuration, firewall, high availability, *)
(* notifications, jobs, mappings and software-defined networks.               *)
EXTENDS ApiTable

\* The cluster itself, its resources, backup jobs and tasks.
ClusterCore == {
    Tolerant(Get("Client", "Cluster", <<"cluster", "status">>, {}, One("Cluster", FromReply, Wired, "kept"))),
    Lazy("Cluster", "New", <<"cluster">>, {}, One("Cluster", FromReply, Wired, "kept")),
    Get("Cluster", "Status", <<"cluster", "status">>, {}, Itself),
    Get("Cluster", "NextID", <<"cluster", "nextid">>, {}, Data),
    Get("Cluster", "CheckID", <<"cluster", "nextid">>, {}, Data),
    Get("Cluster", "Resources", <<"cluster", "resources">>, {}, Data),
    Get("Cluster", "Backups", <<"cluster", "backup">>, {}, Each("ClusterBackup", FromReply, Wired)),
    Get("Cluster", "Backup", <<"cluster", "backup", "<id>">>, {"<id>"},
        One("ClusterBackup", ".id" :> "<id>", Wired, "kept")),
    Post("Cluster", "NewBackup", <<"cluster", "backup">>, {}, Nothing),
    Put("ClusterBackup", "Update", <<"cluster", "backup", ".id">>, {".id"}, Nothing),
    Delete("ClusterBackup", "Delete", <<"cluster", "backup", ".id">>, {".id"}, Nothing),
    Get("Cluster", "Tasks", <<"cluster", "tasks">>, {}, Each("Task", FromReply, Wired)),
    Lazy("Cluster", "Ceph", <<"cluster", "ceph">>, {}, One("Ceph", FromReply, Wired, "kept"))}

\* The cluster's Ceph status.
CephState == {
    Tolerant(Get("Ceph", "Status", <<"cluster", "ceph", "status">>, {}, Data))}

\* ACME accounts.
AcmeAccounts == {
    Get("Cluster", "ACMEDirectories", <<"cluster", "acme", "directories">>, {}, Data),
    Get("Cluster", "ACMEChallengeSchema", <<"cluster", "acme", "challenge-schema">>, {}, Data),
    Get("Cluster", "ACMETermsOfService", <<"cluster", "acme", "tos">>, {}, Data),
    Get("Cluster", "ACMEMeta", <<"cluster", "acme", "meta">>, {}, Data),
    Get("Cluster", "ACMEAccounts", <<"cluster", "acme", "account">>, {}, Data),
    Get("Cluster", "ACMEAccount", <<"cluster", "acme", "account", "<name>">>, {}, Data),
    Post("Cluster", "NewACMEAccount", <<"cluster", "acme", "account">>, {"<contact>"}, ATask),
    Put("Cluster", "UpdateACMEAccount", <<"cluster", "acme", "account", "<name>">>, {}, ATask),
    Delete("Cluster", "DeleteACMEAccount", <<"cluster", "acme", "account", "<name>">>, {}, ATask)}

\* ACME plugins.
AcmePlugins == {
    Get("Cluster", "ACMEPlugins", <<"cluster", "acme", "plugins">>, {}, Data),
    Get("Cluster", "ACMEPlugin", <<"cluster", "acme", "plugins", "<id>">>, {"<id>"}, Data),
    Post("Cluster", "NewACMEPlugin", <<"cluster", "acme", "plugins">>, {"<id>", "<type>"}, Nothing),
    Put("Cluster", "UpdateACMEPlugin", <<"cluster", "acme", "plugins", "<id>">>, {"<id>"}, Nothing),
    Delete("Cluster", "DeleteACMEPlugin", <<"cluster", "acme", "plugins", "<id>">>, {"<id>"}, Nothing)}

\* Which guests and volumes the backup jobs cover.
BackupCoverage == {
    Get("Cluster", "BackupInfoSubdirs", <<"cluster", "backup-info">>, {}, Data),
    Get("Cluster", "GuestsNotInBackup", <<"cluster", "backup-info", "not-backed-up">>, {}, Data),
    Get("ClusterBackup", "IncludedVolumes", <<"cluster", "backup", ".id", "included_volumes">>, {".id"}, Data)}

\* Starting, stopping, suspending or migrating many guests.
BulkActions == {
    Get("Cluster", "BulkActionSubdirs", <<"cluster", "bulk-action">>, {}, Data),
    Get("Cluster", "BulkActionGuestSubdirs", <<"cluster", "bulk-action", "guest">>, {}, Data),
    Post("Cluster", "BulkStartGuests", <<"cluster", "bulk-action", "guest", "start">>, {}, ATask),
    Post("Cluster", "BulkShutdownGuests", <<"cluster", "bulk-action", "guest", "shutdown">>, {}, ATask),
    Post("Cluster", "BulkSuspendGuests", <<"cluster", "bulk-action", "guest", "suspend">>, {}, ATask),
    Post("Cluster", "BulkMigrateGuests", <<"cluster", "bulk-action", "guest", "migrate">>, {}, ATask)}

\* Ceph's cluster-wide flags.
CephFlags == {
    Get("Cluster", "CephFlags", <<"cluster", "ceph", "flags">>, {}, Data),
    Get("Cluster", "CephFlag", <<"cluster", "ceph", "flags", "<flag>">>, {"<flag>"}, Data),
    Get("Cluster", "CephMetadata", <<"cluster", "ceph", "metadata">>, {}, Data),
    Put("Cluster", "SetCephFlags", <<"cluster", "ceph", "flags">>, {}, ATask),
    Put("Cluster", "SetCephFlag", <<"cluster", "ceph", "flags", "<flag>">>, {"<flag>"}, Nothing)}

\* Creating and joining a cluster, and its members.
ClusterConfig == {
    Get("Cluster", "JoinAPIVersion", <<"cluster", "config", "apiversion">>, {}, Data),
    Get("Cluster", "JoinInfo", <<"cluster", "config", "join">>, {}, Data),
    Post("Cluster", "JoinCluster", <<"cluster", "config", "join">>,
        {"<fingerprint>", "<hostname>", "<password>"}, Data),
    Get("Cluster", "ConfigNodes", <<"cluster", "config", "nodes">>, {}, Data),
    Get("Cluster", "QDevice", <<"cluster", "config", "qdevice">>, {}, Data),
    Get("Cluster", "Totem", <<"cluster", "config", "totem">>, {}, Data),
    Post("Cluster", "CreateCluster", <<"cluster", "config">>, {"<clustername>"}, Data),
    Post("Cluster", "AddConfigNode", <<"cluster", "config", "nodes", "<node>">>, {"<node>"}, Data),
    Delete("Cluster", "DeleteConfigNode", <<"cluster", "config", "nodes", "<node>">>, {"<node>"}, Nothing)}

\* Directory listings; each goes through one of the helpers at its end.
ClusterIndexes == {
    Get("Cluster", "Subdirs", <<"cluster">>, {}, Data),
    Get("Cluster", "ACMESubdirs", <<"cluster", "acme">>, {}, Data),
    Get("Cluster", "FirewallSubdirs", <<"cluster", "firewall">>, {}, Data),
    Get("Cluster", "SDNSubdirs", <<"cluster", "sdn">>, {}, Data),
    Get("Cluster", "CephSubdirs", <<"cluster", "ceph">>, {}, Data),
    Get("Cluster", "ConfigSubdirs", <<"cluster", "config">>, {}, Data),
    Get("Cluster", "HASubdirs", <<"cluster", "ha">>, {}, Data),
    Get("Cluster", "HAStatusSubdirs", <<"cluster", "ha", "status">>, {}, Data),
    Get("Cluster", "QEMUSubdirs", <<"cluster", "qemu">>, {}, Data)}

\* Security groups, rules and aliases of the datacenter's firewall.
ClusterFirewallRules == {
    Get("Cluster", "FWGroups", <<"cluster", "firewall", "groups">>, {},
        Each("FirewallSecurityGroup", FromReply, Wired)),
    Get("Cluster", "FWGroup", <<"cluster", "firewall", "groups", "<name>">>, {},
        One("FirewallSecurityGroup", ".group" :> "<name>", Wired, "kept")),
    Post("Cluster", "NewFWGroup", <<"cluster", "firewall", "groups">>, {}, Nothing),
    Get("FirewallSecurityGroup", "GetRules", <<"cluster", "firewall", "groups", ".group">>, {},
        Each("LooseRule", FromReply, Unwired)),
    Delete("FirewallSecurityGroup", "Delete", <<"cluster", "firewall", "groups", ".group">>, {}, Nothing),
    Post("FirewallSecurityGroup", "RuleCreate", <<"cluster", "firewall", "groups", ".group">>, {}, Nothing),
    Put("FirewallSecurityGroup", "RuleUpdate", <<"cluster", "firewall", "groups", ".group", "<pos>">>, {}, Nothing),
    Delete("FirewallSecurityGroup", "RuleDelete", <<"cluster", "firewall", "groups", ".group", "<rulepos>">>,
        {}, Nothing),
    Get("Cluster", "FirewallRules", <<"cluster", "firewall", "rules">>, {}, Each("LooseRule", FromReply, Unwired)),
    Get("Cluster", "FirewallRule", <<"cluster", "firewall", "rules", "<pos>">>, {},
        One("LooseRule", FromReply, Unwired, "kept")),
    Post("Cluster", "NewFirewallRule", <<"cluster", "firewall", "rules">>, {}, Nothing),
    Put("Cluster", "FirewallRuleUpdate", <<"cluster", "firewall", "rules", "<pos>">>, {}, Nothing),
    Delete("Cluster", "FirewallRuleDelete", <<"cluster", "firewall", "rules", "<pos>">>, {}, Nothing),
    Get("Cluster", "FirewallAliases", <<"cluster", "firewall", "aliases">>, {}, Data),
    Get("Cluster", "FirewallAlias", <<"cluster", "firewall", "aliases", "<name>">>, {}, Data),
    Post("Cluster", "NewFirewallAlias", <<"cluster", "firewall", "aliases">>, {}, Nothing),
    Put("Cluster", "FirewallAliasUpdate", <<"cluster", "firewall", "aliases", "<name>">>, {}, Nothing),
    Delete("Cluster", "FirewallAliasDelete", <<"cluster", "firewall", "aliases", "<name>">>, {}, Nothing)}

\* IP sets and options of the datacenter's firewall.
ClusterFirewallIPSets == {
    Get("Cluster", "FirewallIPSets", <<"cluster", "firewall", "ipset">>, {}, Data),
    Get("Cluster", "FirewallIPSet", <<"cluster", "firewall", "ipset", "<name>">>, {}, Data),
    Post("Cluster", "NewFirewallIPSet", <<"cluster", "firewall", "ipset">>, {}, Nothing),
    Delete("Cluster", "FirewallIPSetDelete", <<"cluster", "firewall", "ipset", "<name>">>, {}, Nothing),
    Get("Cluster", "FirewallIPSetEntry", <<"cluster", "firewall", "ipset", "<name>", "<cidr>">>, {}, Data),
    Post("Cluster", "NewFirewallIPSetEntry", <<"cluster", "firewall", "ipset", "<name>">>, {}, Nothing),
    Put("Cluster", "FirewallIPSetEntryUpdate", <<"cluster", "firewall", "ipset", "<name>", "<cidr>">>, {}, Nothing),
    Delete("Cluster", "FirewallIPSetEntryDelete", <<"cluster", "firewall", "ipset", "<name>", "<cidr>">>, {}, Nothing),
    Get("Cluster", "FirewallOptions", <<"cluster", "firewall", "options">>, {}, Data),
    Put("Cluster", "FirewallOptionsUpdate", <<"cluster", "firewall", "options">>, {}, Nothing),
    Get("Cluster", "FirewallMacros", <<"cluster", "firewall", "macros">>, {}, Data),
    Get("Cluster", "FirewallRefs", <<"cluster", "firewall", "refs">>, {}, Data)}

\* High-availability groups and resources.
HaGroupsAndResources == {
    Get("Cluster", "HAGroups", <<"cluster", "ha", "groups">>, {}, Data),
    Get("Cluster", "HAGroup", <<"cluster", "ha", "groups", "<name>">>, {}, Data),
    Post("Cluster", "NewHAGroup", <<"cluster", "ha", "groups">>, {}, Nothing),
    Put("Cluster", "HAGroupUpdate", <<"cluster", "ha", "groups", "<name>">>, {}, Nothing),
    Delete("Cluster", "HAGroupDelete", <<"cluster", "ha", "groups", "<name>">>, {}, Nothing),
    Get("Cluster", "HAResources", <<"cluster", "ha", "resources">>, {}, Data),
    Get("Cluster", "HAResource", <<"cluster", "ha", "resources", "<sid>">>, {}, Data),
    Post("Cluster", "NewHAResource", <<"cluster", "ha", "resources">>, {}, Nothing),
    Put("Cluster", "HAResourceUpdate", <<"cluster", "ha", "resources", "<sid>">>, {}, Nothing),
    Delete("Cluster", "HAResourceDelete", <<"cluster", "ha", "resources", "<sid>">>, {}, Nothing),
    Post("Cluster", "HAResourceMigrate", <<"cluster", "ha", "resources", "<sid>", "migrate">>, {}, Nothing),
    Post("Cluster", "HAResourceRelocate", <<"cluster", "ha", "resources", "<sid>", "relocate">>, {}, Nothing)}

\* High-availability rules and status.
HaRulesAndStatus == {
    Get("Cluster", "HARules", <<"cluster", "ha", "rules">>, {}, Data),
    Get("Cluster", "HARule", <<"cluster", "ha", "rules", "<name>">>, {}, Data),
    Post("Cluster", "NewHARule", <<"cluster", "ha", "rules">>, {}, Nothing),
    Put("Cluster", "HARuleUpdate", <<"cluster", "ha", "rules", "<name>">>, {}, Nothing),
    Delete("Cluster", "HARuleDelete", <<"cluster", "ha", "rules", "<name>">>, {}, Nothing),
    Get("Cluster", "HAStatus", <<"cluster", "ha", "status", "current">>, {}, Data),
    Get("Cluster", "HAManagerStatus", <<"cluster", "ha", "status", "manager_status">>, {}, Data),
    Post("Cluster", "HAArm", <<"cluster", "ha", "status", "arm-ha">>, {}, Nothing),
    Post("Cluster", "HADisarm", <<"cluster", "ha", "status", "disarm-ha">>, {"<resourcemode>"}, Nothing)}

\* Scheduled jobs and realm synchronisation.
ClusterJobs == {
    Get("Cluster", "Jobs", <<"cluster", "jobs">>, {}, Data),
    Get("Cluster", "ScheduleAnalyze", <<"cluster", "jobs", "schedule-analyze">>, {"<schedule>"}, Data),
    Get("Cluster", "RealmSyncJobs", <<"cluster", "jobs", "realm-sync">>, {}, Data),
    Get("Cluster", "RealmSyncJob", <<"cluster", "jobs", "realm-sync", "<id>">>, {"<id>"}, Data),
    Post("Cluster", "NewRealmSyncJob", <<"cluster", "jobs", "realm-sync", "<id>">>, {"<id>", "<schedule>"}, Nothing),
    Put("Cluster", "UpdateRealmSyncJob", <<"cluster", "jobs", "realm-sync", "<id>">>, {"<id>"}, Nothing),
    Delete("Cluster", "DeleteRealmSyncJob", <<"cluster", "jobs", "realm-sync", "<id>">>, {"<id>"}, Nothing)}

\* Directory and PCI mappings.
DirAndPciMappings == {
    Get("Cluster", "Mappings", <<"cluster", "mapping">>, {}, Data),
    Get("Cluster", "DirMappings", <<"cluster", "mapping", "dir">>, {}, Data),
    Get("Cluster", "DirMapping", <<"cluster", "mapping", "dir", "<id>">>, {"<id>"}, Data),
    Post("Cluster", "NewDirMapping", <<"cluster", "mapping", "dir">>, {"<id>"}, Nothing),
    Put("Cluster", "UpdateDirMapping", <<"cluster", "mapping", "dir", "<id>">>, {"<id>"}, Nothing),
    Delete("Cluster", "DeleteDirMapping", <<"cluster", "mapping", "dir", "<id>">>, {"<id>"}, Nothing),
    Get("Cluster", "PCIMappings", <<"cluster", "mapping", "pci">>, {}, Data),
    Get("Cluster", "PCIMapping", <<"cluster", "mapping", "pci", "<id>">>, {"<id>"}, Data),
    Post("Cluster", "NewPCIMapping", <<"cluster", "mapping", "pci">>, {"<id>"}, Nothing),
    Put("Cluster", "UpdatePCIMapping", <<"cluster", "mapping", "pci", "<id>">>, {"<id>"}, Nothing),
    Delete("Cluster", "DeletePCIMapping", <<"cluster", "mapping", "pci", "<id>">>, {"<id>"}, Nothing)}

\* USB mappings.
UsbMappings == {
    Get("Cluster", "USBMappings", <<"cluster", "mapping", "usb">>, {}, Data),
    Get("Cluster", "USBMapping", <<"cluster", "mapping", "usb", "<id>">>, {"<id>"}, Data),
    Post("Cluster", "NewUSBMapping", <<"cluster", "mapping", "usb">>, {"<id>"}, Nothing),
    Put("Cluster", "UpdateUSBMapping", <<"cluster", "mapping", "usb", "<id>">>, {"<id>"}, Nothing),
    Delete("Cluster", "DeleteUSBMapping", <<"cluster", "mapping", "usb", "<id>">>, {"<id>"}, Nothing)}

\* Exported metrics and the servers they go to.
MetricServers == {
    Get("Cluster", "MetricsSubdirs", <<"cluster", "metrics">>, {}, Data),
    Get("Cluster", "MetricsExport", <<"cluster", "metrics", "export">>, {}, Data),
    Get("Cluster", "MetricServers", <<"cluster", "metrics", "server">>, {}, Data),
    Get("Cluster", "MetricServer", <<"cluster", "metrics", "server", "<id>">>, {"<id>"}, Data),
    Post("Cluster", "NewMetricServer", <<"cluster", "metrics", "server", "<id>">>, {"<id>"}, Nothing),
    Put("Cluster", "UpdateMetricServer", <<"cluster", "metrics", "server", "<id>">>, {"<id>"}, Nothing),
    Delete("Cluster", "DeleteMetricServer", <<"cluster", "metrics", "server", "<id>">>, {"<id>"}, Nothing)}

\* The cluster's log, and one rule of a security group.
ClusterLog == {
    Get("Cluster", "Log", <<"cluster", "log">>, {}, Data),
    Get("Cluster", "NotificationEndpointsSubdirs", <<"cluster", "notifications", "endpoints">>, {}, Data),
    Get("FirewallSecurityGroup", "GetRule", <<"cluster", "firewall", "groups", ".group", "<pos>">>, {".group"},
        One("LooseRule", FromReply, Unwired, "kept"))}

\* Notification targets and matchers.
NotificationMatchers == {
    Get("Cluster", "Notifications", <<"cluster", "notifications">>, {}, Data),
    Get("Cluster", "NotificationMatcherFields", <<"cluster", "notifications", "matcher-fields">>, {}, Data),
    Get("Cluster", "NotificationMatcherFieldValues", <<"cluster", "notifications", "matcher-field-values">>, {}, Data),
    Get("Cluster", "NotificationTargets", <<"cluster", "notifications", "targets">>, {}, Data),
    Post("Cluster", "TestNotificationTarget", <<"cluster", "notifications", "targets", "<name>", "test">>,
        {"<name>"}, Nothing),
    Get("Cluster", "NotificationMatchers", <<"cluster", "notifications", "matchers">>, {}, Data),
    Get("Cluster", "NotificationMatcher", <<"cluster", "notifications", "matchers", "<name>">>, {"<name>"}, Data),
    Post("Cluster", "NewNotificationMatcher", <<"cluster", "notifications", "matchers">>, {"<name>"}, Nothing),
    Put("Cluster", "UpdateNotificationMatcher", <<"cluster", "notifications", "matchers", "<name>">>,
        {"<name>"}, Nothing),
    Delete("Cluster", "DeleteNotificationMatcher", <<"cluster", "notifications", "matchers", "<name>">>,
        {"<name>"}, Nothing)}

\* Gotify and sendmail endpoints.
NotificationEndpoints == {
    Get("Cluster", "NotificationGotifyEndpoints", <<"cluster", "notifications", "endpoints", "gotify">>, {}, Data),
    Get("Cluster", "NotificationGotifyEndpoint", <<"cluster", "notifications", "endpoints", "gotify", "<name>">>,
        {"<name>"}, Data),
    Post("Cluster", "NewNotificationGotifyEndpoint", <<"cluster", "notifications", "endpoints", "gotify">>,
        {"<name>"}, Nothing),
    Put("Cluster", "UpdateNotificationGotifyEndpoint", <<"cluster", "notifications", "endpoints", "gotify", "<name>">>,
        {"<name>"}, Nothing),
    Delete("Cluster", "DeleteNotificationGotifyEndpoint", <<"cluster", "notifications", "endpoints", "gotify",
        "<name>">>,
        {"<name>"}, Nothing),
    Get("Cluster", "NotificationSendmailEndpoints", <<"cluster", "notifications", "endpoints", "sendmail">>, {}, Data),
    Get("Cluster", "NotificationSendmailEndpoint", <<"cluster", "notifications", "endpoints", "sendmail", "<name>">>,
        {"<name>"}, Data),
    Post("Cluster", "NewNotificationSendmailEndpoint", <<"cluster", "notifications", "endpoints", "sendmail">>,
        {"<name>"}, Nothing),
    Put("Cluster", "UpdateNotificationSendmailEndpoint", <<"cluster", "notifications", "endpoints", "sendmail",
        "<name>">>,
        {"<name>"}, Nothing),
    Delete("Cluster", "DeleteNotificationSendmailEndpoint", <<"cluster", "notifications", "endpoints", "sendmail",
        "<name>">>,
        {"<name>"}, Nothing)}

\* SMTP and webhook endpoints.
NotificationRelays == {
    Get("Cluster", "NotificationSMTPEndpoints", <<"cluster", "notifications", "endpoints", "smtp">>, {}, Data),
    Get("Cluster", "NotificationSMTPEndpoint", <<"cluster", "notifications", "endpoints", "smtp", "<name>">>,
        {"<name>"}, Data),
    Post("Cluster", "NewNotificationSMTPEndpoint", <<"cluster", "notifications", "endpoints", "smtp">>,
        {"<name>"}, Nothing),
    Put("Cluster", "UpdateNotificationSMTPEndpoint", <<"cluster", "notifications", "endpoints", "smtp", "<name>">>,
        {"<name>"}, Nothing),
    Delete("Cluster", "DeleteNotificationSMTPEndpoint", <<"cluster", "notifications", "endpoints", "smtp", "<name>">>,
        {"<name>"}, Nothing),
    Get("Cluster", "NotificationWebhookEndpoints", <<"cluster", "notifications", "endpoints", "webhook">>, {}, Data),
    Get("Cluster", "NotificationWebhookEndpoint", <<"cluster", "notifications", "endpoints", "webhook", "<name>">>,
        {"<name>"}, Data),
    Post("Cluster", "NewNotificationWebhookEndpoint", <<"cluster", "notifications", "endpoints", "webhook">>,
        {"<name>"}, Nothing),
    Put("Cluster", "UpdateNotificationWebhookEndpoint", <<"cluster", "notifications", "endpoints", "webhook",
        "<name>">>,
        {"<name>"}, Nothing),
    Delete("Cluster", "DeleteNotificationWebhookEndpoint", <<"cluster", "notifications", "endpoints", "webhook",
        "<name>">>,
        {"<name>"}, Nothing)}

\* The datacenter's options.
DatacenterOptions == {
    Get("Cluster", "ClusterOptions", <<"cluster", "options">>, {}, Data),
    Put("Cluster", "UpdateClusterOptions", <<"cluster", "options">>, {}, Nothing)}

\* Processor flags and custom processor models.
CpuModels == {
    Get("Cluster", "QEMUCPUFlags", <<"cluster", "qemu", "cpu-flags">>, {}, Data),
    Get("Cluster", "CustomCPUModels", <<"cluster", "qemu", "custom-cpu-models">>, {},
        Each("CustomCPUModel", FromReply, Wired)),
    Lazy("Cluster", "CustomCPUModel", <<"cluster", "qemu", "custom-cpu-models", "<cputype>">>, {},
        One("CustomCPUModel", ".cputype" :> "<cputype>", Wired, "kept")),
    Post("Cluster", "NewCustomCPUModel", <<"cluster", "qemu", "custom-cpu-models">>,
        {"<cputype>", "<reportedmodel>"}, Nothing),
    Get("CustomCPUModel", "Read", <<"cluster", "qemu", "custom-cpu-models", ".cputype">>, {".cputype"}, Itself),
    Put("CustomCPUModel", "Update", <<"cluster", "qemu", "custom-cpu-models", ".cputype">>, {".cputype"}, Nothing),
    Delete("CustomCPUModel", "Delete", <<"cluster", "qemu", "custom-cpu-models", ".cputype">>, {".cputype"}, Nothing)}

\* Replication jobs.
ReplicationJobs == {
    Get("Cluster", "ReplicationJobs", <<"cluster", "replication">>, {}, Data),
    Get("Cluster", "ReplicationJob", <<"cluster", "replication", "<id>">>, {}, Data),
    Post("Cluster", "NewReplicationJob", <<"cluster", "replication">>, {}, Nothing),
    Put("Cluster", "ReplicationJobUpdate", <<"cluster", "replication", "<id>">>, {}, Nothing),
    Delete("Cluster", "ReplicationJobDelete", <<"cluster", "replication", "<id>">>, {}, Nothing)}

\* Virtual networks and zones.
SdnVNetsAndZones == {
    Get("Cluster", "SDNSubnets", <<"cluster", "sdn", "vnets", "<vnetname>", "subnets">>, {},
        Each("VNetSubnet", FromReply, Unwired)),
    Put("Cluster", "SDNApply", <<"cluster", "sdn">>, {}, ATask),
    Get("Cluster", "SDNVNets", <<"cluster", "sdn", "vnets">>, {}, Each("VNet", FromReply, Wired)),
    Get("Cluster", "SDNVNet", <<"cluster", "sdn", "vnets", "<name>">>, {}, One("VNet", FromReply, Wired, "nil")),
    Post("Cluster", "NewSDNVNet", <<"cluster", "sdn", "vnets">>, {}, Nothing),
    Put("Cluster", "UpdateSDNVNet", <<"cluster", "sdn", "vnets", "<name>">>, {}, Nothing),
    Delete("Cluster", "DeleteSDNVNet", <<"cluster", "sdn", "vnets", "<name>">>, {}, Nothing),
    Get("Cluster", "SDNZones", <<"cluster", "sdn", "zones">>, {}, Data),
    Get("Cluster", "SDNZone", <<"cluster", "sdn", "zones", "<name>">>, {}, Data),
    Post("Cluster", "NewSDNZone", <<"cluster", "sdn", "zones">>, {}, Nothing),
    Put("Cluster", "UpdateSDNZone", <<"cluster", "sdn", "zones", "<name>">>, {}, Nothing),
    Delete("Cluster", "DeleteSDNZone", <<"cluster", "sdn", "zones", "<name>">>, {}, Nothing)}

\* SDN controllers.
SdnControllers == {
    Get("Cluster", "SDNControllers", <<"cluster", "sdn", "controllers">>, {}, Each("SDNController", FromReply, Wired)),
    Lazy("Cluster", "SDNController", <<"cluster", "sdn", "controllers", "<name>">>, {},
        One("SDNController", ".controller" :> "<name>", Wired, "kept")),
    Post("Cluster", "NewSDNController", <<"cluster", "sdn", "controllers">>, {"<controller>", "<type>"}, Nothing),
    Get("SDNController", "Read", <<"cluster", "sdn", "controllers", ".controller">>, {".controller"}, Itself),
    Put("SDNController", "Update", <<"cluster", "sdn", "controllers", ".controller">>, {".controller"}, Nothing),
    Delete("SDNController", "Delete", <<"cluster", "sdn", "controllers", ".controller">>, {".controller"}, Nothing)}

\* SDN DNS plugins.
SdnDnsPlugins == {
    Get("Cluster", "SDNDNSList", <<"cluster", "sdn", "dns">>, {}, Each("SDNDNS", FromReply, Wired)),
    Lazy("Cluster", "SDNDNS", <<"cluster", "sdn", "dns", "<name>">>, {},
        One("SDNDNS", ".dns" :> "<name>", Wired, "kept")),
    Post("Cluster", "NewSDNDNS", <<"cluster", "sdn", "dns">>, {"<dns>", "<type>"}, Nothing),
    Get("SDNDNS", "Read", <<"cluster", "sdn", "dns", ".dns">>, {".dns"}, Itself),
    Put("SDNDNS", "Update", <<"cluster", "sdn", "dns", ".dns">>, {".dns"}, Nothing),
    Delete("SDNDNS", "Delete", <<"cluster", "sdn", "dns", ".dns">>, {".dns"}, Nothing)}

\* SDN fabrics.
SdnFabrics == {
    Get("Cluster", "SDNFabricsIndex", <<"cluster", "sdn", "fabrics">>, {}, Data),
    Get("Cluster", "SDNFabricsAll", <<"cluster", "sdn", "fabrics", "all">>, {}, Data),
    Get("Cluster", "SDNFabrics", <<"cluster", "sdn", "fabrics", "fabric">>, {}, Each("SDNFabric", FromReply, Wired)),
    Lazy("Cluster", "SDNFabric", <<"cluster", "sdn", "fabrics", "fabric", "<id>">>, {},
        One("SDNFabric", ".id" :> "<id>", Wired, "kept")),
    Post("Cluster", "NewSDNFabric", <<"cluster", "sdn", "fabrics", "fabric">>, {"<id>", "<protocol>"}, Nothing),
    Get("SDNFabric", "Read", <<"cluster", "sdn", "fabrics", "fabric", ".id">>, {".id"}, Itself),
    Put("SDNFabric", "Update", <<"cluster", "sdn", "fabrics", "fabric", ".id">>, {".id"}, Nothing),
    Delete("SDNFabric", "Delete", <<"cluster", "sdn", "fabrics", "fabric", ".id">>, {".id"}, Nothing)}

\* Members of an SDN fabric.
SdnFabricNodes == {
    Get("SDNFabric", "Nodes", <<"cluster", "sdn", "fabrics", "node", ".id">>, {".id"},
        Each("SDNFabricNode", ".fabricid" :> ".id", Wired)),
    Lazy("SDNFabric", "Node", <<"cluster", "sdn", "fabrics", "node", ".id", "<nodeid>">>, {},
        One("SDNFabricNode", ".fabricid" :> ".id" @@ ".nodeid" :> "<nodeid>", Wired, "kept")),
    Post("SDNFabric", "AddNode", <<"cluster", "sdn", "fabrics", "node", ".id">>, {"<nodeid>", ".id"}, Nothing),
    Get("Cluster", "SDNFabricNodes", <<"cluster", "sdn", "fabrics", "node">>, {},
        Each("SDNFabricNode", FromReply, Wired)),
    Get("SDNFabricNode", "Read", <<"cluster", "sdn", "fabrics", "node", ".fabricid", ".nodeid">>,
        {".fabricid", ".nodeid"}, Itself),
    Put("SDNFabricNode", "Update", <<"cluster", "sdn", "fabrics", "node", ".fabricid", ".nodeid">>,
        {".fabricid", ".nodeid"}, Nothing),
    Delete("SDNFabricNode", "Delete", <<"cluster", "sdn", "fabrics", "node", ".fabricid", ".nodeid">>,
        {".fabricid", ".nodeid"}, Nothing)}

\* SDN address managers.
SdnIpams == {
    Get("Cluster", "SDNIPAMs", <<"cluster", "sdn", "ipams">>, {}, Each("SDNIPAM", FromReply, Wired)),
    Lazy("Cluster", "SDNIPAM", <<"cluster", "sdn", "ipams", "<name>">>, {},
        One("SDNIPAM", ".ipam" :> "<name>", Wired, "kept")),
    Post("Cluster", "NewSDNIPAM", <<"cluster", "sdn", "ipams">>, {"<ipam>", "<type>"}, Nothing),
    Get("SDNIPAM", "Read", <<"cluster", "sdn", "ipams", ".ipam">>, {".ipam"}, Itself),
    Put("SDNIPAM", "Update", <<"cluster", "sdn", "ipams", ".ipam">>, {".ipam"}, Nothing),
    Delete("SDNIPAM", "Delete", <<"cluster", "sdn", "ipams", ".ipam">>, {".ipam"}, Nothing),
    Get("SDNIPAM", "Status", <<"cluster", "sdn", "ipams", ".ipam", "status">>, {".ipam"}, Data)}

\* The SDN lock, roll-back and dry run.
SdnLocking == {
    Get("Cluster", "SDNIndex", <<"cluster", "sdn">>, {}, Data),
    Post("Cluster", "SDNLock", <<"cluster", "sdn", "lock">>, {}, Data),
    Delete("Cluster", "SDNReleaseLock", <<"cluster", "sdn", "lock">>, {}, Nothing),
    Post("Cluster", "SDNRollback", <<"cluster", "sdn", "rollback">>, {}, Nothing),
    Get("Cluster", "SDNDryRun", <<"cluster", "sdn", "dry-run">>, {"<node>"}, Data)}

\* SDN prefix lists.
SdnPrefixLists == {
    Get("Cluster", "SDNPrefixLists", <<"cluster", "sdn", "prefix-lists">>, {}, Each("SDNPrefixList", FromReply, Wired)),
    Lazy("Cluster", "SDNPrefixList", <<"cluster", "sdn", "prefix-lists", "<id>">>, {},
        One("SDNPrefixList", ".id" :> "<id>", Wired, "kept")),
    Post("Cluster", "NewSDNPrefixList", <<"cluster", "sdn", "prefix-lists">>, {"<id>"}, Nothing),
    Get("SDNPrefixList", "Read", <<"cluster", "sdn", "prefix-lists", ".id">>, {".id"}, Itself),
    Put("SDNPrefixList", "Update", <<"cluster", "sdn", "prefix-lists", ".id">>, {".id"}, Nothing),
    Delete("SDNPrefixList", "Delete", <<"cluster", "sdn", "prefix-lists", ".id">>, {".id"}, Nothing)}

\* Entries of an SDN prefix list.
SdnPrefixListEntries == {
    Get("SDNPrefixList", "ListEntries", <<"cluster", "sdn", "prefix-lists", ".id", "entries">>, {".id"},
        Each("SDNPrefixListEntry", ".id" :> ".id", Wired)),
    Lazy("SDNPrefixList", "Entry", <<"cluster", "sdn", "prefix-lists", ".id", "entries", "<seq>">>, {},
        One("SDNPrefixListEntry", ".id" :> ".id" @@ ".seq" :> "<seq>", Wired, "kept")),
    Post("SDNPrefixList", "AddEntry", <<"cluster", "sdn", "prefix-lists", ".id", "entries">>,
        {"<action>", "<prefix>", ".id"}, Nothing),
    Get("SDNPrefixListEntry", "Read", <<"cluster", "sdn", "prefix-lists", ".id", "entries", ".seq">>,
        {".id"}, Itself),
    Put("SDNPrefixListEntry", "Update", <<"cluster", "sdn", "prefix-lists", ".id", "entries", ".seq">>,
        {".id"}, Nothing),
    Delete("SDNPrefixListEntry", "Delete", <<"cluster", "sdn", "prefix-lists", ".id", "entries", ".seq">>,
        {".id"}, Nothing)}

\* SDN route maps.
SdnRouteMaps == {
    Get("Cluster", "SDNRouteMaps", <<"cluster", "sdn", "route-maps">>, {}, Data),
    Get("Cluster", "SDNRouteMapEntries", <<"cluster", "sdn", "route-maps", "entries">>, {},
        Each("SDNRouteMapEntry", FromReply, Wired)),
    Get("Cluster", "SDNRouteMapEntriesFor", <<"cluster", "sdn", "route-maps", "entries",
        "<routemapid>">>, {"<routemapid>"},
        Each("SDNRouteMapEntry", ".routemapid" :> "<routemapid>", Wired)),
    Lazy("Cluster", "SDNRouteMapEntry", <<"cluster", "sdn", "route-maps", "entries", "<routemapid>", "entry",
        "<order>">>, {},
        One("SDNRouteMapEntry", ".routemapid" :> "<routemapid>" @@ ".order" :> "<order>", Wired, "kept")),
    Post("Cluster", "NewSDNRouteMapEntry", <<"cluster", "sdn", "route-maps", "entries">>,
        {"<action>", "<routemapid>"}, Nothing),
    Get("SDNRouteMapEntry", "Read", <<"cluster", "sdn", "route-maps", "entries", ".routemapid", "entry", ".order">>,
        {".routemapid"}, Itself),
    Put("SDNRouteMapEntry", "Update", <<"cluster", "sdn", "route-maps", "entries", ".routemapid", "entry", ".order">>,
        {".routemapid"}, Nothing),
    Delete("SDNRouteMapEntry", "Delete", <<"cluster", "sdn", "route-maps", "entries", ".routemapid", "entry",
        ".order">>,
        {".routemapid"}, Nothing)}

\* The firewall of a virtual network.
VNetFirewall == {
    Get("VNet", "FirewallIndex", <<"cluster", "sdn", "vnets", ".name", "firewall">>, {".name"}, Data),
    Get("VNet", "FirewallOptions", <<"cluster", "sdn", "vnets", ".name", "firewall", "options">>, {".name"}, Data),
    Put("VNet", "FirewallOptionsUpdate", <<"cluster", "sdn", "vnets", ".name", "firewall", "options">>,
        {".name"}, Nothing),
    Get("VNet", "FirewallRules", <<"cluster", "sdn", "vnets", ".name", "firewall", "rules">>, {".name"}, Data),
    Get("VNet", "FirewallRule", <<"cluster", "sdn", "vnets", ".name", "firewall", "rules", "<pos>">>,
        {".name"}, Data),
    Post("VNet", "NewFirewallRule", <<"cluster", "sdn", "vnets", ".name", "firewall", "rules">>,
        {"<action>", "<type>", ".name"}, Nothing),
    Put("VNet", "FirewallRuleUpdate", <<"cluster", "sdn", "vnets", ".name", "firewall", "rules", "<pos>">>,
        {".name"}, Nothing),
    Delete("VNet", "FirewallRuleDelete", <<"cluster", "sdn", "vnets", ".name", "firewall", "rules", "<pos>">>,
        {".name"}, Nothing)}

\* Addresses of a virtual network.
VNetIPs == {
    Post("VNet", "CreateIP", <<"cluster", "sdn", "vnets", ".name", "ips">>, {"<ip>", "<zone>", ".name"}, Nothing),
    Put("VNet", "UpdateIP", <<"cluster", "sdn", "vnets", ".name", "ips">>, {"<ip>", "<zone>", ".name"}, Nothing),
    Delete("VNet", "DeleteIP", <<"cluster", "sdn", "vnets", ".name", "ips">>, {"<ip>", "<zone>", ".name"}, Nothing)}

\* Subnets of a virtual network.
VNetSubnets == {
    Get("VNet", "Subnets", <<"cluster", "sdn", "vnets", ".name", "subnets">>, {".name"},
        Each("VNetSubnet", ".vnet" :> ".name", Wired)),
    Lazy("VNet", "Subnet", <<"cluster", "sdn", "vnets", ".name", "subnets", "<name>">>, {},
        One("VNetSubnet", ".vnet" :> ".name" @@ ".id" :> "<name>", Wired, "kept")),
    Post("VNet", "NewSubnet", <<"cluster", "sdn", "vnets", ".name", "subnets">>, {"<subnet>", ".name"}, Nothing),
    Get("VNetSubnet", "Read", <<"cluster", "sdn", "vnets", ".vnet", "subnets", ".id">>, {".id", ".vnet"}, Itself),
    Put("VNetSubnet", "Update", <<"cluster", "sdn", "vnets", ".vnet", "subnets", ".id">>,
        {".id", ".vnet"}, Nothing),
    Delete("VNetSubnet", "Delete", <<"cluster", "sdn", "vnets", ".vnet", "subnets", ".id">>,
        {".id", ".vnet"}, Nothing)}

\* Every cluster request.
ApiClusterOps ==
    UNION {ClusterCore, CephState, AcmeAccounts, AcmePlugins, BackupCoverage, BulkActions, CephFlags,
           ClusterConfig, ClusterIndexes, ClusterFirewallRules, ClusterFirewallIPSets, HaGroupsAndResources,
           HaRulesAndStatus, ClusterJobs, DirAndPciMappings, UsbMappings, MetricServers, ClusterLog,
           NotificationMatchers, NotificationEndpoints, NotificationRelays, DatacenterOptions, CpuModels,
           ReplicationJobs, SdnVNetsAndZones, SdnControllers, SdnDnsPlugins, SdnFabrics, SdnFabricNodes,
           SdnIpams, SdnLocking, SdnPrefixLists, SdnPrefixListEntries, SdnRouteMaps, VNetFirewall, VNetIPs,
           VNetSubnets}
================================================================================
