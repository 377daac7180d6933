--------------------------- MODULE ApiNamesProofs ---------------------------
(***************************************************************************)
(* Theorems about Api: what a missing name does to a request that changes  *)
(* something.  Only a handle made without a request can lack a name, which *)
(* is an invariant; and no row of the tables is read where the path of a   *)
(* row has lost an element, but for those the property names.              *)
(***************************************************************************)
EXTENDS ApiProofs, FiniteSetTheorems

Verbs == {"PUT", "POST", "DELETE"}
Slots == Fields \cup Arguments

\* The kinds of handle that are made without a request, with the fields that
\* they may lack: the methods that make them take any name.
MayLack ==
    ({"Node", "NodeRule", "NodeService", "NodeReplicationJob", "CephMon", "CephMgr", "CephMDS",
      "CephFS", "CephOSD", "CephPool", "PCIDevice"} \X {".node"})
    \cup ({"NodeService", "CephMon", "CephMgr", "CephMDS", "CephFS",
           "VirtualMachineSnapshot", "ContainerSnapshot"} \X {".name"})
    \cup ({"SDNFabric", "SDNPrefixList", "SDNPrefixListEntry", "VNetSubnet", "NodeReplicationJob",
           "PCIDevice"} \X {".id"})
    \cup {<<"CustomCPUModel", ".cputype">>, <<"SDNController", ".controller">>, <<"SDNDNS", ".dns">>,
          <<"SDNFabricNode", ".fabricid">>, <<"SDNFabricNode", ".nodeid">>, <<"SDNIPAM", ".ipam">>,
          <<"SDNRouteMapEntry", ".routemapid">>, <<"CephPool", ".poolname">>}

\* A handle that has its client lacks no other name.
NamesInv ==
    hand.state = "wired" =>
        \A k \in Keys[hand.kind] : hand.keys[k] = NoName => <<hand.kind, k>> \in MayLack

\* The words of the paths of the changing requests.
Words == {
    "access", "account", "acl", "acme", "agent", "aliases", "aplinfo", "apt", "arm-ha", "auth-url",
    "backup", "bulk-action", "ceph", "certificate", "certificates", "cloudinit", "cluster", "config",
    "content", "controllers", "custom", "custom-cpu-models", "dbus-vmstate", "dir", "directory",
    "disarm-ha", "disks", "dns", "domains", "download-url", "endpoints", "entries", "entry", "exec",
    "execute", "fabric", "fabrics", "file-write", "firewall", "flags", "fs", "fsfreeze-freeze",
    "fsfreeze-status", "fsfreeze-thaw", "fstrim", "gotify", "groups", "guest", "ha", "hosts", "in",
    "init", "initgpt", "ipams", "ips", "ipset", "jobs", "join", "lock", "login", "lvm", "lvmthin",
    "lxc", "mapping", "matchers", "mds", "metrics", "mgr", "migrate", "migrateall", "mon", "monitor",
    "move_disk", "move_volume", "mtunnel", "network", "node", "nodes", "notifications",
    "oci-registry-pull", "openid", "options", "osd", "out", "password", "pci", "ping", "plugins",
    "pool", "pools", "prefix-lists", "prunebackups", "qemu", "realm-sync", "reboot", "reload",
    "relocate", "remote_migrate", "replication", "repositories", "reset", "resize", "resources",
    "restart", "resume", "roles", "rollback", "route-maps", "rules", "schedule_now", "scrub", "sdn",
    "sendkey", "sendmail", "server", "services", "set-user-password", "shutdown", "smtp", "snapshot",
    "spiceproxy", "spiceshell", "start", "startall", "status", "stop", "stopall", "storage", "subnets",
    "subscription", "suspend", "suspend-disk", "suspend-hybrid", "suspend-ram", "suspendall", "sync",
    "targets", "template", "termproxy", "test", "tfa", "time", "token", "unlink", "unlock-tfa",
    "update", "upload", "usb", "users", "vncproxy", "vncshell", "vncticket", "vnets", "vzdump",
    "wakeonlan", "webhook", "wipedisk", "zfs", "zones"}

\* An element that is there whenever the request is sent: a word, a number,
\* a name that the method insists on, or a field that its handle does not lack.
Shut(on, must, s) ==
    \/ s \in Words \/ s \in Numbers \cap Arguments \/ s \in must \ ({".client"} \cup Numbers)
    \/ on \in Kinds /\ s \in Keys[on] /\ <<on, s>> \notin MayLack

\* What is sent for a row's path: its words stand as they are, and what is
\* empty is not shut.
Sends(on, must, path, sent) ==
    /\ Len(sent) = Len(path) /\ DOMAIN sent = 1..Len(path) /\ sent = [i \in 1..Len(path) |-> sent[i]]
    /\ \A i \in 1..Len(path) : /\ path[i] \in Words => sent[i] = path[i]
                               /\ sent[i] = NoName => ~ Shut(on, must, path[i])

\* The third element of the path of a request to a node.
NodeWords == {
    "aplinfo", "apt", "ceph", "certificates", "config", "disks", "dns", "execute", "firewall", "hosts",
    "lxc", "migrateall", "network", "qemu", "replication", "services", "spiceshell", "startall", "status",
    "stopall", "storage", "subscription", "suspendall", "termproxy", "time", "vncshell", "vzdump",
    "wakeonlan"}

\* The fourth element of a POST of four.
NodePosts == {
    "custom", "directory", "init", "initgpt", "lvm", "lvmthin", "osd", "pool", "repositories", "restart",
    "rules", "start", "stop", "update", "zfs"}

\* How the paths of the changing requests can be told from one another.
NodePath(verb, path) ==
    /\ Len(path) >= 3 /\ path[2] \in Slots /\ path[3] \in NodeWords
    /\ path[3] \in {"services", "replication"} => Len(path) = 5
    /\ path[3] = "storage" => /\ Len(path) >= 5
                              /\ verb = "DELETE" /\ Len(path) = 5 => path[5] = "prunebackups"
    /\ verb = "POST" /\ Len(path) = 4 => /\ path[4] \in NodePosts
                                         /\ path[4] \in {"start", "stop", "restart"} => path[3] = "ceph"

GuestPath(verb, path) ==
    path[3] \in {"qemu", "lxc"} /\ Len(path) >= 5 =>
        /\ path[5] \notin Slots
        /\ path[5] = "firewall" /\ Len(path) = 6 /\ verb # "POST" => path[6] = "options"
        /\ path[5] = "firewall" /\ Len(path) = 7 /\ verb = "PUT" => path[6] \in {"aliases", "rules"}
        /\ path[5] = "snapshot" => /\ Len(path) = 5 => verb = "POST"
                                   /\ Len(path) = 6 => verb = "DELETE"

ClusterPath(verb, path) ==
    /\ Len(path) >= 2 /\ path[2] \notin Slots
    /\ verb # "POST" /\ path[2] = "replication" => Len(path) = 3
    /\ verb # "POST" /\ path[2] \in {"acme", "firewall", "ha", "sdn"} /\ Len(path) = 3 =>
          path[3] \in {"options", "lock"}
    /\ verb = "PUT" /\ path[2] = "firewall" /\ Len(path) = 4 => path[3] \in {"aliases", "rules"}
    /\ verb = "POST" /\ path[2] = "ha" /\ Len(path) = 4 => path[3] = "status"

AccessPath(path) ==
    /\ Len(path) >= 2 /\ path[2] \notin Slots
    /\ path[2] = "users" /\ Len(path) = 4 => path[4] = "unlock-tfa"

Legible(verb, path) ==
    /\ Len(path) \in Nat
    /\ Len(path) > 0 =>
         /\ path[1] \notin Slots
         /\ path[1] = "nodes" => NodePath(verb, path) /\ GuestPath(verb, path)
         /\ path[1] = "cluster" => ClusterPath(verb, path)
         /\ path[1] = "access" => AccessPath(path)
         /\ path[1] = "storage" /\ verb # "POST" => Len(path) = 2

\* Without a name, the request of a row changes nothing else.
Told(on, op, verb, must, path) ==
    /\ DOMAIN path = 1..Len(path) /\ Len(path) \in Nat
    /\ \A sent : Sends(on, must, path, sent) /\ (\E i \in DOMAIN sent : sent[i] = NoName) =>
          \/ <<on, op>> \in MembersOfASet \/ sent \in CephOfServices
          \/ \A template : Legible(verb, template) => ~ Reads(sent, template)

\* A handle that is made without a request gets its names from those that are there,
\* but for the ones that it may lack.
FillsIn(on, must, gives) ==
    gives.form = "one" => \A k \in DOMAIN gives.keys :
                             <<gives.kind, k>> \in MayLack \/ Shut(on, must, gives.keys[k])

\* What is shown of every row of the tables.
RowTold(row) ==
    /\ row.verb \in Verbs => Legible(row.verb, row.path) /\ Told(row.on, row.op, row.verb, row.must, row.path)
    /\ row.verb = "-" => FillsIn(row.on, row.must, row.gives)
-----------------------------------------------------------------------------
(***************************************************************************)
(* Where the elements of a path come to stand.                             *)
(***************************************************************************)

\* An element that is there moves those after it one on; an empty one does not.
LEMMA Places ==
  ASSUME NEW path
  PROVE  /\ Place(path, 0) = 0
         /\ \A i \in Nat : /\ Place(path, i) \in Nat
                           /\ Place(path, i + 1) = IF path[i + 1] = NoName THEN Place(path, i)
                                                                       ELSE Place(path, i) + 1
<1> DEFINE There(i) == {j \in 1..i : path[j] # NoName}
<1>1. ASSUME NEW i \in Nat
      PROVE  IsFiniteSet(There(i)) /\ Cardinality(There(i)) \in Nat
  <2>1. IsFiniteSet(1..i) /\ There(i) \subseteq 1..i
    BY FS_Interval
  <2> QED BY <2>1, FS_Subset, FS_CardinalityType
<1>2. Cardinality(There(0)) = 0
  <2>1. There(0) = {}
    OBVIOUS
  <2> QED BY <2>1, FS_EmptySet
<1>3. ASSUME NEW i \in Nat
      PROVE  Cardinality(There(i + 1)) = IF path[i + 1] = NoName THEN Cardinality(There(i))
                                                           ELSE Cardinality(There(i)) + 1
  <2>1. CASE path[i + 1] = NoName
    <3>1. There(i + 1) = There(i)
      BY <2>1
    <3> QED BY <2>1, <3>1
  <2>2. CASE path[i + 1] # NoName
    <3>1. There(i + 1) = There(i) \cup {i + 1} /\ i + 1 \notin There(i)
      BY <2>2
    <3> QED BY <1>1, <2>2, <3>1, FS_AddElement
  <2> QED BY <2>1, <2>2
<1>4. ASSUME NEW i \in Nat PROVE Place(path, i) = Cardinality(There(i))
  BY DEF Place
<1> HIDE DEF There
<1> QED BY <1>1, <1>2, <1>3, <1>4

\* The longest path has eight elements.
LEMMA FirstPlaces ==
  ASSUME NEW path
  PROVE  /\ path[1] # NoName => Place(path, 1) = 1
         /\ \A i \in 1..8 : Place(path, i) \in Nat
         /\ \A i \in 1..7 : Place(path, i + 1) = IF path[i + 1] = NoName THEN Place(path, i) ELSE Place(path, i) + 1
<1>1. Place(path, 0 + 1) = IF path[0 + 1] = NoName THEN Place(path, 0) ELSE Place(path, 0) + 1
  BY Places
<1> QED BY <1>1, Places
-----------------------------------------------------------------------------
(***************************************************************************)
(* A path all of whose elements are there.                                 *)
(***************************************************************************)

\* When all its elements are there, nothing of a path can be missing.
LEMMA Sealed ==
  ASSUME NEW on, NEW op, NEW verb, NEW must, NEW path, Len(path) \in Nat, DOMAIN path = 1..Len(path),
         \A i \in 1..Len(path) : Shut(on, must, path[i])
  PROVE  Told(on, op, verb, must, path)
<1>1. ASSUME NEW sent, Sends(on, must, path, sent)
      PROVE  ~ \E i \in DOMAIN sent : sent[i] = NoName
  BY <1>1 DEF Sends
<1> QED BY <1>1 DEF Told

\* The same of paths of each length.
LEMMA SealedNone == \A on, op, verb, must : Told(on, op, verb, must, <<>>)
BY Sealed

\* The paths of each length, up to eight.
LEMMA Sealed1 ==
  ASSUME NEW on, NEW op, NEW verb, NEW must, NEW a,
         Shut(on, must, a)
  PROVE  Told(on, op, verb, must, <<a>>)
<1> DEFINE path == <<a>>
<1>1. /\ Len(path) = 1 /\ DOMAIN path = 1..1
      /\ path[1] = a
  OBVIOUS
<1> HIDE DEF path
<1>2. \A i \in 1..Len(path) : Shut(on, must, path[i])
  BY <1>1
<1> QED BY <1>1, <1>2, Sealed DEF path

LEMMA Sealed2 ==
  ASSUME NEW on, NEW op, NEW verb, NEW must, NEW a, NEW b,
         Shut(on, must, a), Shut(on, must, b)
  PROVE  Told(on, op, verb, must, <<a, b>>)
<1> DEFINE path == <<a, b>>
<1>1. /\ Len(path) = 2 /\ DOMAIN path = 1..2
      /\ path[1] = a /\ path[2] = b
  OBVIOUS
<1> HIDE DEF path
<1>2. \A i \in 1..Len(path) : Shut(on, must, path[i])
  BY <1>1
<1> QED BY <1>1, <1>2, Sealed DEF path

LEMMA Sealed3 ==
  ASSUME NEW on, NEW op, NEW verb, NEW must, NEW a, NEW b, NEW c,
         Shut(on, must, a), Shut(on, must, b), Shut(on, must, c)
  PROVE  Told(on, op, verb, must, <<a, b, c>>)
<1> DEFINE path == <<a, b, c>>
<1>1. /\ Len(path) = 3 /\ DOMAIN path = 1..3
      /\ path[1] = a /\ path[2] = b /\ path[3] = c
  OBVIOUS
<1> HIDE DEF path
<1>2. \A i \in 1..Len(path) : Shut(on, must, path[i])
  BY <1>1
<1> QED BY <1>1, <1>2, Sealed DEF path

LEMMA Sealed4 ==
  ASSUME NEW on, NEW op, NEW verb, NEW must, NEW a, NEW b, NEW c, NEW d,
         Shut(on, must, a), Shut(on, must, b), Shut(on, must, c), Shut(on, must, d)
  PROVE  Told(on, op, verb, must, <<a, b, c, d>>)
<1> DEFINE path == <<a, b, c, d>>
<1>1. /\ Len(path) = 4 /\ DOMAIN path = 1..4
      /\ path[1] = a /\ path[2] = b /\ path[3] = c /\ path[4] = d
  OBVIOUS
<1> HIDE DEF path
<1>2. \A i \in 1..Len(path) : Shut(on, must, path[i])
  BY <1>1
<1> QED BY <1>1, <1>2, Sealed DEF path

LEMMA Sealed5 ==
  ASSUME NEW on, NEW op, NEW verb, NEW must, NEW a, NEW b, NEW c, NEW d, NEW e,
         Shut(on, must, a), Shut(on, must, b), Shut(on, must, c), Shut(on, must, d),
         Shut(on, must, e)
  PROVE  Told(on, op, verb, must, <<a, b, c, d, e>>)
<1> DEFINE path == <<a, b, c, d, e>>
<1>1. /\ Len(path) = 5 /\ DOMAIN path = 1..5
      /\ path[1] = a /\ path[2] = b /\ path[3] = c /\ path[4] = d /\ path[5] = e
  OBVIOUS
<1> HIDE DEF path
<1>2. \A i \in 1..Len(path) : Shut(on, must, path[i])
  BY <1>1
<1> QED BY <1>1, <1>2, Sealed DEF path

LEMMA Sealed6 ==
  ASSUME NEW on, NEW op, NEW verb, NEW must, NEW a, NEW b, NEW c, NEW d, NEW e, NEW f,
         Shut(on, must, a), Shut(on, must, b), Shut(on, must, c), Shut(on, must, d),
         Shut(on, must, e), Shut(on, must, f)
  PROVE  Told(on, op, verb, must, <<a, b, c, d, e, f>>)
<1> DEFINE path == <<a, b, c, d, e, f>>
<1>1. /\ Len(path) = 6 /\ DOMAIN path = 1..6
      /\ path[1] = a /\ path[2] = b /\ path[3] = c /\ path[4] = d /\ path[5] = e /\ path[6] = f
  OBVIOUS
<1> HIDE DEF path
<1>2. \A i \in 1..Len(path) : Shut(on, must, path[i])
  BY <1>1
<1> QED BY <1>1, <1>2, Sealed DEF path

LEMMA Sealed7 ==
  ASSUME NEW on, NEW op, NEW verb, NEW must, NEW a, NEW b, NEW c, NEW d, NEW e, NEW f, NEW g,
         Shut(on, must, a), Shut(on, must, b), Shut(on, must, c), Shut(on, must, d),
         Shut(on, must, e), Shut(on, must, f), Shut(on, must, g)
  PROVE  Told(on, op, verb, must, <<a, b, c, d, e, f, g>>)
<1> DEFINE path == <<a, b, c, d, e, f, g>>
<1>1. /\ Len(path) = 7 /\ DOMAIN path = 1..7
      /\ path[1] = a /\ path[2] = b /\ path[3] = c /\ path[4] = d /\ path[5] = e /\ path[6] = f /\ path[7] = g
  OBVIOUS
<1> HIDE DEF path
<1>2. \A i \in 1..Len(path) : Shut(on, must, path[i])
  BY <1>1
<1> QED BY <1>1, <1>2, Sealed DEF path

LEMMA Sealed8 ==
  ASSUME NEW on, NEW op, NEW verb, NEW must, NEW a, NEW b, NEW c, NEW d, NEW e, NEW f, NEW g, NEW h,
         Shut(on, must, a), Shut(on, must, b), Shut(on, must, c), Shut(on, must, d),
         Shut(on, must, e), Shut(on, must, f), Shut(on, must, g), Shut(on, must, h)
  PROVE  Told(on, op, verb, must, <<a, b, c, d, e, f, g, h>>)
<1> DEFINE path == <<a, b, c, d, e, f, g, h>>
<1>1. /\ Len(path) = 8 /\ DOMAIN path = 1..8
      /\ path[1] = a /\ path[2] = b /\ path[3] = c /\ path[4] = d /\ path[5] = e /\ path[6] = f
      /\ path[7] = g /\ path[8] = h
  OBVIOUS
<1> HIDE DEF path
<1>2. \A i \in 1..Len(path) : Shut(on, must, path[i])
  BY <1>1
<1> QED BY <1>1, <1>2, Sealed DEF path

-----------------------------------------------------------------------------
\* A word is neither empty nor a place for a name.
LEMMA WordsAreWords == NoName \notin Words /\ \A s \in Words : s \notin Slots
<1>1. NoName \notin Words
  <2>1. NoName \notin {"access", "account", "acl", "acme", "agent", "aliases", "aplinfo", "apt", "arm-ha",
                     "auth-url", "backup", "bulk-action", "ceph", "certificate", "certificates",
                     "cloudinit", "cluster", "config", "content", "controllers", "custom",
                     "custom-cpu-models", "dbus-vmstate", "dir", "directory", "disarm-ha", "disks",
                     "dns", "domains", "download-url", "endpoints", "entries", "entry", "exec",
                     "execute", "fabric", "fabrics", "file-write", "firewall", "flags"}
    BY Zenon DEF NoName
  <2>2. NoName \notin {"fs", "fsfreeze-freeze", "fsfreeze-status", "fsfreeze-thaw", "fstrim", "gotify",
                     "groups", "guest", "ha", "hosts", "in", "init", "initgpt", "ipams", "ips", "ipset",
                     "jobs", "join", "lock", "login", "lvm", "lvmthin", "lxc", "mapping", "matchers",
                     "mds", "metrics", "mgr", "migrate", "migrateall", "mon", "monitor", "move_disk",
                     "move_volume", "mtunnel", "network", "node", "nodes", "notifications",
                     "oci-registry-pull"}
    BY Zenon DEF NoName
  <2>3. NoName \notin {"openid", "options", "osd", "out", "password", "pci", "ping", "plugins", "pool",
                     "pools", "prefix-lists", "prunebackups", "qemu", "realm-sync", "reboot", "reload",
                     "relocate", "remote_migrate", "replication", "repositories", "reset", "resize",
                     "resources", "restart", "resume", "roles", "rollback", "route-maps", "rules",
                     "schedule_now", "scrub", "sdn", "sendkey", "sendmail", "server", "services",
                     "set-user-password", "shutdown", "smtp", "snapshot"}
    BY Zenon DEF NoName
  <2>4. NoName \notin {"spiceproxy", "spiceshell", "start", "startall", "status", "stop", "stopall",
                     "storage", "subnets", "subscription", "suspend", "suspend-disk", "suspend-hybrid",
                     "suspend-ram", "suspendall", "sync", "targets", "template", "termproxy", "test",
                     "tfa", "time", "token", "unlink", "unlock-tfa", "update", "upload", "usb", "users",
                     "vncproxy", "vncshell", "vncticket", "vnets", "vzdump", "wakeonlan", "webhook",
                     "wipedisk", "zfs", "zones"}
    BY Zenon DEF NoName
  <2> QED BY <2>1, <2>2, <2>3, <2>4 DEF Words
<1>2. Words \cap Slots = {}
  BY DEF Words, Slots, Fields, Arguments
<1> QED BY <1>1, <1>2

\* What stands in the paths of nodes are words.
LEMMA NodeWordsAreWords == NodeWords \subseteq Words /\ NodePosts \subseteq Words
BY DEF Words, NodeWords, NodePosts

-----------------------------------------------------------------------------
(***************************************************************************)
(* What is read of a path that has lost an element, or two.                *)
(***************************************************************************)

\* The places of the elements of a path without its elements e and f.
LEMMA PlacesWithout ==
  ASSUME NEW sent, NEW n \in 1..8, NEW e \in 2..n, NEW f \in e..n,
         \A i \in 1..n : sent[i] = NoName <=> i = e \/ i = f
  PROVE  \A i \in 1..n : Place(sent, i) = IF i < e THEN i ELSE IF e = f \/ i < f THEN i - 1 ELSE i - 2
<1> DEFINE P(i) == i <= n => Place(sent, i) = IF i < e THEN i ELSE IF e = f \/ i < f THEN i - 1 ELSE i - 2
<1>1. P(1)
  BY FirstPlaces
<1>2. ASSUME NEW i \in 1..7, P(i)
      PROVE  P(i + 1)
  BY <1>2, FirstPlaces
<1> HIDE DEF P
<1>3. P(2) /\ P(3)
  BY <1>1, <1>2
<1>4. P(4) /\ P(5)
  BY <1>3, <1>2
<1>5. P(6) /\ P(7)
  BY <1>4, <1>2
<1>6. P(8)
  BY <1>5, <1>2
<1>7. \A i \in 1..8 : P(i)
  BY <1>1, <1>3, <1>4, <1>5, <1>6
<1> QED BY <1>7 DEF P

\* The path lacks these elements, and no others.
Lacks(sent, gone) == \A i \in 1..Len(sent) : sent[i] = NoName <=> i \in gone

\* What is left of the path without an element, or two, agrees with the template.
AgreesWithout(sent, e, template) ==
    /\ Len(template) = Len(sent) - 1
    /\ \A i \in 1..Len(sent) : i < e => template[i] \in Slots \/ template[i] = sent[i]
    /\ \A i \in 1..Len(sent) : e < i => template[i - 1] \in Slots \/ template[i - 1] = sent[i]

AgreesWithoutTwo(sent, e, f, template) ==
    /\ Len(template) = Len(sent) - 2
    /\ \A i \in 1..Len(sent) : i < e => template[i] \in Slots \/ template[i] = sent[i]
    /\ \A i \in 1..Len(sent) : e < i /\ i < f => template[i - 1] \in Slots \/ template[i - 1] = sent[i]
    /\ \A i \in 1..Len(sent) : f < i => template[i - 2] \in Slots \/ template[i - 2] = sent[i]

\* A template that the path is read as has its words, but where it takes any.
LEMMA OneGone ==
  ASSUME NEW sent, Len(sent) \in 1..8, DOMAIN sent = 1..Len(sent), NEW e \in 2..Len(sent),
         Lacks(sent, {e}),
         NEW template, Reads(sent, template)
  PROVE  AgreesWithout(sent, e, template)
<1>1. PICK n \in 1..8 : n = Len(sent)
  OBVIOUS
<1>2. \A i \in 1..n : Place(sent, i) = IF i < e THEN i ELSE i - 1
  <2>1. e \in 2..n /\ e \in e..n /\ \A i \in 1..n : sent[i] = NoName <=> i = e \/ i = e
    BY <1>1 DEF Lacks
  <2>2. \A i \in 1..n : Place(sent, i) = IF i < e THEN i ELSE IF e = e \/ i < e THEN i - 1 ELSE i - 2
    BY <2>1, PlacesWithout
  <2> QED BY <2>2
<1>3. Place(sent, n) = n - 1
  BY <1>1, <1>2
<1>4. /\ Place(sent, Len(sent)) = Len(template)
      /\ \A i \in 1..n : sent[i] # NoName =>
            template[Place(sent, i)] \in Slots \/ template[Place(sent, i)] = sent[i]
  BY <1>1, Zenon DEF Reads, Slots
<1>5. \A i \in 1..n : sent[i] = NoName <=> i = e
  BY <1>1 DEF Lacks
<1>6. Len(template) = Len(sent) - 1
  BY <1>1, <1>3, <1>4
<1>7. ASSUME NEW i \in 1..n, i < e
      PROVE  template[i] \in Slots \/ template[i] = sent[i]
  BY <1>2, <1>4, <1>5, <1>7
<1>8. ASSUME NEW i \in 1..n, e < i
      PROVE  template[i - 1] \in Slots \/ template[i - 1] = sent[i]
  <2>1. Place(sent, i) = i - 1
    BY <1>1, <1>2, <1>8
  <2> QED BY <1>1, <1>4, <1>5, <1>8, <2>1
<1> QED BY <1>1, <1>6, <1>7, <1>8 DEF AgreesWithout

\* The same of a path that has lost two elements.
LEMMA TwoGone ==
  ASSUME NEW sent, Len(sent) \in 1..8, DOMAIN sent = 1..Len(sent),
         NEW e \in 2..Len(sent), NEW f \in 2..Len(sent), e < f,
         Lacks(sent, {e, f}),
         NEW template, Reads(sent, template)
  PROVE  AgreesWithoutTwo(sent, e, f, template)
<1>1. PICK n \in 1..8 : n = Len(sent)
  OBVIOUS
<1>2. \A i \in 1..n : Place(sent, i) = IF i < e THEN i ELSE IF i < f THEN i - 1 ELSE i - 2
  <2>1. e \in 2..n /\ f \in e..n /\ \A i \in 1..n : sent[i] = NoName <=> i = e \/ i = f
    BY <1>1 DEF Lacks
  <2>2. \A i \in 1..n : Place(sent, i) = IF i < e THEN i ELSE IF e = f \/ i < f THEN i - 1 ELSE i - 2
    BY <2>1, PlacesWithout
  <2> QED BY <2>2
<1>3. Place(sent, n) = n - 2
  BY <1>1, <1>2
<1>4. /\ Place(sent, Len(sent)) = Len(template)
      /\ \A i \in 1..n : sent[i] # NoName =>
            template[Place(sent, i)] \in Slots \/ template[Place(sent, i)] = sent[i]
  BY <1>1, Zenon DEF Reads, Slots
<1>5. \A i \in 1..n : sent[i] = NoName <=> i = e \/ i = f
  BY <1>1 DEF Lacks
<1>6. Len(template) = Len(sent) - 2
  BY <1>1, <1>3, <1>4
<1>7. ASSUME NEW i \in 1..n, i < e
      PROVE  template[i] \in Slots \/ template[i] = sent[i]
  BY <1>2, <1>4, <1>5, <1>7
<1>8. ASSUME NEW i \in 1..n, e < i, i < f
      PROVE  template[i - 1] \in Slots \/ template[i - 1] = sent[i]
  <2>1. Place(sent, i) = i - 1
    BY <1>1, <1>2, <1>8
  <2> QED BY <1>1, <1>4, <1>5, <1>8, <2>1
<1>9. ASSUME NEW i \in 1..n, f < i
      PROVE  template[i - 2] \in Slots \/ template[i - 2] = sent[i]
  <2>1. Place(sent, i) = i - 2
    BY <1>1, <1>2, <1>9
  <2> QED BY <1>1, <1>4, <1>5, <1>9, <2>1
<1> QED BY <1>1, <1>6, <1>7, <1>8, <1>9 DEF AgreesWithoutTwo

\* A path without its element e is not read as the template, because a word of
\* it stands where the template has another.
Clash(path, e, template) ==
    \E i \in 1..Len(path) \ {e} :
        /\ path[i] \in Words
        /\ i < e => template[i] \notin Slots /\ template[i] # path[i]
        /\ e < i => template[i - 1] \notin Slots /\ template[i - 1] # path[i]

ClashTwo(path, e, f, template) ==
    \E i \in 1..Len(path) \ {e, f} :
        /\ path[i] \in Words
        /\ i < e => template[i] \notin Slots /\ template[i] # path[i]
        /\ e < i /\ i < f => template[i - 1] \notin Slots /\ template[i - 1] # path[i]
        /\ f < i => template[i - 2] \notin Slots /\ template[i - 2] # path[i]

Unread(verb, path, e) ==
    \A template : Legible(verb, template) /\ Len(template) = Len(path) - 1 => Clash(path, e, template)

UnreadTwo(verb, path, e, f) ==
    \A template : Legible(verb, template) /\ Len(template) = Len(path) - 2 => ClashTwo(path, e, f, template)

\* A request whose path lacks one element, and clashes with every template.
LEMMA NotReadWithoutOne ==
  ASSUME NEW on, NEW verb, NEW must, NEW path, Len(path) \in 1..8, NEW e \in 2..Len(path),
         NEW sent, Sends(on, must, path, sent), Lacks(sent, {e}),
         NEW template, Reads(sent, template), Legible(verb, template), Unread(verb, path, e)
  PROVE  FALSE
<1>1. /\ Len(sent) = Len(path) /\ DOMAIN sent = 1..Len(path)
      /\ \A i \in 1..Len(path) : path[i] \in Words => sent[i] = path[i]
  BY DEF Sends
<1>2. Len(sent) \in 1..8 /\ e \in 2..Len(sent) /\ DOMAIN sent = 1..Len(sent)
  BY <1>1
<1>3. AgreesWithout(sent, e, template)
  BY <1>2, OneGone, Zenon
<1>4. Clash(path, e, template)
  <2>1. Len(template) = Len(path) - 1
    BY <1>1, <1>3 DEF AgreesWithout
  <2> QED BY <2>1, Zenon DEF Unread
<1> QED BY <1>1, <1>3, <1>4 DEF Clash, AgreesWithout

\* A path that has lost two elements is not read as a template it clashes with.
LEMMA NotReadWithoutTwo ==
  ASSUME NEW on, NEW verb, NEW must, NEW path, Len(path) \in 1..8,
         NEW e \in 2..Len(path), NEW f \in 2..Len(path), e < f,
         NEW sent, Sends(on, must, path, sent), Lacks(sent, {e, f}),
         NEW template, Reads(sent, template), Legible(verb, template), UnreadTwo(verb, path, e, f)
  PROVE  FALSE
<1>1. /\ Len(sent) = Len(path) /\ DOMAIN sent = 1..Len(path)
      /\ \A i \in 1..Len(path) : path[i] \in Words => sent[i] = path[i]
  BY DEF Sends
<1>2. Len(sent) \in 1..8 /\ e \in 2..Len(sent) /\ f \in 2..Len(sent) /\ DOMAIN sent = 1..Len(sent)
  BY <1>1
<1>3. AgreesWithoutTwo(sent, e, f, template)
  BY <1>2, TwoGone, Zenon
<1>4. ClashTwo(path, e, f, template)
  <2>1. Len(template) = Len(path) - 2
    BY <1>1, <1>3 DEF AgreesWithoutTwo
  <2> QED BY <2>1, Zenon DEF UnreadTwo
<1> QED BY <1>1, <1>3, <1>4 DEF ClashTwo, AgreesWithoutTwo

\* A request that may lack one element of its path, or two.
LEMMA WithoutOne ==
  ASSUME NEW on, NEW op, NEW verb, NEW must, NEW path, Len(path) \in 1..8, DOMAIN path = 1..Len(path),
         NEW e \in 2..Len(path), \A i \in 1..Len(path) \ {e} : Shut(on, must, path[i]),
         Unread(verb, path, e)
  PROVE  Told(on, op, verb, must, path)
<1>1. ASSUME NEW sent, Sends(on, must, path, sent), \E i \in DOMAIN sent : sent[i] = NoName
      PROVE  \A template : Legible(verb, template) => ~ Reads(sent, template)
  <2>1. Lacks(sent, {e})
    BY <1>1 DEF Sends, Lacks
  <2> QED BY <1>1, <2>1, NotReadWithoutOne, Zenon
<1>2. Len(path) \in Nat
  OBVIOUS
<1> QED BY <1>1, <1>2, Zenon DEF Told

\* A path of which two elements may be missing, either of them or both.
LEMMA WithoutTwo ==
  ASSUME NEW on, NEW op, NEW verb, NEW must, NEW path, Len(path) \in 1..8, DOMAIN path = 1..Len(path),
         NEW e \in 2..Len(path), NEW f \in 2..Len(path), e < f,
         \A i \in 1..Len(path) \ {e, f} : Shut(on, must, path[i]),
         Unread(verb, path, e), Unread(verb, path, f), UnreadTwo(verb, path, e, f)
  PROVE  Told(on, op, verb, must, path)
<1>1. ASSUME NEW sent, Sends(on, must, path, sent), \E i \in DOMAIN sent : sent[i] = NoName
      PROVE  \A template : Legible(verb, template) => ~ Reads(sent, template)
  <2>1. Lacks(sent, {e}) \/ Lacks(sent, {f}) \/ Lacks(sent, {e, f})
    BY <1>1 DEF Sends, Lacks
  <2> QED BY <1>1, <2>1, NotReadWithoutOne, NotReadWithoutTwo, Zenon
<1>2. Len(path) \in Nat
  OBVIOUS
<1> QED BY <1>1, <1>2, Zenon DEF Told

-----------------------------------------------------------------------------
(***************************************************************************)
(* Which requests are told from the others when a name is missing.         *)
(***************************************************************************)

\* A node that has no name.
LEMMA WithoutNode ==
  ASSUME NEW on, NEW op, NEW verb, NEW must, NEW path, Len(path) \in 3..8, DOMAIN path = 1..Len(path),
         path[1] = "nodes", Len(path) > 3 => path[4] \in Words \ NodeWords,
         \A i \in 1..Len(path) \ {2} : Shut(on, must, path[i])
  PROVE  Told(on, op, verb, must, path)
<1>1. ASSUME NEW template, Legible(verb, template), Len(template) = Len(path) - 1
      PROVE  Clash(path, 2, template)
  <2>1. CASE template[1] # "nodes"
    <3>1. template[1] \notin Slots
      BY <1>1 DEF Legible
    <3> QED BY <2>1, <3>1 DEF Clash, Words
  <2>2. CASE template[1] = "nodes"
    <3>1. Len(template) >= 3 /\ template[3] \in NodeWords
      BY <1>1, <2>2 DEF Legible, NodePath
    <3>2. Len(path) > 3 /\ 4 \in 1..Len(path) \ {2} /\ template[3] \notin Slots /\ template[3] # path[4]
      BY <1>1, <3>1, NodeWordsAreWords, WordsAreWords
    <3> QED BY <3>2 DEF Clash
  <2> QED BY <2>1, <2>2
<1>2. Len(path) \in 1..8 /\ 2 \in 2..Len(path)
  OBVIOUS
<1>3. Unread(verb, path, 2)
  BY <1>1, Zenon DEF Unread
<1> QED BY <1>2, <1>3, WithoutOne, Zenon

\* A word is there.
LEMMA WordsAreShut == \A on, must, s : s \in Words => Shut(on, must, s)
BY DEF Shut

\* An object of the cluster, the last name of its path: what is left is neither the
\* options nor the lock of that part of the cluster.
LEMMA WithoutClusterName ==
  ASSUME NEW on, NEW op, NEW verb \in {"PUT", "DELETE"}, NEW must, NEW b \in {"acme", "firewall", "ha", "sdn"},
         NEW c \in Words, c # "options", c # "lock", NEW d
  PROVE  Told(on, op, verb, must, <<"cluster", b, c, d>>)
<1> DEFINE path == <<"cluster", b, c, d>>
<1>1. /\ Len(path) = 4 /\ DOMAIN path = 1..4
      /\ path[1] = "cluster" /\ path[2] = b /\ path[3] = c
  OBVIOUS
<1> HIDE DEF path
<1>2. "cluster" \in Words /\ b \in Words
  BY DEF Words
<1>3. \A i \in 1..Len(path) \ {4} : Shut(on, must, path[i])
  BY <1>1, <1>2, WordsAreShut
<1>4. ASSUME NEW template, Legible(verb, template), Len(template) = Len(path) - 1
      PROVE  Clash(path, 4, template)
  <2>1. template[1] \notin Slots /\ Len(template) = 3
    BY <1>1, <1>4 DEF Legible
  <2>2. CASE template[1] = "cluster"
    <3>1. template[2] \notin Slots /\ (template[2] = b => template[3] \in {"options", "lock"})
      <4>1. ClusterPath(verb, template)
        BY <1>4, <2>1, <2>2 DEF Legible
      <4> QED BY <2>1, <4>1 DEF ClusterPath
    <3>2. "options" \notin Slots /\ "lock" \notin Slots
      BY WordsAreWords DEF Words
    <3> QED BY <1>1, <1>2, <3>1, <3>2 DEF Clash
  <2> QED BY <1>1, <1>2, <2>1, <2>2 DEF Clash
<1>5. Unread(verb, path, 4)
  BY <1>4, Zenon DEF Unread
<1>6. Len(path) \in 1..8 /\ 4 \in 2..Len(path) /\ DOMAIN path = 1..Len(path)
  BY <1>1
<1>7. Told(on, op, verb, must, path)
  BY <1>3, <1>5, <1>6, WithoutOne, Zenon
<1> QED BY <1>7 DEF path

\* A resource to be moved: of its part of the cluster only the status has requests as short.
LEMMA WithoutResource ==
  ASSUME NEW on, NEW op, NEW must, NEW x, NEW c \in Words
  PROVE  Told(on, op, "POST", must, <<"cluster", "ha", "resources", x, c>>)
<1> DEFINE path == <<"cluster", "ha", "resources", x, c>>
<1>1. /\ Len(path) = 5 /\ DOMAIN path = 1..5
      /\ path[1] = "cluster" /\ path[2] = "ha" /\ path[3] = "resources" /\ path[5] = c
  OBVIOUS
<1> HIDE DEF path
<1>2. "cluster" \in Words /\ "ha" \in Words /\ "resources" \in Words
  BY DEF Words
<1>3. \A i \in 1..Len(path) \ {4} : Shut(on, must, path[i])
  BY <1>1, <1>2, WordsAreShut
<1>4. ASSUME NEW template, Legible("POST", template), Len(template) = Len(path) - 1
      PROVE  Clash(path, 4, template)
  <2>1. template[1] \notin Slots /\ Len(template) = 4
    BY <1>1, <1>4 DEF Legible
  <2>2. CASE template[1] = "cluster"
    <3>1. template[2] \notin Slots /\ (template[2] = "ha" => template[3] = "status")
      <4>1. ClusterPath("POST", template)
        BY <1>4, <2>1, <2>2 DEF Legible
      <4> QED BY <2>1, <4>1 DEF ClusterPath
    <3>2. "status" \notin Slots
      BY WordsAreWords DEF Words
    <3> QED BY <1>1, <1>2, <3>1, <3>2 DEF Clash
  <2> QED BY <1>1, <1>2, <2>1, <2>2 DEF Clash
<1>5. Unread("POST", path, 4)
  BY <1>4, Zenon DEF Unread
<1>6. Len(path) \in 1..8 /\ 4 \in 2..Len(path) /\ DOMAIN path = 1..Len(path)
  BY <1>1
<1>7. Told(on, op, "POST", must, path)
  BY <1>3, <1>5, <1>6, WithoutOne, Zenon
<1> QED BY <1>7 DEF path

\* A replication job: nothing changes all the jobs.
LEMMA WithoutJob ==
  ASSUME NEW on, NEW op, NEW verb \in {"PUT", "DELETE"}, NEW must, NEW x
  PROVE  Told(on, op, verb, must, <<"cluster", "replication", x>>)
<1> DEFINE path == <<"cluster", "replication", x>>
<1>1. /\ Len(path) = 3 /\ DOMAIN path = 1..3
      /\ path[1] = "cluster" /\ path[2] = "replication"
  OBVIOUS
<1> HIDE DEF path
<1>2. "cluster" \in Words /\ "replication" \in Words
  BY DEF Words
<1>3. \A i \in 1..Len(path) \ {3} : Shut(on, must, path[i])
  BY <1>1, <1>2, WordsAreShut
<1>4. ASSUME NEW template, Legible(verb, template), Len(template) = Len(path) - 1
      PROVE  Clash(path, 3, template)
  <2>1. template[1] \notin Slots /\ Len(template) = 2
    BY <1>1, <1>4 DEF Legible
  <2>2. CASE template[1] = "cluster"
    <3>1. template[2] \notin Slots /\ template[2] # "replication"
      <4>1. ClusterPath(verb, template)
        BY <1>4, <2>1, <2>2 DEF Legible
      <4> QED BY <2>1, <4>1 DEF ClusterPath
    <3> QED BY <1>1, <1>2, <3>1 DEF Clash
  <2> QED BY <1>1, <1>2, <2>1, <2>2 DEF Clash
<1>5. Unread(verb, path, 3)
  BY <1>4, Zenon DEF Unread
<1>6. Len(path) \in 1..8 /\ 3 \in 2..Len(path) /\ DOMAIN path = 1..Len(path)
  BY <1>1
<1>7. Told(on, op, verb, must, path)
  BY <1>3, <1>5, <1>6, WithoutOne, Zenon
<1> QED BY <1>7 DEF path

\* A token of a user: the request of four elements for a user unlocks it.
LEMMA WithoutToken ==
  ASSUME NEW on, NEW op, NEW verb \in Verbs, NEW must, NEW u, Shut(on, must, u), NEW x
  PROVE  Told(on, op, verb, must, <<"access", "users", u, "token", x>>)
<1> DEFINE path == <<"access", "users", u, "token", x>>
<1>1. /\ Len(path) = 5 /\ DOMAIN path = 1..5
      /\ path[1] = "access" /\ path[2] = "users" /\ path[3] = u /\ path[4] = "token"
  OBVIOUS
<1> HIDE DEF path
<1>2. "access" \in Words /\ "users" \in Words /\ "token" \in Words
  BY DEF Words
<1>3. \A i \in 1..Len(path) \ {5} : Shut(on, must, path[i])
  BY <1>1, <1>2, WordsAreShut
<1>4. ASSUME NEW template, Legible(verb, template), Len(template) = Len(path) - 1
      PROVE  Clash(path, 5, template)
  <2>1. template[1] \notin Slots /\ Len(template) = 4
    BY <1>1, <1>4 DEF Legible
  <2>2. CASE template[1] = "access"
    <3>1. template[2] \notin Slots /\ (template[2] = "users" => template[4] = "unlock-tfa")
      <4>1. AccessPath(template)
        BY <1>4, <2>1, <2>2 DEF Legible
      <4> QED BY <2>1, <4>1 DEF AccessPath
    <3>2. "unlock-tfa" \notin Slots
      BY WordsAreWords DEF Words
    <3> QED BY <1>1, <1>2, <3>1, <3>2 DEF Clash
  <2> QED BY <1>1, <1>2, <2>1, <2>2 DEF Clash
<1>5. Unread(verb, path, 5)
  BY <1>4, Zenon DEF Unread
<1>6. Len(path) \in 1..8 /\ 5 \in 2..Len(path) /\ DOMAIN path = 1..Len(path)
  BY <1>1
<1>7. Told(on, op, verb, must, path)
  BY <1>3, <1>5, <1>6, WithoutOne, Zenon
<1> QED BY <1>7 DEF path

\* A storage of the cluster: nothing changes them all.
LEMMA WithoutClusterStorage ==
  ASSUME NEW on, NEW op, NEW verb \in {"PUT", "DELETE"}, NEW must, NEW x
  PROVE  Told(on, op, verb, must, <<"storage", x>>)
<1> DEFINE path == <<"storage", x>>
<1>1. /\ Len(path) = 2 /\ DOMAIN path = 1..2
      /\ path[1] = "storage"
  OBVIOUS
<1> HIDE DEF path
<1>2. "storage" \in Words
  BY DEF Words
<1>3. \A i \in 1..Len(path) \ {2} : Shut(on, must, path[i])
  BY <1>1, <1>2, WordsAreShut
<1>4. ASSUME NEW template, Legible(verb, template), Len(template) = Len(path) - 1
      PROVE  Clash(path, 2, template)
  <2>1. template[1] \notin Slots /\ Len(template) = 1
    BY <1>1, <1>4 DEF Legible
  <2>2. CASE template[1] = "storage"
    <3>1. Len(template) = 2
      BY <1>4, <2>1, <2>2 DEF Legible
    <3> QED BY <2>1, <3>1
  <2> QED BY <1>1, <1>2, <2>1, <2>2 DEF Clash
<1>5. Unread(verb, path, 2)
  BY <1>4, Zenon DEF Unread
<1>6. Len(path) \in 1..8 /\ 2 \in 2..Len(path) /\ DOMAIN path = 1..Len(path)
  BY <1>1
<1>7. Told(on, op, verb, must, path)
  BY <1>3, <1>5, <1>6, WithoutOne, Zenon
<1> QED BY <1>7 DEF path

\* A volume of a storage: the request of five elements for a storage prunes its backups.
LEMMA WithoutVolume ==
  ASSUME NEW on, NEW op, NEW must, NEW n, Shut(on, must, n), NEW s, Shut(on, must, s), NEW x
  PROVE  Told(on, op, "DELETE", must, <<"nodes", n, "storage", s, "content", x>>)
<1> DEFINE path == <<"nodes", n, "storage", s, "content", x>>
<1>1. /\ Len(path) = 6 /\ DOMAIN path = 1..6
      /\ path[1] = "nodes" /\ path[2] = n /\ path[3] = "storage" /\ path[4] = s /\ path[5] = "content"
  OBVIOUS
<1> HIDE DEF path
<1>2. "nodes" \in Words /\ "storage" \in Words /\ "content" \in Words
  BY DEF Words
<1>3. \A i \in 1..Len(path) \ {6} : Shut(on, must, path[i])
  BY <1>1, <1>2, WordsAreShut
<1>4. ASSUME NEW template, Legible("DELETE", template), Len(template) = Len(path) - 1
      PROVE  Clash(path, 6, template)
  <2>1. template[1] \notin Slots /\ Len(template) = 5
    BY <1>1, <1>4 DEF Legible
  <2>2. CASE template[1] = "nodes"
    <3>1. template[3] \in NodeWords /\ (template[3] = "storage" => template[5] = "prunebackups")
      <4>1. NodePath("DELETE", template)
        BY <1>4, <2>1, <2>2 DEF Legible
      <4> QED BY <2>1, <4>1 DEF NodePath
    <3>2. template[3] \notin Slots /\ "prunebackups" \notin Slots
      <4>1. "prunebackups" \in Words
        BY DEF Words
      <4> QED BY <3>1, <4>1, NodeWordsAreWords, WordsAreWords
    <3> QED BY <1>1, <1>2, <3>1, <3>2 DEF Clash
  <2> QED BY <1>1, <1>2, <2>1, <2>2 DEF Clash
<1>5. Unread("DELETE", path, 6)
  BY <1>4, Zenon DEF Unread
<1>6. Len(path) \in 1..8 /\ 6 \in 2..Len(path) /\ DOMAIN path = 1..Len(path)
  BY <1>1
<1>7. Told(on, op, "DELETE", must, path)
  BY <1>3, <1>5, <1>6, WithoutOne, Zenon
<1> QED BY <1>7 DEF path

\* An alias or a set of a guest's firewall: what is left is not its options.
LEMMA WithoutGuestEntry ==
  ASSUME NEW on, NEW op, NEW verb \in {"PUT", "DELETE"}, NEW must, NEW n, Shut(on, must, n),
         NEW g \in {"qemu", "lxc"}, NEW v, Shut(on, must, v), NEW c \in Words, c # "options", NEW x
  PROVE  Told(on, op, verb, must, <<"nodes", n, g, v, "firewall", c, x>>)
<1> DEFINE path == <<"nodes", n, g, v, "firewall", c, x>>
<1>1. /\ Len(path) = 7 /\ DOMAIN path = 1..7
      /\ path[1] = "nodes" /\ path[2] = n /\ path[3] = g /\ path[4] = v /\ path[5] = "firewall" /\ path[6] = c
  OBVIOUS
<1> HIDE DEF path
<1>2. "nodes" \in Words /\ "firewall" \in Words /\ g \in Words
  BY DEF Words
<1>3. \A i \in 1..Len(path) \ {7} : Shut(on, must, path[i])
  BY <1>1, <1>2, WordsAreShut
<1>4. ASSUME NEW template, Legible(verb, template), Len(template) = Len(path) - 1
      PROVE  Clash(path, 7, template)
  <2>1. template[1] \notin Slots /\ Len(template) = 6
    BY <1>1, <1>4 DEF Legible
  <2>2. CASE template[1] = "nodes"
    <3>1. template[3] \in NodeWords
      <4>1. NodePath(verb, template)
        BY <1>4, <2>1, <2>2 DEF Legible
      <4> QED BY <2>1, <4>1 DEF NodePath
    <3>2. template[3] = g => template[5] \notin Slots /\ (template[5] = "firewall" => template[6] = "options")
      <4>1. GuestPath(verb, template)
        BY <1>4, <2>1, <2>2 DEF Legible
      <4> QED BY <2>1, <4>1 DEF GuestPath
    <3>3. template[3] \notin Slots /\ "options" \notin Slots
      <4>1. "options" \in Words
        BY DEF Words
      <4> QED BY <3>1, <4>1, NodeWordsAreWords, WordsAreWords
    <3> QED BY <1>1, <1>2, <3>1, <3>2, <3>3 DEF Clash
  <2> QED BY <1>1, <1>2, <2>1, <2>2 DEF Clash
<1>5. Unread(verb, path, 7)
  BY <1>4, Zenon DEF Unread
<1>6. Len(path) \in 1..8 /\ 7 \in 2..Len(path) /\ DOMAIN path = 1..Len(path)
  BY <1>1
<1>7. Told(on, op, verb, must, path)
  BY <1>3, <1>5, <1>6, WithoutOne, Zenon
<1> QED BY <1>7 DEF path

\* A snapshot to be deleted: nothing deletes them all.
LEMMA WithoutSnapshot ==
  ASSUME NEW on, NEW op, NEW must, NEW n, Shut(on, must, n),
         NEW g \in {"qemu", "lxc"}, NEW v, Shut(on, must, v), NEW x
  PROVE  Told(on, op, "DELETE", must, <<"nodes", n, g, v, "snapshot", x>>)
<1> DEFINE path == <<"nodes", n, g, v, "snapshot", x>>
<1>1. /\ Len(path) = 6 /\ DOMAIN path = 1..6
      /\ path[1] = "nodes" /\ path[2] = n /\ path[3] = g /\ path[4] = v /\ path[5] = "snapshot"
  OBVIOUS
<1> HIDE DEF path
<1>2. "nodes" \in Words /\ "snapshot" \in Words /\ g \in Words
  BY DEF Words
<1>3. \A i \in 1..Len(path) \ {6} : Shut(on, must, path[i])
  BY <1>1, <1>2, WordsAreShut
<1>4. ASSUME NEW template, Legible("DELETE", template), Len(template) = Len(path) - 1
      PROVE  Clash(path, 6, template)
  <2>1. template[1] \notin Slots /\ Len(template) = 5
    BY <1>1, <1>4 DEF Legible
  <2>2. CASE template[1] = "nodes"
    <3>1. template[3] \in NodeWords
      <4>1. NodePath("DELETE", template)
        BY <1>4, <2>1, <2>2 DEF Legible
      <4> QED BY <2>1, <4>1 DEF NodePath
    <3>2. template[3] = g => template[5] \notin Slots /\ template[5] # "snapshot"
      <4>1. GuestPath("DELETE", template)
        BY <1>4, <2>1, <2>2 DEF Legible
      <4> QED BY <2>1, <4>1 DEF GuestPath
    <3>3. template[3] \notin Slots
      BY <3>1, NodeWordsAreWords, WordsAreWords
    <3> QED BY <1>1, <1>2, <3>1, <3>2, <3>3 DEF Clash
  <2> QED BY <1>1, <1>2, <2>1, <2>2 DEF Clash
<1>5. Unread("DELETE", path, 6)
  BY <1>4, Zenon DEF Unread
<1>6. Len(path) \in 1..8 /\ 6 \in 2..Len(path) /\ DOMAIN path = 1..Len(path)
  BY <1>1
<1>7. Told(on, op, "DELETE", must, path)
  BY <1>3, <1>5, <1>6, WithoutOne, Zenon
<1> QED BY <1>7 DEF path

\* What is done to a snapshot is not done to one of that name: that is deleted only.
LEMMA WithoutSnapshotOf ==
  ASSUME NEW on, NEW op, NEW verb \in {"PUT", "POST"}, NEW must, NEW n, Shut(on, must, n),
         NEW g \in {"qemu", "lxc"}, NEW v, Shut(on, must, v), NEW x, NEW c \in Words
  PROVE  Told(on, op, verb, must, <<"nodes", n, g, v, "snapshot", x, c>>)
<1> DEFINE path == <<"nodes", n, g, v, "snapshot", x, c>>
<1>1. /\ Len(path) = 7 /\ DOMAIN path = 1..7
      /\ path[1] = "nodes" /\ path[2] = n /\ path[3] = g /\ path[4] = v /\ path[5] = "snapshot" /\ path[7] = c
  OBVIOUS
<1> HIDE DEF path
<1>2. "nodes" \in Words /\ "snapshot" \in Words /\ g \in Words
  BY DEF Words
<1>3. \A i \in 1..Len(path) \ {6} : Shut(on, must, path[i])
  BY <1>1, <1>2, WordsAreShut
<1>4. ASSUME NEW template, Legible(verb, template), Len(template) = Len(path) - 1
      PROVE  Clash(path, 6, template)
  <2>1. template[1] \notin Slots /\ Len(template) = 6
    BY <1>1, <1>4 DEF Legible
  <2>2. CASE template[1] = "nodes"
    <3>1. template[3] \in NodeWords
      <4>1. NodePath(verb, template)
        BY <1>4, <2>1, <2>2 DEF Legible
      <4> QED BY <2>1, <4>1 DEF NodePath
    <3>2. template[3] = g => template[5] \notin Slots /\ template[5] # "snapshot"
      <4>1. GuestPath(verb, template)
        BY <1>4, <2>1, <2>2 DEF Legible
      <4> QED BY <2>1, <4>1 DEF GuestPath
    <3>3. template[3] \notin Slots
      BY <3>1, NodeWordsAreWords, WordsAreWords
    <3> QED BY <1>1, <1>2, <3>1, <3>2, <3>3 DEF Clash
  <2> QED BY <1>1, <1>2, <2>1, <2>2 DEF Clash
<1>5. Unread(verb, path, 6)
  BY <1>4, Zenon DEF Unread
<1>6. Len(path) \in 1..8 /\ 6 \in 2..Len(path) /\ DOMAIN path = 1..Len(path)
  BY <1>1
<1>7. Told(on, op, verb, must, path)
  BY <1>3, <1>5, <1>6, WithoutOne, Zenon
<1> QED BY <1>7 DEF path

\* The same of paths of each length.
LEMMA WithoutNode3 ==
  ASSUME NEW on, NEW op, NEW verb, NEW must, NEW b, NEW c,
         c \in Words
  PROVE  Told(on, op, verb, must, <<"nodes", b, c>>)
<1> DEFINE path == <<"nodes", b, c>>
<1>1. /\ Len(path) = 3 /\ DOMAIN path = 1..3
      /\ path[1] = "nodes" /\ path[3] = c
  OBVIOUS
<1> HIDE DEF path
<1>2. "nodes" \in Words
  BY DEF Words
<1>3. \A i \in 1..Len(path) \ {2} : Shut(on, must, path[i])
  BY <1>1, <1>2, WordsAreShut
<1>4. Len(path) > 3 => path[4] \in Words \ NodeWords
  BY <1>1
<1> QED BY <1>1, <1>3, <1>4, WithoutNode DEF path

\* A path below a node of four elements, the node its only name.
LEMMA WithoutNode4 ==
  ASSUME NEW on, NEW op, NEW verb, NEW must, NEW b, NEW c, NEW d,
         c \in Words, d \in Words \ NodeWords
  PROVE  Told(on, op, verb, must, <<"nodes", b, c, d>>)
<1> DEFINE path == <<"nodes", b, c, d>>
<1>1. /\ Len(path) = 4 /\ DOMAIN path = 1..4
      /\ path[1] = "nodes" /\ path[3] = c /\ path[4] = d
  OBVIOUS
<1> HIDE DEF path
<1>2. "nodes" \in Words
  BY DEF Words
<1>3. \A i \in 1..Len(path) \ {2} : Shut(on, must, path[i])
  BY <1>1, <1>2, WordsAreShut
<1>4. Len(path) > 3 => path[4] \in Words \ NodeWords
  BY <1>1
<1> QED BY <1>1, <1>3, <1>4, WithoutNode DEF path

\* One of five, with a last name that is there.
LEMMA WithoutNode5 ==
  ASSUME NEW on, NEW op, NEW verb, NEW must, NEW b, NEW c, NEW d, NEW e,
         c \in Words, d \in Words \ NodeWords, Shut(on, must, e)
  PROVE  Told(on, op, verb, must, <<"nodes", b, c, d, e>>)
<1> DEFINE path == <<"nodes", b, c, d, e>>
<1>1. /\ Len(path) = 5 /\ DOMAIN path = 1..5
      /\ path[1] = "nodes" /\ path[3] = c /\ path[4] = d /\ path[5] = e
  OBVIOUS
<1> HIDE DEF path
<1>2. "nodes" \in Words
  BY DEF Words
<1>3. \A i \in 1..Len(path) \ {2} : Shut(on, must, path[i])
  BY <1>1, <1>2, WordsAreShut
<1>4. Len(path) > 3 => path[4] \in Words \ NodeWords
  BY <1>1
<1> QED BY <1>1, <1>3, <1>4, WithoutNode DEF path

\* One of six.
LEMMA WithoutNode6 ==
  ASSUME NEW on, NEW op, NEW verb, NEW must, NEW b, NEW c, NEW d, NEW e, NEW f,
         c \in Words, d \in Words \ NodeWords, Shut(on, must, e), Shut(on, must, f)
  PROVE  Told(on, op, verb, must, <<"nodes", b, c, d, e, f>>)
<1> DEFINE path == <<"nodes", b, c, d, e, f>>
<1>1. /\ Len(path) = 6 /\ DOMAIN path = 1..6
      /\ path[1] = "nodes" /\ path[3] = c /\ path[4] = d /\ path[5] = e /\ path[6] = f
  OBVIOUS
<1> HIDE DEF path
<1>2. "nodes" \in Words
  BY DEF Words
<1>3. \A i \in 1..Len(path) \ {2} : Shut(on, must, path[i])
  BY <1>1, <1>2, WordsAreShut
<1>4. Len(path) > 3 => path[4] \in Words \ NodeWords
  BY <1>1
<1> QED BY <1>1, <1>3, <1>4, WithoutNode DEF path

\* An entry of an IP set of the cluster to be changed: what is left is not an alias, a
\* rule or the options.
LEMMA WithoutClusterEntry ==
  ASSUME NEW on, NEW op, NEW must, NEW x, NEW y
  PROVE  Told(on, op, "PUT", must, <<"cluster", "firewall", "ipset", x, y>>)
<1> DEFINE path == <<"cluster", "firewall", "ipset", x, y>>
<1>1. /\ Len(path) = 5 /\ DOMAIN path = 1..5
      /\ path[1] = "cluster" /\ path[2] = "firewall" /\ path[3] = "ipset"
  OBVIOUS
<1> HIDE DEF path
<1>2. "cluster" \in Words /\ "firewall" \in Words /\ "ipset" \in Words
  BY DEF Words
<1>3. \A i \in 1..Len(path) \ {4, 5} : Shut(on, must, path[i])
  BY <1>1, <1>2, WordsAreShut
<1>4. ASSUME NEW template, Legible("PUT", template), Len(template) = Len(path) - 1
      PROVE  Clash(path, 4, template)
  <2>1. template[1] \notin Slots /\ Len(template) = 4
    BY <1>1, <1>4 DEF Legible
  <2>2. CASE template[1] = "cluster"
    <3>1. template[2] \notin Slots /\ (template[2] = "firewall" => template[3] \in {"aliases", "rules"})
      <4>1. ClusterPath("PUT", template)
        BY <1>4, <2>1, <2>2 DEF Legible
      <4> QED BY <2>1, <4>1 DEF ClusterPath
    <3>2. "aliases" \notin Slots /\ "rules" \notin Slots
      BY WordsAreWords DEF Words
    <3> QED BY <1>1, <1>2, <3>1, <3>2 DEF Clash
  <2> QED BY <1>1, <1>2, <2>1, <2>2 DEF Clash
<1>5. ASSUME NEW template, Legible("PUT", template), Len(template) = Len(path) - 1
      PROVE  Clash(path, 5, template)
  <2>1. template[1] \notin Slots /\ Len(template) = 4
    BY <1>1, <1>5 DEF Legible
  <2>2. CASE template[1] = "cluster"
    <3>1. template[2] \notin Slots /\ (template[2] = "firewall" => template[3] \in {"aliases", "rules"})
      <4>1. ClusterPath("PUT", template)
        BY <1>5, <2>1, <2>2 DEF Legible
      <4> QED BY <2>1, <4>1 DEF ClusterPath
    <3>2. "aliases" \notin Slots /\ "rules" \notin Slots
      BY WordsAreWords DEF Words
    <3> QED BY <1>1, <1>2, <3>1, <3>2 DEF Clash
  <2> QED BY <1>1, <1>2, <2>1, <2>2 DEF Clash
<1>6. ASSUME NEW template, Legible("PUT", template), Len(template) = Len(path) - 2
      PROVE  ClashTwo(path, 4, 5, template)
  <2>1. template[1] \notin Slots /\ Len(template) = 3
    BY <1>1, <1>6 DEF Legible
  <2>2. CASE template[1] = "cluster"
    <3>1. template[2] \notin Slots /\ (template[2] = "firewall" => template[3] \in {"options", "lock"})
      <4>1. ClusterPath("PUT", template)
        BY <1>6, <2>1, <2>2 DEF Legible
      <4> QED BY <2>1, <4>1 DEF ClusterPath
    <3>2. "options" \notin Slots /\ "lock" \notin Slots
      BY WordsAreWords DEF Words
    <3> QED BY <1>1, <1>2, <3>1, <3>2 DEF ClashTwo
  <2> QED BY <1>1, <1>2, <2>1, <2>2 DEF ClashTwo
<1>7. Unread("PUT", path, 4) /\ Unread("PUT", path, 5)
  BY <1>4, <1>5, Zenon DEF Unread
<1>8. UnreadTwo("PUT", path, 4, 5)
  BY <1>6, Zenon DEF UnreadTwo
<1>9. Len(path) \in 1..8 /\ DOMAIN path = 1..Len(path) /\ 4 \in 2..Len(path) /\ 5 \in 2..Len(path) /\ 4 < 5
  BY <1>1
<1>10. Told(on, op, "PUT", must, path)
  BY <1>3, <1>7, <1>8, <1>9, WithoutTwo, Zenon
<1> QED BY <1>10 DEF path

\* The same of a guest.
LEMMA WithoutGuestSetEntry ==
  ASSUME NEW on, NEW op, NEW must, NEW n, Shut(on, must, n),
         NEW g \in {"qemu", "lxc"}, NEW v, Shut(on, must, v), NEW x, NEW y
  PROVE  Told(on, op, "PUT", must, <<"nodes", n, g, v, "firewall", "ipset", x, y>>)
<1> DEFINE path == <<"nodes", n, g, v, "firewall", "ipset", x, y>>
<1>1. /\ Len(path) = 8 /\ DOMAIN path = 1..8
      /\ path[1] = "nodes" /\ path[2] = n /\ path[3] = g /\ path[4] = v /\ path[5] = "firewall"
      /\ path[6] = "ipset"
  OBVIOUS
<1> HIDE DEF path
<1>2. "nodes" \in Words /\ "firewall" \in Words /\ "ipset" \in Words /\ g \in Words
  BY DEF Words
<1>3. \A i \in 1..Len(path) \ {7, 8} : Shut(on, must, path[i])
  BY <1>1, <1>2, WordsAreShut
<1>4. ASSUME NEW template, Legible("PUT", template), Len(template) = Len(path) - 1
      PROVE  Clash(path, 7, template)
  <2>1. template[1] \notin Slots /\ Len(template) = 7
    BY <1>1, <1>4 DEF Legible
  <2>2. CASE template[1] = "nodes"
    <3>1. template[3] \in NodeWords
      <4>1. NodePath("PUT", template)
        BY <1>4, <2>1, <2>2 DEF Legible
      <4> QED BY <2>1, <4>1 DEF NodePath
    <3>2. template[3] = g =>
            template[5] \notin Slots /\ (template[5] = "firewall" => template[6] \in {"aliases", "rules"})
      <4>1. GuestPath("PUT", template)
        BY <1>4, <2>1, <2>2 DEF Legible
      <4> QED BY <2>1, <4>1 DEF GuestPath
    <3>3. template[3] \notin Slots /\ "aliases" \notin Slots /\ "rules" \notin Slots
      <4>1. "aliases" \in Words /\ "rules" \in Words
        BY DEF Words
      <4> QED BY <3>1, <4>1, NodeWordsAreWords, WordsAreWords
    <3> QED BY <1>1, <1>2, <3>1, <3>2, <3>3 DEF Clash
  <2> QED BY <1>1, <1>2, <2>1, <2>2 DEF Clash
<1>5. ASSUME NEW template, Legible("PUT", template), Len(template) = Len(path) - 1
      PROVE  Clash(path, 8, template)
  <2>1. template[1] \notin Slots /\ Len(template) = 7
    BY <1>1, <1>5 DEF Legible
  <2>2. CASE template[1] = "nodes"
    <3>1. template[3] \in NodeWords
      <4>1. NodePath("PUT", template)
        BY <1>5, <2>1, <2>2 DEF Legible
      <4> QED BY <2>1, <4>1 DEF NodePath
    <3>2. template[3] = g =>
            template[5] \notin Slots /\ (template[5] = "firewall" => template[6] \in {"aliases", "rules"})
      <4>1. GuestPath("PUT", template)
        BY <1>5, <2>1, <2>2 DEF Legible
      <4> QED BY <2>1, <4>1 DEF GuestPath
    <3>3. template[3] \notin Slots /\ "aliases" \notin Slots /\ "rules" \notin Slots
      <4>1. "aliases" \in Words /\ "rules" \in Words
        BY DEF Words
      <4> QED BY <3>1, <4>1, NodeWordsAreWords, WordsAreWords
    <3> QED BY <1>1, <1>2, <3>1, <3>2, <3>3 DEF Clash
  <2> QED BY <1>1, <1>2, <2>1, <2>2 DEF Clash
<1>6. ASSUME NEW template, Legible("PUT", template), Len(template) = Len(path) - 2
      PROVE  ClashTwo(path, 7, 8, template)
  <2>1. template[1] \notin Slots /\ Len(template) = 6
    BY <1>1, <1>6 DEF Legible
  <2>2. CASE template[1] = "nodes"
    <3>1. template[3] \in NodeWords
      <4>1. NodePath("PUT", template)
        BY <1>6, <2>1, <2>2 DEF Legible
      <4> QED BY <2>1, <4>1 DEF NodePath
    <3>2. template[3] = g =>
            template[5] \notin Slots /\ (template[5] = "firewall" => template[6] \in {"options"})
      <4>1. GuestPath("PUT", template)
        BY <1>6, <2>1, <2>2 DEF Legible
      <4> QED BY <2>1, <4>1 DEF GuestPath
    <3>3. template[3] \notin Slots /\ "options" \notin Slots
      <4>1. "options" \in Words
        BY DEF Words
      <4> QED BY <3>1, <4>1, NodeWordsAreWords, WordsAreWords
    <3> QED BY <1>1, <1>2, <3>1, <3>2, <3>3 DEF ClashTwo
  <2> QED BY <1>1, <1>2, <2>1, <2>2 DEF ClashTwo
<1>7. Unread("PUT", path, 7) /\ Unread("PUT", path, 8)
  BY <1>4, <1>5, Zenon DEF Unread
<1>8. UnreadTwo("PUT", path, 7, 8)
  BY <1>6, Zenon DEF UnreadTwo
<1>9. Len(path) \in 1..8 /\ DOMAIN path = 1..Len(path) /\ 7 \in 2..Len(path) /\ 8 \in 2..Len(path) /\ 7 < 8
  BY <1>1
<1>10. Told(on, op, "PUT", must, path)
  BY <1>3, <1>7, <1>8, <1>9, WithoutTwo, Zenon
<1> QED BY <1>10 DEF path

\* What is done to a storage, a service or a job of a node is done neither to the node
\* nor to a node of that name.
LEMMA WithoutNodeAndName ==
  ASSUME NEW on, NEW op, NEW must, NEW n, NEW b \in {"services", "replication", "storage"}, NEW x,
         NEW c \in Words, c \notin NodeWords, c \notin NodePosts
  PROVE  Told(on, op, "POST", must, <<"nodes", n, b, x, c>>)
<1> DEFINE path == <<"nodes", n, b, x, c>>
<1>1. /\ Len(path) = 5 /\ DOMAIN path = 1..5
      /\ path[1] = "nodes" /\ path[3] = b /\ path[5] = c
  OBVIOUS
<1> HIDE DEF path
<1>2. "nodes" \in Words /\ b \in Words
  BY DEF Words
<1>3. \A i \in 1..Len(path) \ {2, 4} : Shut(on, must, path[i])
  BY <1>1, <1>2, WordsAreShut
<1>4. ASSUME NEW template, Legible("POST", template), Len(template) = Len(path) - 1
      PROVE  Clash(path, 2, template)
  <2>1. template[1] \notin Slots /\ Len(template) = 4
    BY <1>1, <1>4 DEF Legible
  <2>2. CASE template[1] = "nodes"
    <3>1. template[3] \in NodeWords /\ template[4] \in NodePosts
      <4>1. NodePath("POST", template)
        BY <1>4, <2>1, <2>2 DEF Legible
      <4> QED BY <2>1, <4>1 DEF NodePath
    <3>2. template[3] \notin Slots /\ template[4] \notin Slots
      BY <3>1, NodeWordsAreWords, WordsAreWords
    <3> QED BY <1>1, <1>2, <3>1, <3>2 DEF Clash, NodeWords, NodePosts
  <2> QED BY <1>1, <1>2, <2>1, <2>2 DEF Clash
<1>5. ASSUME NEW template, Legible("POST", template), Len(template) = Len(path) - 1
      PROVE  Clash(path, 4, template)
  <2>1. template[1] \notin Slots /\ Len(template) = 4
    BY <1>1, <1>5 DEF Legible
  <2>2. CASE template[1] = "nodes"
    <3>1. template[3] \in NodeWords /\ template[3] # b
      <4>1. NodePath("POST", template)
        BY <1>5, <2>1, <2>2 DEF Legible
      <4> QED BY <2>1, <4>1 DEF NodePath
    <3>2. template[3] \notin Slots
      BY <3>1, NodeWordsAreWords, WordsAreWords
    <3> QED BY <1>1, <1>2, <3>1, <3>2 DEF Clash
  <2> QED BY <1>1, <1>2, <2>1, <2>2 DEF Clash
<1>6. ASSUME NEW template, Legible("POST", template), Len(template) = Len(path) - 2
      PROVE  ClashTwo(path, 2, 4, template)
  <2>1. template[1] \notin Slots /\ Len(template) = 3
    BY <1>1, <1>6 DEF Legible
  <2>2. CASE template[1] = "nodes"
    <3>1. template[3] \in NodeWords
      <4>1. NodePath("POST", template)
        BY <1>6, <2>1, <2>2 DEF Legible
      <4> QED BY <2>1, <4>1 DEF NodePath
    <3>2. template[3] \notin Slots
      BY <3>1, NodeWordsAreWords, WordsAreWords
    <3> QED BY <1>1, <1>2, <3>1, <3>2 DEF ClashTwo
  <2> QED BY <1>1, <1>2, <2>1, <2>2 DEF ClashTwo
<1>7. Unread("POST", path, 2) /\ Unread("POST", path, 4)
  BY <1>4, <1>5, Zenon DEF Unread
<1>8. UnreadTwo("POST", path, 2, 4)
  BY <1>6, Zenon DEF UnreadTwo
<1>9. Len(path) \in 1..8 /\ DOMAIN path = 1..Len(path) /\ 2 \in 2..Len(path) /\ 4 \in 2..Len(path) /\ 2 < 4
  BY <1>1
<1>10. Told(on, op, "POST", must, path)
  BY <1>3, <1>7, <1>8, <1>9, WithoutTwo, Zenon
<1> QED BY <1>10 DEF path

\* A daemon of Ceph to be made: its kind is no word that follows a node, nor one of the
\* requests of four elements.
LEMMA WithoutNodeAndDaemon ==
  ASSUME NEW on, NEW op, NEW must, NEW n, NEW c \in Words, c \notin NodeWords, c \notin NodePosts, NEW x
  PROVE  Told(on, op, "POST", must, <<"nodes", n, "ceph", c, x>>)
<1> DEFINE path == <<"nodes", n, "ceph", c, x>>
<1>1. /\ Len(path) = 5 /\ DOMAIN path = 1..5
      /\ path[1] = "nodes" /\ path[3] = "ceph" /\ path[4] = c
  OBVIOUS
<1> HIDE DEF path
<1>2. "nodes" \in Words /\ "ceph" \in Words
  BY DEF Words
<1>3. \A i \in 1..Len(path) \ {2, 5} : Shut(on, must, path[i])
  BY <1>1, <1>2, WordsAreShut
<1>4. ASSUME NEW template, Legible("POST", template), Len(template) = Len(path) - 1
      PROVE  Clash(path, 2, template)
  <2>1. template[1] \notin Slots /\ Len(template) = 4
    BY <1>1, <1>4 DEF Legible
  <2>2. CASE template[1] = "nodes"
    <3>1. template[3] \in NodeWords
      <4>1. NodePath("POST", template)
        BY <1>4, <2>1, <2>2 DEF Legible
      <4> QED BY <2>1, <4>1 DEF NodePath
    <3>2. template[3] \notin Slots
      BY <3>1, NodeWordsAreWords, WordsAreWords
    <3> QED BY <1>1, <1>2, <3>1, <3>2 DEF Clash
  <2> QED BY <1>1, <1>2, <2>1, <2>2 DEF Clash
<1>5. ASSUME NEW template, Legible("POST", template), Len(template) = Len(path) - 1
      PROVE  Clash(path, 5, template)
  <2>1. template[1] \notin Slots /\ Len(template) = 4
    BY <1>1, <1>5 DEF Legible
  <2>2. CASE template[1] = "nodes"
    <3>1. template[3] \in NodeWords /\ template[4] \in NodePosts
      <4>1. NodePath("POST", template)
        BY <1>5, <2>1, <2>2 DEF Legible
      <4> QED BY <2>1, <4>1 DEF NodePath
    <3>2. template[4] \notin Slots
      BY <3>1, NodeWordsAreWords, WordsAreWords
    <3> QED BY <1>1, <1>2, <3>1, <3>2 DEF Clash
  <2> QED BY <1>1, <1>2, <2>1, <2>2 DEF Clash
<1>6. ASSUME NEW template, Legible("POST", template), Len(template) = Len(path) - 2
      PROVE  ClashTwo(path, 2, 5, template)
  <2>1. template[1] \notin Slots /\ Len(template) = 3
    BY <1>1, <1>6 DEF Legible
  <2>2. CASE template[1] = "nodes"
    <3>1. template[3] \in NodeWords
      <4>1. NodePath("POST", template)
        BY <1>6, <2>1, <2>2 DEF Legible
      <4> QED BY <2>1, <4>1 DEF NodePath
    <3>2. template[3] \notin Slots
      BY <3>1, NodeWordsAreWords, WordsAreWords
    <3> QED BY <1>1, <1>2, <3>1, <3>2 DEF ClashTwo
  <2> QED BY <1>1, <1>2, <2>1, <2>2 DEF ClashTwo
<1>7. Unread("POST", path, 2) /\ Unread("POST", path, 5)
  BY <1>4, <1>5, Zenon DEF Unread
<1>8. UnreadTwo("POST", path, 2, 5)
  BY <1>6, Zenon DEF UnreadTwo
<1>9. Len(path) \in 1..8 /\ DOMAIN path = 1..Len(path) /\ 2 \in 2..Len(path) /\ 5 \in 2..Len(path) /\ 2 < 5
  BY <1>1
<1>10. Told(on, op, "POST", must, path)
  BY <1>3, <1>7, <1>8, <1>9, WithoutTwo, Zenon
<1> QED BY <1>10 DEF path

\* What is done to a service that may be called ceph.
LEMMA WithoutService ==
  ASSUME NEW on, NEW op, NEW must, NEW n, NEW x, NEW c \in {"start", "stop", "restart"}
  PROVE  Told(on, op, "POST", must, <<"nodes", n, "services", x, c>>)
<1> DEFINE path == <<"nodes", n, "services", x, c>>
<1>1. /\ Len(path) = 5 /\ DOMAIN path = 1..5
      /\ path[1] = "nodes" /\ path[3] = "services" /\ path[5] = c
  OBVIOUS
<1> HIDE DEF path
<1>2. "nodes" \in Words /\ "services" \in Words /\ c \in Words \ NodeWords
  BY DEF Words, NodeWords
<1>3. \A i \in 1..Len(path) \ {2, 4} : Shut(on, must, path[i])
  BY <1>1, <1>2, WordsAreShut
<1>4. ASSUME NEW template, Legible("POST", template), Len(template) > 2, template[1] \in Slots \/ template[1] = "nodes"
      PROVE  template[1] = "nodes" /\ NodePath("POST", template)
  BY <1>4 DEF Legible
<1>5. ASSUME NEW sent, Sends(on, must, path, sent), Lacks(sent, {2}), sent[4] # "ceph",
             NEW template, Legible("POST", template), Reads(sent, template)
      PROVE  FALSE
  <2>1. Len(sent) = 5 /\ DOMAIN sent = 1..Len(sent) /\ sent[1] = "nodes" /\ sent[5] = c
    BY <1>1, <1>2, <1>5 DEF Sends
  <2>2. AgreesWithout(sent, 2, template)
    <3>1. Len(sent) \in 1..8 /\ 2 \in 2..Len(sent)
      BY <2>1
    <3> QED BY <1>5, <2>1, <3>1, OneGone, Zenon
  <2>3. /\ Len(template) = 4
        /\ template[1] \in Slots \/ template[1] = "nodes"
        /\ template[3] \in Slots \/ template[3] = sent[4]
        /\ template[4] \in Slots \/ template[4] = c
    BY <2>1, <2>2 DEF AgreesWithout
  <2>4. NodePath("POST", template)
    BY <1>4, <1>5, <2>3
  <2>5. template[4] \in NodePosts /\ (template[4] = c => template[3] = "ceph") /\ template[3] \in NodeWords
    BY <2>3, <2>4 DEF NodePath
  <2>6. template[4] \notin Slots /\ template[3] \notin Slots
    BY <2>5, NodeWordsAreWords, WordsAreWords
  <2> QED BY <1>5, <2>3, <2>5, <2>6
<1>6. ASSUME NEW template, Legible("POST", template), Len(template) = Len(path) - 1
      PROVE  Clash(path, 4, template)
  <2>1. template[1] \notin Slots /\ Len(template) = 4
    BY <1>1, <1>6 DEF Legible
  <2>2. CASE template[1] = "nodes"
    <3>1. template[3] \in NodeWords /\ template[3] # "services"
      <4>1. NodePath("POST", template)
        BY <1>6, <2>1, <2>2 DEF Legible
      <4> QED BY <2>1, <4>1 DEF NodePath
    <3>2. template[3] \notin Slots
      BY <3>1, NodeWordsAreWords, WordsAreWords
    <3> QED BY <1>1, <1>2, <3>1, <3>2 DEF Clash
  <2> QED BY <1>1, <1>2, <2>1, <2>2 DEF Clash
<1>7. ASSUME NEW template, Legible("POST", template), Len(template) = Len(path) - 2
      PROVE  ClashTwo(path, 2, 4, template)
  <2>1. template[1] \notin Slots /\ Len(template) = 3
    BY <1>1, <1>7 DEF Legible
  <2>2. CASE template[1] = "nodes"
    <3>1. template[3] \in NodeWords
      <4>1. NodePath("POST", template)
        BY <1>7, <2>1, <2>2 DEF Legible
      <4> QED BY <2>1, <4>1 DEF NodePath
    <3>2. template[3] \notin Slots
      BY <3>1, NodeWordsAreWords, WordsAreWords
    <3> QED BY <1>1, <1>2, <3>1, <3>2 DEF ClashTwo
  <2> QED BY <1>1, <1>2, <2>1, <2>2 DEF ClashTwo
<1>8. Unread("POST", path, 4) /\ UnreadTwo("POST", path, 2, 4)
  BY <1>6, <1>7, Zenon DEF Unread, UnreadTwo
<1>9. ASSUME NEW sent, Sends(on, must, path, sent), \E i \in DOMAIN sent : sent[i] = NoName
      PROVE  sent \in CephOfServices \/ \A template : Legible("POST", template) => ~ Reads(sent, template)
  <2>1. /\ Len(sent) = 5 /\ DOMAIN sent = 1..5 /\ sent = [i \in 1..5 |-> sent[i]]
        /\ sent[1] = "nodes" /\ sent[3] = "services" /\ sent[5] = c
    BY <1>1, <1>2, <1>9 DEF Sends
  <2>2. Lacks(sent, {2}) \/ Lacks(sent, {4}) \/ Lacks(sent, {2, 4})
    BY <1>1, <1>3, <1>9 DEF Sends, Lacks
  <2>3. Len(path) \in 1..8 /\ 4 \in 2..Len(path) /\ 2 \in 2..Len(path) /\ 2 < 4
    BY <1>1
  <2>4. CASE Lacks(sent, {4}) \/ Lacks(sent, {2, 4})
    BY <1>8, <1>9, <2>3, <2>4, NotReadWithoutOne, NotReadWithoutTwo, Zenon
  <2>5. CASE Lacks(sent, {2}) /\ sent[4] # "ceph"
    BY <1>5, <1>9, <2>5, Zenon
  <2>6. CASE Lacks(sent, {2}) /\ sent[4] = "ceph"
    <3>1. sent[2] = NoName
      BY <2>1, <2>6 DEF Lacks
    <3>2. sent = <<"nodes", NoName, "services", "ceph", c>>
      BY <2>1, <2>6, <3>1
    <3> QED BY <3>2 DEF CephOfServices
  <2> QED BY <2>2, <2>4, <2>5, <2>6
<1>10. Len(path) \in Nat /\ DOMAIN path = 1..Len(path)
  BY <1>1
<1>11. Told(on, op, "POST", must, path)
  BY <1>9, <1>10, Zenon DEF Told
<1> QED BY <1>11 DEF path

\* The methods the property names.
LEMMA NamedMethods ==
  ASSUME NEW on, NEW op, <<on, op>> \in MembersOfASet, NEW verb, NEW must, NEW path, Len(path) \in Nat,
         DOMAIN path = 1..Len(path)
  PROVE  Told(on, op, verb, must, path)
BY Zenon DEF Told

\* Their paths, by their length.
LEMMA NamedMethods4 ==
  ASSUME NEW on, NEW op, <<on, op>> \in MembersOfASet, NEW verb, NEW must, NEW a, NEW b, NEW c, NEW d
  PROVE  Told(on, op, verb, must, <<a, b, c, d>>)
BY NamedMethods
LEMMA NamedMethods5 ==
  ASSUME NEW on, NEW op, <<on, op>> \in MembersOfASet, NEW verb, NEW must, NEW a, NEW b, NEW c, NEW d, NEW e
  PROVE  Told(on, op, verb, must, <<a, b, c, d, e>>)
BY NamedMethods
LEMMA NamedMethods7 ==
  ASSUME NEW on, NEW op, <<on, op>> \in MembersOfASet, NEW verb, NEW must,
         NEW a, NEW b, NEW c, NEW d, NEW e, NEW f, NEW g
  PROVE  Told(on, op, verb, must, <<a, b, c, d, e, f, g>>)
BY NamedMethods
LEMMA NamedMethods8 ==
  ASSUME NEW on, NEW op, <<on, op>> \in MembersOfASet, NEW verb, NEW must,
         NEW a, NEW b, NEW c, NEW d, NEW e, NEW f, NEW g, NEW h
  PROVE  Told(on, op, verb, must, <<a, b, c, d, e, f, g, h>>)
BY NamedMethods

-----------------------------------------------------------------------------
(***************************************************************************)
(* Which paths are legible, by their first element and their length.       *)
(***************************************************************************)

\* A rule that is attached to nothing has no path.
LEMMA NoPath == \A verb : Legible(verb, <<>>)
BY DEF Legible

\* Requests about users, groups, roles and realms.
LEMMA Access2 ==
  ASSUME NEW verb, NEW b,
         b \in Words
  PROVE  Legible(verb, <<"access", b>>)
<1> DEFINE path == <<"access", b>>
<1>1. Len(path) = 2 /\ path[1] = "access" /\ path[2] = b
  OBVIOUS
<1> HIDE DEF path
<1>2. AccessPath(path)
  BY <1>1, WordsAreWords DEF AccessPath
<1>3. path[1] \notin Slots
  BY <1>1, WordsAreWords DEF Words
<1>4. Legible(verb, path)
  BY <1>1, <1>2, <1>3 DEF Legible
<1> QED BY <1>4 DEF path

\* Those of three elements.
LEMMA Access3 ==
  ASSUME NEW verb, NEW b, NEW c,
         b \in Words
  PROVE  Legible(verb, <<"access", b, c>>)
<1> DEFINE path == <<"access", b, c>>
<1>1. Len(path) = 3 /\ path[1] = "access" /\ path[2] = b /\ path[3] = c
  OBVIOUS
<1> HIDE DEF path
<1>2. AccessPath(path)
  BY <1>1, WordsAreWords DEF AccessPath
<1>3. path[1] \notin Slots
  BY <1>1, WordsAreWords DEF Words
<1>4. Legible(verb, path)
  BY <1>1, <1>2, <1>3 DEF Legible
<1> QED BY <1>4 DEF path

\* Those of four.
LEMMA Access4 ==
  ASSUME NEW verb, NEW b, NEW c, NEW d,
         b \in Words,
         b = "users" => d = "unlock-tfa"
  PROVE  Legible(verb, <<"access", b, c, d>>)
<1> DEFINE path == <<"access", b, c, d>>
<1>1. Len(path) = 4 /\ path[1] = "access" /\ path[2] = b /\ path[3] = c /\ path[4] = d
  OBVIOUS
<1> HIDE DEF path
<1>2. AccessPath(path)
  BY <1>1, WordsAreWords DEF AccessPath
<1>3. path[1] \notin Slots
  BY <1>1, WordsAreWords DEF Words
<1>4. Legible(verb, path)
  BY <1>1, <1>2, <1>3 DEF Legible
<1> QED BY <1>4 DEF path

\* Those of five.
LEMMA Access5 ==
  ASSUME NEW verb, NEW b, NEW c, NEW d, NEW e,
         b \in Words
  PROVE  Legible(verb, <<"access", b, c, d, e>>)
<1> DEFINE path == <<"access", b, c, d, e>>
<1>1. Len(path) = 5 /\ path[1] = "access" /\ path[2] = b /\ path[3] = c /\ path[4] = d /\ path[5] = e
  OBVIOUS
<1> HIDE DEF path
<1>2. AccessPath(path)
  BY <1>1, WordsAreWords DEF AccessPath
<1>3. path[1] \notin Slots
  BY <1>1, WordsAreWords DEF Words
<1>4. Legible(verb, path)
  BY <1>1, <1>2, <1>3 DEF Legible
<1> QED BY <1>4 DEF path

\* Requests about the cluster.
LEMMA Cluster2 ==
  ASSUME NEW verb, NEW b,
         b \in Words,
         verb = "POST" \/ b # "replication"
  PROVE  Legible(verb, <<"cluster", b>>)
<1> DEFINE path == <<"cluster", b>>
<1>1. Len(path) = 2 /\ path[1] = "cluster" /\ path[2] = b
  OBVIOUS
<1> HIDE DEF path
<1>2. ClusterPath(verb, path)
  BY <1>1, WordsAreWords DEF ClusterPath
<1>3. path[1] \notin Slots
  BY <1>1, WordsAreWords DEF Words
<1>4. Legible(verb, path)
  BY <1>1, <1>2, <1>3 DEF Legible
<1> QED BY <1>4 DEF path

\* Those of three elements.
LEMMA Cluster3 ==
  ASSUME NEW verb, NEW b, NEW c,
         b \in Words,
         verb # "POST" /\ b \in {"acme", "firewall", "ha", "sdn"} => c \in {"options", "lock"}
  PROVE  Legible(verb, <<"cluster", b, c>>)
<1> DEFINE path == <<"cluster", b, c>>
<1>1. Len(path) = 3 /\ path[1] = "cluster" /\ path[2] = b /\ path[3] = c
  OBVIOUS
<1> HIDE DEF path
<1>2. ClusterPath(verb, path)
  BY <1>1, WordsAreWords DEF ClusterPath
<1>3. path[1] \notin Slots
  BY <1>1, WordsAreWords DEF Words
<1>4. Legible(verb, path)
  BY <1>1, <1>2, <1>3 DEF Legible
<1> QED BY <1>4 DEF path

\* Those of four.
LEMMA Cluster4 ==
  ASSUME NEW verb, NEW b, NEW c, NEW d,
         b \in Words,
         b # "replication",
         verb = "PUT" /\ b = "firewall" => c \in {"aliases", "rules"},
         verb = "POST" /\ b = "ha" => c = "status"
  PROVE  Legible(verb, <<"cluster", b, c, d>>)
<1> DEFINE path == <<"cluster", b, c, d>>
<1>1. Len(path) = 4 /\ path[1] = "cluster" /\ path[2] = b /\ path[3] = c /\ path[4] = d
  OBVIOUS
<1> HIDE DEF path
<1>2. ClusterPath(verb, path)
  BY <1>1, WordsAreWords DEF ClusterPath
<1>3. path[1] \notin Slots
  BY <1>1, WordsAreWords DEF Words
<1>4. Legible(verb, path)
  BY <1>1, <1>2, <1>3 DEF Legible
<1> QED BY <1>4 DEF path

\* Those of five.
LEMMA Cluster5 ==
  ASSUME NEW verb, NEW b, NEW c, NEW d, NEW e,
         b \in Words,
         b # "replication"
  PROVE  Legible(verb, <<"cluster", b, c, d, e>>)
<1> DEFINE path == <<"cluster", b, c, d, e>>
<1>1. Len(path) = 5 /\ path[1] = "cluster" /\ path[2] = b /\ path[3] = c /\ path[4] = d /\ path[5] = e
  OBVIOUS
<1> HIDE DEF path
<1>2. ClusterPath(verb, path)
  BY <1>1, WordsAreWords DEF ClusterPath
<1>3. path[1] \notin Slots
  BY <1>1, WordsAreWords DEF Words
<1>4. Legible(verb, path)
  BY <1>1, <1>2, <1>3 DEF Legible
<1> QED BY <1>4 DEF path

\* Those of six.
LEMMA Cluster6 ==
  ASSUME NEW verb, NEW b, NEW c, NEW d, NEW e, NEW f,
         b \in Words,
         b # "replication"
  PROVE  Legible(verb, <<"cluster", b, c, d, e, f>>)
<1> DEFINE path == <<"cluster", b, c, d, e, f>>
<1>1. /\ Len(path) = 6 /\ path[1] = "cluster" /\ path[2] = b /\ path[3] = c /\ path[4] = d
      /\ path[5] = e /\ path[6] = f
  OBVIOUS
<1> HIDE DEF path
<1>2. ClusterPath(verb, path)
  BY <1>1, WordsAreWords DEF ClusterPath
<1>3. path[1] \notin Slots
  BY <1>1, WordsAreWords DEF Words
<1>4. Legible(verb, path)
  BY <1>1, <1>2, <1>3 DEF Legible
<1> QED BY <1>4 DEF path

\* Those of seven.
LEMMA Cluster7 ==
  ASSUME NEW verb, NEW b, NEW c, NEW d, NEW e, NEW f, NEW g,
         b \in Words,
         b # "replication"
  PROVE  Legible(verb, <<"cluster", b, c, d, e, f, g>>)
<1> DEFINE path == <<"cluster", b, c, d, e, f, g>>
<1>1. /\ Len(path) = 7 /\ path[1] = "cluster" /\ path[2] = b /\ path[3] = c /\ path[4] = d
      /\ path[5] = e /\ path[6] = f /\ path[7] = g
  OBVIOUS
<1> HIDE DEF path
<1>2. ClusterPath(verb, path)
  BY <1>1, WordsAreWords DEF ClusterPath
<1>3. path[1] \notin Slots
  BY <1>1, WordsAreWords DEF Words
<1>4. Legible(verb, path)
  BY <1>1, <1>2, <1>3 DEF Legible
<1> QED BY <1>4 DEF path

\* Requests about pools.
LEMMA Pools1 ==
  ASSUME NEW verb
  PROVE  Legible(verb, <<"pools">>)
<1> DEFINE path == <<"pools">>
<1>1. Len(path) = 1 /\ path[1] = "pools"
  OBVIOUS
<1> HIDE DEF path
<1>2. path[1] \notin Slots
  BY <1>1, WordsAreWords DEF Words
<1>3. Legible(verb, path)
  BY <1>1, <1>2 DEF Legible
<1> QED BY <1>3 DEF path

\* Those of two elements.
LEMMA Pools2 ==
  ASSUME NEW verb, NEW b
  PROVE  Legible(verb, <<"pools", b>>)
<1> DEFINE path == <<"pools", b>>
<1>1. Len(path) = 2 /\ path[1] = "pools" /\ path[2] = b
  OBVIOUS
<1> HIDE DEF path
<1>2. path[1] \notin Slots
  BY <1>1, WordsAreWords DEF Words
<1>3. Legible(verb, path)
  BY <1>1, <1>2 DEF Legible
<1> QED BY <1>3 DEF path

\* Requests about the storages of the cluster.
LEMMA Storage1 ==
  ASSUME NEW verb,
         verb = "POST"
  PROVE  Legible(verb, <<"storage">>)
<1> DEFINE path == <<"storage">>
<1>1. Len(path) = 1 /\ path[1] = "storage"
  OBVIOUS
<1> HIDE DEF path
<1>2. path[1] \notin Slots
  BY <1>1, WordsAreWords DEF Words
<1>3. Legible(verb, path)
  BY <1>1, <1>2 DEF Legible
<1> QED BY <1>3 DEF path

\* Those of two elements.
LEMMA Storage2 ==
  ASSUME NEW verb, NEW b
  PROVE  Legible(verb, <<"storage", b>>)
<1> DEFINE path == <<"storage", b>>
<1>1. Len(path) = 2 /\ path[1] = "storage" /\ path[2] = b
  OBVIOUS
<1> HIDE DEF path
<1>2. path[1] \notin Slots
  BY <1>1, WordsAreWords DEF Words
<1>3. Legible(verb, path)
  BY <1>1, <1>2 DEF Legible
<1> QED BY <1>3 DEF path

\* Requests about a node, its guests and its storages.
LEMMA Node3 ==
  ASSUME NEW verb, NEW b, NEW c,
         b \in Slots,
         c \in NodeWords,
         c \notin {"services", "replication", "storage"}
  PROVE  Legible(verb, <<"nodes", b, c>>)
<1> DEFINE path == <<"nodes", b, c>>
<1>1. Len(path) = 3 /\ path[1] = "nodes" /\ path[2] = b /\ path[3] = c
  OBVIOUS
<1> HIDE DEF path
<1>2. NodePath(verb, path)
  BY <1>1 DEF NodePath
<1>3. GuestPath(verb, path)
  BY <1>1, WordsAreWords DEF GuestPath
<1>4. path[1] \notin Slots
  BY <1>1, WordsAreWords DEF Words
<1>5. Legible(verb, path)
  BY <1>1, <1>2, <1>3, <1>4 DEF Legible
<1> QED BY <1>5 DEF path

\* Those of four elements.
LEMMA Node4 ==
  ASSUME NEW verb, NEW b, NEW c, NEW d,
         b \in Slots,
         c \in NodeWords,
         c \notin {"services", "replication", "storage"},
         verb = "POST" => d \in NodePosts /\ (d \in {"start", "stop", "restart"} => c = "ceph")
  PROVE  Legible(verb, <<"nodes", b, c, d>>)
<1> DEFINE path == <<"nodes", b, c, d>>
<1>1. Len(path) = 4 /\ path[1] = "nodes" /\ path[2] = b /\ path[3] = c /\ path[4] = d
  OBVIOUS
<1> HIDE DEF path
<1>2. NodePath(verb, path)
  BY <1>1 DEF NodePath
<1>3. GuestPath(verb, path)
  BY <1>1, WordsAreWords DEF GuestPath
<1>4. path[1] \notin Slots
  BY <1>1, WordsAreWords DEF Words
<1>5. Legible(verb, path)
  BY <1>1, <1>2, <1>3, <1>4 DEF Legible
<1> QED BY <1>5 DEF path

\* Those of five.
LEMMA Node5 ==
  ASSUME NEW verb, NEW b, NEW c, NEW d, NEW e,
         b \in Slots,
         c \in NodeWords,
         verb = "DELETE" /\ c = "storage" => e = "prunebackups",
         c \in {"qemu", "lxc"} => e \in Words,
         c \in {"qemu", "lxc"} /\ e = "snapshot" => verb = "POST"
  PROVE  Legible(verb, <<"nodes", b, c, d, e>>)
<1> DEFINE path == <<"nodes", b, c, d, e>>
<1>1. Len(path) = 5 /\ path[1] = "nodes" /\ path[2] = b /\ path[3] = c /\ path[4] = d /\ path[5] = e
  OBVIOUS
<1> HIDE DEF path
<1>2. NodePath(verb, path)
  BY <1>1 DEF NodePath
<1>3. GuestPath(verb, path)
  BY <1>1, WordsAreWords DEF GuestPath
<1>4. path[1] \notin Slots
  BY <1>1, WordsAreWords DEF Words
<1>5. Legible(verb, path)
  BY <1>1, <1>2, <1>3, <1>4 DEF Legible
<1> QED BY <1>5 DEF path

\* Those of six.
LEMMA Node6 ==
  ASSUME NEW verb, NEW b, NEW c, NEW d, NEW e, NEW f,
         b \in Slots,
         c \in NodeWords,
         c \notin {"services", "replication"},
         c \in {"qemu", "lxc"} => e \in Words,
         c \in {"qemu", "lxc"} /\ e = "snapshot" => verb = "DELETE",
         verb # "POST" /\ c \in {"qemu", "lxc"} /\ e = "firewall" => f = "options"
  PROVE  Legible(verb, <<"nodes", b, c, d, e, f>>)
<1> DEFINE path == <<"nodes", b, c, d, e, f>>
<1>1. /\ Len(path) = 6 /\ path[1] = "nodes" /\ path[2] = b /\ path[3] = c /\ path[4] = d
      /\ path[5] = e /\ path[6] = f
  OBVIOUS
<1> HIDE DEF path
<1>2. NodePath(verb, path)
  BY <1>1 DEF NodePath
<1>3. GuestPath(verb, path)
  BY <1>1, WordsAreWords DEF GuestPath
<1>4. path[1] \notin Slots
  BY <1>1, WordsAreWords DEF Words
<1>5. Legible(verb, path)
  BY <1>1, <1>2, <1>3, <1>4 DEF Legible
<1> QED BY <1>5 DEF path

\* Those of seven.
LEMMA Node7 ==
  ASSUME NEW verb, NEW b, NEW c, NEW d, NEW e, NEW f, NEW g,
         b \in Slots,
         c \in NodeWords,
         c \notin {"services", "replication"},
         c \in {"qemu", "lxc"} => e \in Words,
         verb = "PUT" /\ c \in {"qemu", "lxc"} /\ e = "firewall" => f \in {"aliases", "rules"}
  PROVE  Legible(verb, <<"nodes", b, c, d, e, f, g>>)
<1> DEFINE path == <<"nodes", b, c, d, e, f, g>>
<1>1. /\ Len(path) = 7 /\ path[1] = "nodes" /\ path[2] = b /\ path[3] = c /\ path[4] = d
      /\ path[5] = e /\ path[6] = f /\ path[7] = g
  OBVIOUS
<1> HIDE DEF path
<1>2. NodePath(verb, path)
  BY <1>1 DEF NodePath
<1>3. GuestPath(verb, path)
  BY <1>1, WordsAreWords DEF GuestPath
<1>4. path[1] \notin Slots
  BY <1>1, WordsAreWords DEF Words
<1>5. Legible(verb, path)
  BY <1>1, <1>2, <1>3, <1>4 DEF Legible
<1> QED BY <1>5 DEF path

\* Those of eight.
LEMMA Node8 ==
  ASSUME NEW verb, NEW b, NEW c, NEW d, NEW e, NEW f, NEW g, NEW h,
         b \in Slots,
         c \in NodeWords,
         c \notin {"services", "replication"},
         c \in {"qemu", "lxc"} => e \in Words
  PROVE  Legible(verb, <<"nodes", b, c, d, e, f, g, h>>)
<1> DEFINE path == <<"nodes", b, c, d, e, f, g, h>>
<1>1. /\ Len(path) = 8 /\ path[1] = "nodes" /\ path[2] = b /\ path[3] = c /\ path[4] = d
      /\ path[5] = e /\ path[6] = f /\ path[7] = g /\ path[8] = h
  OBVIOUS
<1> HIDE DEF path
<1>2. NodePath(verb, path)
  BY <1>1 DEF NodePath
<1>3. GuestPath(verb, path)
  BY <1>1, WordsAreWords DEF GuestPath
<1>4. path[1] \notin Slots
  BY <1>1, WordsAreWords DEF Words
<1>5. Legible(verb, path)
  BY <1>1, <1>2, <1>3, <1>4 DEF Legible
<1> QED BY <1>5 DEF path

-----------------------------------------------------------------------------
(***************************************************************************)
(* The rows, table by table.                                               *)
(***************************************************************************)

\* The names a method insists on, and the numbers among its arguments.
LEMMA NamesAreShut ==
  ASSUME NEW on, NEW must
  PROVE  /\ \A s \in must : s \notin {".client", ".vmid", ".pos", ".seq", ".order", ".osdid"} => Shut(on, must, s)
         /\ \A s \in {"<vmid>", "<pos>", "<rulepos>", "<seq>", "<order>", "<osdid>"} : Shut(on, must, s)
<1>1. \A s \in {"<vmid>", "<pos>", "<rulepos>", "<seq>", "<order>", "<osdid>"} : s \in Numbers \cap Arguments
  BY DEF Numbers, Arguments
<1>2. \A s \in Numbers : s \in {".vmid", ".pos", ".seq", ".order", ".osdid"} \/ s \in Arguments
  BY DEF Numbers, Arguments
<1> QED BY <1>1, <1>2 DEF Shut

\* An element of the path where a kind of object lives.
LEMMA KeyOf ==
  ASSUME NEW kind \in Kinds, NEW i \in DOMAIN Home[kind], Home[kind][i] \in Fields
  PROVE  Home[kind][i] \in Keys[kind]
BY DEF Keys

\* A field of its kind that a handle does not lack.
LEMMA FieldShut ==
  ASSUME NEW kind \in Kinds, NEW s, s \in Keys[kind], <<kind, s>> \notin MayLack, NEW must
  PROVE  Shut(kind, must, s)
BY DEF Shut

\* Fields that their handles do not lack.
LEMMA FieldsAreShut ==
  ASSUME NEW must
  PROVE  /\ Shut("Backup", must, ".node") /\ Shut("Backup", must, ".storage") /\ Shut("Backup", must, ".volid")
         /\ Shut("CephOSD", must, ".osdid")
         /\ Shut("ClusterBackup", must, ".id")
         /\ Shut("ClusterStorage", must, ".storage")
         /\ Shut("Container", must, ".node") /\ Shut("Container", must, ".vmid")
         /\ Shut("ContainerRule", must, ".node") /\ Shut("ContainerRule", must, ".vmid")
         /\ Shut("ContainerRule", must, ".pos")
         /\ Shut("ContainerSnapshot", must, ".node") /\ Shut("ContainerSnapshot", must, ".vmid")
         /\ Shut("Domain", must, ".realm")
         /\ Shut("FirewallSecurityGroup", must, ".group")
         /\ Shut("Group", must, ".groupid")
         /\ Shut("GuestRule", must, ".node") /\ Shut("GuestRule", must, ".vmid")
         /\ Shut("GuestRule", must, ".pos")
         /\ Shut("ISO", must, ".node") /\ Shut("ISO", must, ".storage") /\ Shut("ISO", must, ".volid")
         /\ Shut("Import", must, ".node") /\ Shut("Import", must, ".storage")
         /\ Shut("Import", must, ".volid")
         /\ Shut("NodeNetwork", must, ".iface") /\ Shut("NodeNetwork", must, ".node")
         /\ Shut("NodeRule", must, ".pos")
         /\ Shut("Pool", must, ".poolid")
         /\ Shut("Role", must, ".roleid")
         /\ Shut("SDNPrefixListEntry", must, ".seq")
         /\ Shut("SDNRouteMapEntry", must, ".order")
         /\ Shut("Storage", must, ".node") /\ Shut("Storage", must, ".storage")
         /\ Shut("Task", must, ".node") /\ Shut("Task", must, ".upid")
         /\ Shut("User", must, ".userid")
         /\ Shut("VNet", must, ".name")
         /\ Shut("VNetSubnet", must, ".vnet")
         /\ Shut("VirtualMachine", must, ".node") /\ Shut("VirtualMachine", must, ".vmid")
         /\ Shut("VirtualMachineSnapshot", must, ".node") /\ Shut("VirtualMachineSnapshot", must, ".vmid")
         /\ Shut("VzTmpl", must, ".node") /\ Shut("VzTmpl", must, ".storage")
         /\ Shut("VzTmpl", must, ".volid")
<1>1. Shut("Backup", must, ".node") /\ Shut("Backup", must, ".storage") /\ Shut("Backup", must, ".volid")
  <2>1. ".node" \in Keys["Backup"] /\ ".storage" \in Keys["Backup"] /\ ".volid" \in Keys["Backup"]
    BY AtBackup, KindsAre, KeyOf
  <2>2. /\ <<"Backup", ".node">> \notin MayLack /\ <<"Backup", ".storage">> \notin MayLack
        /\ <<"Backup", ".volid">> \notin MayLack
    BY DEF MayLack
  <2> QED BY <2>1, <2>2, KindsAre, FieldShut
<1>2. Shut("CephOSD", must, ".osdid")
  <2>1. ".osdid" \in Keys["CephOSD"]
    BY AtCephOSD, KindsAre, KeyOf
  <2>2. <<"CephOSD", ".osdid">> \notin MayLack
    BY DEF MayLack
  <2> QED BY <2>1, <2>2, KindsAre, FieldShut
<1>3. Shut("ClusterBackup", must, ".id")
  <2>1. ".id" \in Keys["ClusterBackup"]
    BY AtClusterBackup, KindsAre, KeyOf
  <2>2. <<"ClusterBackup", ".id">> \notin MayLack
    BY DEF MayLack
  <2> QED BY <2>1, <2>2, KindsAre, FieldShut
<1>4. Shut("ClusterStorage", must, ".storage")
  <2>1. ".storage" \in Keys["ClusterStorage"]
    BY AtClusterStorage, KindsAre, KeyOf
  <2>2. <<"ClusterStorage", ".storage">> \notin MayLack
    BY DEF MayLack
  <2> QED BY <2>1, <2>2, KindsAre, FieldShut
<1>5. Shut("Container", must, ".node") /\ Shut("Container", must, ".vmid")
  <2>1. ".node" \in Keys["Container"] /\ ".vmid" \in Keys["Container"]
    BY AtContainer, KindsAre, KeyOf
  <2>2. <<"Container", ".node">> \notin MayLack /\ <<"Container", ".vmid">> \notin MayLack
    BY DEF MayLack
  <2> QED BY <2>1, <2>2, KindsAre, FieldShut
<1>6. /\ Shut("ContainerRule", must, ".node") /\ Shut("ContainerRule", must, ".vmid")
      /\ Shut("ContainerRule", must, ".pos")
  <2>1. ".node" \in Keys["ContainerRule"] /\ ".vmid" \in Keys["ContainerRule"] /\ ".pos" \in Keys["ContainerRule"]
    BY AtContainerRule, KindsAre, KeyOf
  <2>2. /\ <<"ContainerRule", ".node">> \notin MayLack
        /\ <<"ContainerRule", ".vmid">> \notin MayLack /\ <<"ContainerRule", ".pos">> \notin MayLack
    BY DEF MayLack
  <2> QED BY <2>1, <2>2, KindsAre, FieldShut
<1>7. Shut("ContainerSnapshot", must, ".node") /\ Shut("ContainerSnapshot", must, ".vmid")
  <2>1. ".node" \in Keys["ContainerSnapshot"] /\ ".vmid" \in Keys["ContainerSnapshot"]
    BY AtContainerSnapshot, KindsAre, KeyOf
  <2>2. <<"ContainerSnapshot", ".node">> \notin MayLack /\ <<"ContainerSnapshot", ".vmid">> \notin MayLack
    BY DEF MayLack
  <2> QED BY <2>1, <2>2, KindsAre, FieldShut
<1>8. Shut("Domain", must, ".realm")
  <2>1. ".realm" \in Keys["Domain"]
    BY AtDomain, KindsAre, KeyOf
  <2>2. <<"Domain", ".realm">> \notin MayLack
    BY DEF MayLack
  <2> QED BY <2>1, <2>2, KindsAre, FieldShut
<1>9. Shut("FirewallSecurityGroup", must, ".group")
  <2>1. ".group" \in Keys["FirewallSecurityGroup"]
    BY AtFirewallSecurityGroup, KindsAre, KeyOf
  <2>2. <<"FirewallSecurityGroup", ".group">> \notin MayLack
    BY DEF MayLack
  <2> QED BY <2>1, <2>2, KindsAre, FieldShut
<1>10. Shut("Group", must, ".groupid")
  <2>1. ".groupid" \in Keys["Group"]
    BY AtGroup, KindsAre, KeyOf
  <2>2. <<"Group", ".groupid">> \notin MayLack
    BY DEF MayLack
  <2> QED BY <2>1, <2>2, KindsAre, FieldShut
<1>11. Shut("GuestRule", must, ".node") /\ Shut("GuestRule", must, ".vmid") /\ Shut("GuestRule", must, ".pos")
  <2>1. ".node" \in Keys["GuestRule"] /\ ".vmid" \in Keys["GuestRule"] /\ ".pos" \in Keys["GuestRule"]
    BY AtGuestRule, KindsAre, KeyOf
  <2>2. /\ <<"GuestRule", ".node">> \notin MayLack /\ <<"GuestRule", ".vmid">> \notin MayLack
        /\ <<"GuestRule", ".pos">> \notin MayLack
    BY DEF MayLack
  <2> QED BY <2>1, <2>2, KindsAre, FieldShut
<1>12. Shut("ISO", must, ".node") /\ Shut("ISO", must, ".storage") /\ Shut("ISO", must, ".volid")
  <2>1. ".node" \in Keys["ISO"] /\ ".storage" \in Keys["ISO"] /\ ".volid" \in Keys["ISO"]
    BY AtISO, KindsAre, KeyOf
  <2>2. /\ <<"ISO", ".node">> \notin MayLack /\ <<"ISO", ".storage">> \notin MayLack
        /\ <<"ISO", ".volid">> \notin MayLack
    BY DEF MayLack
  <2> QED BY <2>1, <2>2, KindsAre, FieldShut
<1>13. Shut("Import", must, ".node") /\ Shut("Import", must, ".storage") /\ Shut("Import", must, ".volid")
  <2>1. ".node" \in Keys["Import"] /\ ".storage" \in Keys["Import"] /\ ".volid" \in Keys["Import"]
    BY AtImport, KindsAre, KeyOf
  <2>2. /\ <<"Import", ".node">> \notin MayLack /\ <<"Import", ".storage">> \notin MayLack
        /\ <<"Import", ".volid">> \notin MayLack
    BY DEF MayLack
  <2> QED BY <2>1, <2>2, KindsAre, FieldShut
<1>14. Shut("NodeNetwork", must, ".iface") /\ Shut("NodeNetwork", must, ".node")
  <2>1. ".iface" \in Keys["NodeNetwork"] /\ ".node" \in Keys["NodeNetwork"]
    BY AtNodeNetwork, KindsAre, KeyOf
  <2>2. <<"NodeNetwork", ".iface">> \notin MayLack /\ <<"NodeNetwork", ".node">> \notin MayLack
    BY DEF MayLack
  <2> QED BY <2>1, <2>2, KindsAre, FieldShut
<1>15. Shut("NodeRule", must, ".pos")
  <2>1. ".pos" \in Keys["NodeRule"]
    BY AtNodeRule, KindsAre, KeyOf
  <2>2. <<"NodeRule", ".pos">> \notin MayLack
    BY DEF MayLack
  <2> QED BY <2>1, <2>2, KindsAre, FieldShut
<1>16. Shut("Pool", must, ".poolid")
  <2>1. ".poolid" \in Keys["Pool"]
    BY AtPool, KindsAre, KeyOf
  <2>2. <<"Pool", ".poolid">> \notin MayLack
    BY DEF MayLack
  <2> QED BY <2>1, <2>2, KindsAre, FieldShut
<1>17. Shut("Role", must, ".roleid")
  <2>1. ".roleid" \in Keys["Role"]
    BY AtRole, KindsAre, KeyOf
  <2>2. <<"Role", ".roleid">> \notin MayLack
    BY DEF MayLack
  <2> QED BY <2>1, <2>2, KindsAre, FieldShut
<1>18. Shut("SDNPrefixListEntry", must, ".seq")
  <2>1. ".seq" \in Keys["SDNPrefixListEntry"]
    BY AtSDNPrefixListEntry, KindsAre, KeyOf
  <2>2. <<"SDNPrefixListEntry", ".seq">> \notin MayLack
    BY DEF MayLack
  <2> QED BY <2>1, <2>2, KindsAre, FieldShut
<1>19. Shut("SDNRouteMapEntry", must, ".order")
  <2>1. ".order" \in Keys["SDNRouteMapEntry"]
    BY AtSDNRouteMapEntry, KindsAre, KeyOf
  <2>2. <<"SDNRouteMapEntry", ".order">> \notin MayLack
    BY DEF MayLack
  <2> QED BY <2>1, <2>2, KindsAre, FieldShut
<1>20. Shut("Storage", must, ".node") /\ Shut("Storage", must, ".storage")
  <2>1. ".node" \in Keys["Storage"] /\ ".storage" \in Keys["Storage"]
    BY AtStorage, KindsAre, KeyOf
  <2>2. <<"Storage", ".node">> \notin MayLack /\ <<"Storage", ".storage">> \notin MayLack
    BY DEF MayLack
  <2> QED BY <2>1, <2>2, KindsAre, FieldShut
<1>21. Shut("Task", must, ".node") /\ Shut("Task", must, ".upid")
  <2>1. ".node" \in Keys["Task"] /\ ".upid" \in Keys["Task"]
    BY AtTask, KindsAre, KeyOf
  <2>2. <<"Task", ".node">> \notin MayLack /\ <<"Task", ".upid">> \notin MayLack
    BY DEF MayLack
  <2> QED BY <2>1, <2>2, KindsAre, FieldShut
<1>22. Shut("User", must, ".userid")
  <2>1. ".userid" \in Keys["User"]
    BY AtUser, KindsAre, KeyOf
  <2>2. <<"User", ".userid">> \notin MayLack
    BY DEF MayLack
  <2> QED BY <2>1, <2>2, KindsAre, FieldShut
<1>23. Shut("VNet", must, ".name")
  <2>1. ".name" \in Keys["VNet"]
    BY AtVNet, KindsAre, KeyOf
  <2>2. <<"VNet", ".name">> \notin MayLack
    BY DEF MayLack
  <2> QED BY <2>1, <2>2, KindsAre, FieldShut
<1>24. Shut("VNetSubnet", must, ".vnet")
  <2>1. ".vnet" \in Keys["VNetSubnet"]
    BY AtVNetSubnet, KindsAre, KeyOf
  <2>2. <<"VNetSubnet", ".vnet">> \notin MayLack
    BY DEF MayLack
  <2> QED BY <2>1, <2>2, KindsAre, FieldShut
<1>25. Shut("VirtualMachine", must, ".node") /\ Shut("VirtualMachine", must, ".vmid")
  <2>1. ".node" \in Keys["VirtualMachine"] /\ ".vmid" \in Keys["VirtualMachine"]
    BY AtVirtualMachine, KindsAre, KeyOf
  <2>2. <<"VirtualMachine", ".node">> \notin MayLack /\ <<"VirtualMachine", ".vmid">> \notin MayLack
    BY DEF MayLack
  <2> QED BY <2>1, <2>2, KindsAre, FieldShut
<1>26. Shut("VirtualMachineSnapshot", must, ".node") /\ Shut("VirtualMachineSnapshot", must, ".vmid")
  <2>1. ".node" \in Keys["VirtualMachineSnapshot"] /\ ".vmid" \in Keys["VirtualMachineSnapshot"]
    BY AtVirtualMachineSnapshot, KindsAre, KeyOf
  <2>2. /\ <<"VirtualMachineSnapshot", ".node">> \notin MayLack
        /\ <<"VirtualMachineSnapshot", ".vmid">> \notin MayLack
    BY DEF MayLack
  <2> QED BY <2>1, <2>2, KindsAre, FieldShut
<1>27. Shut("VzTmpl", must, ".node") /\ Shut("VzTmpl", must, ".storage") /\ Shut("VzTmpl", must, ".volid")
  <2>1. ".node" \in Keys["VzTmpl"] /\ ".storage" \in Keys["VzTmpl"] /\ ".volid" \in Keys["VzTmpl"]
    BY AtVzTmpl, KindsAre, KeyOf
  <2>2. /\ <<"VzTmpl", ".node">> \notin MayLack /\ <<"VzTmpl", ".storage">> \notin MayLack
        /\ <<"VzTmpl", ".volid">> \notin MayLack
    BY DEF MayLack
  <2> QED BY <2>1, <2>2, KindsAre, FieldShut
<1> QED BY <1>1, <1>2, <1>3, <1>4, <1>5, <1>6, <1>7, <1>8, <1>9, <1>10, <1>11, <1>12, <1>13, <1>14,
           <1>15, <1>16, <1>17, <1>18, <1>19, <1>20, <1>21, <1>22, <1>23, <1>24, <1>25, <1>26, <1>27

\* What has to be shown of a row that sends a request, whatever else it says.
LEMMA CallTold ==
  ASSUME NEW on, NEW op, NEW verb, verb # "-", NEW path, NEW must, NEW gives,
         verb \in Verbs => Legible(verb, path) /\ Told(on, op, verb, must, path)
  PROVE  /\ RowTold(Call(on, op, verb, path, must, gives))
         /\ RowTold(Tolerant(Call(on, op, verb, path, must, gives)))
         /\ RowTold(Silently(Call(on, op, verb, path, must, gives)))
<1>1. PICK call : call = Call(on, op, verb, path, must, gives)
  OBVIOUS
<1>2. call.on = on /\ call.op = op /\ call.verb = verb /\ call.path = path /\ call.must = must
  BY <1>1 DEF Call
<1>3. RowTold(call)
  BY <1>2 DEF RowTold
<1>4. ASSUME NEW row, row = [call EXCEPT !.tolerant = TRUE] \/ row = [call EXCEPT !.silent = TRUE]
      PROVE  RowTold(row)
  <2>1. row.on = on /\ row.op = op /\ row.verb = verb /\ row.path = path /\ row.must = must
    BY <1>1, <1>2, <1>4 DEF Call
  <2> QED BY <2>1 DEF RowTold
<1> QED BY <1>1, <1>3, <1>4 DEF Tolerant, Silently

\* A row that changes nothing.
LEMMA OtherCalls ==
  ASSUME NEW on, NEW op, NEW verb, verb \notin Verbs, verb # "-", NEW path, NEW must, NEW gives
  PROVE  /\ RowTold(Call(on, op, verb, path, must, gives))
         /\ RowTold(Tolerant(Call(on, op, verb, path, must, gives)))
         /\ RowTold(Silently(Call(on, op, verb, path, must, gives)))
BY CallTold

\* A row that makes a handle without a request.
LEMMA LazyTold ==
  ASSUME NEW on, NEW op, NEW path, NEW must, NEW gives, FillsIn(on, must, gives)
  PROVE  RowTold(Lazy(on, op, path, must, gives))
<1>1. PICK row : row = Lazy(on, op, path, must, gives)
  OBVIOUS
<1>2. row.on = on /\ row.verb = "-" /\ row.must = must /\ row.gives = gives
  BY <1>1 DEF Lazy, Call
<1> QED BY <1>1, <1>2 DEF RowTold, Verbs

\* One that makes data of it.
LEMMA LazyData ==
  ASSUME NEW on, NEW op, NEW path, NEW must
  PROVE  RowTold(Lazy(on, op, path, must, Data))
<1>1. FillsIn(on, must, Data)
  BY DEF FillsIn, Data, Reply
<1> QED BY <1>1, LazyTold

\* What has to be shown of the fields it fills in.
LEMMA FillsWith ==
  ASSUME NEW on, NEW must, NEW kind, NEW keys, NEW wired, NEW null,
         \A k \in DOMAIN keys : <<kind, k>> \in MayLack \/ Shut(on, must, keys[k])
  PROVE  FillsIn(on, must, One(kind, keys, wired, null))
BY DEF FillsIn, One, Reply

\* By how many fields it fills in: none,
LEMMA LazyNone ==
  ASSUME NEW on, NEW op, NEW path, NEW must, NEW kind, NEW wired, NEW null
  PROVE  RowTold(Lazy(on, op, path, must, One(kind, FromReply, wired, null)))
BY NothingFilledIn, FillsWith, LazyTold

\* one,
LEMMA LazyOne ==
  ASSUME NEW on, NEW op, NEW path, NEW must, NEW kind, NEW wired, NEW null,
         NEW k, NEW s, <<kind, k>> \in MayLack \/ Shut(on, must, s)
  PROVE  RowTold(Lazy(on, op, path, must, One(kind, k :> s, wired, null)))
<1> DEFINE keys == k :> s
<1>1. \A key \in DOMAIN keys : <<kind, key>> \in MayLack \/ Shut(on, must, keys[key])
  BY DEF :>
<1> HIDE DEF keys
<1>2. FillsIn(on, must, One(kind, keys, wired, null))
  BY <1>1, FillsWith
<1> QED BY <1>2, LazyTold DEF keys

\* two,
LEMMA LazyTwo ==
  ASSUME NEW on, NEW op, NEW path, NEW must, NEW kind, NEW wired, NEW null,
         NEW k, NEW s, <<kind, k>> \in MayLack \/ Shut(on, must, s),
         NEW l, NEW t, <<kind, l>> \in MayLack \/ Shut(on, must, t)
  PROVE  RowTold(Lazy(on, op, path, must, One(kind, k :> s @@ l :> t, wired, null)))
<1> DEFINE keys == k :> s @@ l :> t
<1>1. \A key \in DOMAIN keys : <<kind, key>> \in MayLack \/ Shut(on, must, keys[key])
  BY DEF :>, @@
<1> HIDE DEF keys
<1>2. FillsIn(on, must, One(kind, keys, wired, null))
  BY <1>1, FillsWith
<1> QED BY <1>2, LazyTold DEF keys

\* or three.
LEMMA LazyThree ==
  ASSUME NEW on, NEW op, NEW path, NEW must, NEW kind, NEW wired, NEW null,
         NEW k, NEW s, <<kind, k>> \in MayLack \/ Shut(on, must, s),
         NEW l, NEW t, <<kind, l>> \in MayLack \/ Shut(on, must, t),
         NEW m, NEW u, <<kind, m>> \in MayLack \/ Shut(on, must, u)
  PROVE  RowTold(Lazy(on, op, path, must, One(kind, k :> s @@ l :> t @@ m :> u, wired, null)))
<1> DEFINE keys == k :> s @@ l :> t @@ m :> u
<1>1. \A key \in DOMAIN keys : <<kind, key>> \in MayLack \/ Shut(on, must, keys[key])
  BY DEF :>, @@
<1> HIDE DEF keys
<1>2. FillsIn(on, must, One(kind, keys, wired, null))
  BY <1>1, FillsWith
<1> QED BY <1>2, LazyTold DEF keys

\* The names that these methods take as they come.
LEMMA MayBeLacked ==
  /\ <<"CephFS", ".name">> \in MayLack /\ <<"CephFS", ".node">> \in MayLack
  /\ <<"CephMDS", ".name">> \in MayLack /\ <<"CephMDS", ".node">> \in MayLack
  /\ <<"CephMgr", ".name">> \in MayLack /\ <<"CephMgr", ".node">> \in MayLack
  /\ <<"CephMon", ".name">> \in MayLack /\ <<"CephMon", ".node">> \in MayLack
  /\ <<"CephOSD", ".node">> \in MayLack /\ <<"CephPool", ".node">> \in MayLack
  /\ <<"CephPool", ".poolname">> \in MayLack /\ <<"ContainerSnapshot", ".name">> \in MayLack
  /\ <<"CustomCPUModel", ".cputype">> \in MayLack /\ <<"Node", ".node">> \in MayLack
  /\ <<"NodeReplicationJob", ".id">> \in MayLack /\ <<"NodeReplicationJob", ".node">> \in MayLack
  /\ <<"NodeRule", ".node">> \in MayLack /\ <<"NodeService", ".name">> \in MayLack
  /\ <<"NodeService", ".node">> \in MayLack /\ <<"PCIDevice", ".id">> \in MayLack
  /\ <<"PCIDevice", ".node">> \in MayLack /\ <<"SDNController", ".controller">> \in MayLack
  /\ <<"SDNDNS", ".dns">> \in MayLack /\ <<"SDNFabric", ".id">> \in MayLack
  /\ <<"SDNFabricNode", ".fabricid">> \in MayLack /\ <<"SDNFabricNode", ".nodeid">> \in MayLack
  /\ <<"SDNIPAM", ".ipam">> \in MayLack /\ <<"SDNPrefixList", ".id">> \in MayLack
  /\ <<"SDNPrefixListEntry", ".id">> \in MayLack /\ <<"SDNRouteMapEntry", ".routemapid">> \in MayLack
  /\ <<"VNetSubnet", ".id">> \in MayLack /\ <<"VirtualMachineSnapshot", ".name">> \in MayLack
BY DEF MayLack

LEMMA AccessRealmsAndGroupsTold == \A row \in AccessRealmsAndGroups : RowTold(row)
<1>1. /\ "access" \in Words /\ "acl" \in Words /\ "password" \in Words /\ "domains" \in Words
      /\ "sync" \in Words /\ "groups" \in Words
  BY DEF Words
<1> QED BY <1>1, OtherCalls, CallTold, Access2, Access3, Access4, FieldsAreShut, NamesAreShut,
           Sealed2, Sealed3, Sealed4, WordsAreShut
        DEF AccessRealmsAndGroups, Get, Put, Post, Delete, Verbs

LEMMA AccessUsersAndRolesTold == \A row \in AccessUsersAndRoles : RowTold(row)
<1>1. /\ "access" \in Words /\ "users" \in Words /\ "token" \in Words /\ "unlock-tfa" \in Words
      /\ "roles" \in Words
  BY DEF Words
<1> QED BY <1>1, OtherCalls, CallTold, Access2, Access3, Access4, Access5, FieldsAreShut, Sealed2,
           Sealed3, Sealed4, WithoutToken, WordsAreShut
        DEF AccessUsersAndRoles, Get, Put, Post, Delete, Verbs

LEMMA AccessIndexesTold == \A row \in AccessIndexes : RowTold(row)
<1>1. "access" \in Words /\ "vncticket" \in Words
  BY DEF Words
<1> QED BY <1>1, OtherCalls, CallTold, Access2, Sealed2, WordsAreShut
        DEF AccessIndexes, Get, Post, Verbs

LEMMA AccessOpenIDTold == \A row \in AccessOpenID : RowTold(row)
<1>1. "access" \in Words /\ "openid" \in Words /\ "auth-url" \in Words /\ "login" \in Words
  BY DEF Words
<1> QED BY <1>1, CallTold, Access3, Sealed3, WordsAreShut
        DEF AccessOpenID, Post

LEMMA AccessTFATold == \A row \in AccessTFA : RowTold(row)
<1>1. "access" \in Words /\ "tfa" \in Words /\ "users" \in Words /\ "unlock-tfa" \in Words
  BY DEF Words
<1> QED BY <1>1, OtherCalls, CallTold, Access3, Access4, NamesAreShut, Sealed3, Sealed4,
           WordsAreShut
        DEF AccessTFA, Get, Put, Post, Delete, Verbs

LEMMA ResourcePoolsTold == \A row \in ResourcePools : RowTold(row)
<1>1. "pools" \in Words
  BY DEF Words
<1> QED BY <1>1, OtherCalls, CallTold, FieldsAreShut, Pools1, Pools2, Sealed1, Sealed2, WordsAreShut
        DEF ResourcePools, Get, Put, Post, Delete, Verbs

LEMMA ClusterCoreTold == \A row \in ClusterCore : RowTold(row)
<1>1. "cluster" \in Words /\ "backup" \in Words
  BY DEF Words
<1> QED BY <1>1, OtherCalls, LazyNone, CallTold, Cluster2, Cluster3, NamesAreShut, Sealed2, Sealed3,
           WordsAreShut
        DEF ClusterCore, Get, Put, Post, Delete, Verbs

LEMMA CephStateTold == \A row \in CephState : RowTold(row)
BY OtherCalls
   DEF CephState, Get, Verbs

LEMMA AcmeAccountsTold == \A row \in AcmeAccounts : RowTold(row)
<1>1. "cluster" \in Words /\ "acme" \in Words /\ "account" \in Words
  BY DEF Words
<1> QED BY <1>1, OtherCalls, CallTold, Cluster3, Cluster4, Sealed3, WithoutClusterName, WordsAreShut
        DEF AcmeAccounts, Get, Put, Post, Delete, Verbs

LEMMA AcmePluginsTold == \A row \in AcmePlugins : RowTold(row)
<1>1. "cluster" \in Words /\ "acme" \in Words /\ "plugins" \in Words
  BY DEF Words
<1> QED BY <1>1, OtherCalls, CallTold, Cluster3, Cluster4, NamesAreShut, Sealed3, Sealed4,
           WordsAreShut
        DEF AcmePlugins, Get, Put, Post, Delete, Verbs

LEMMA BackupCoverageTold == \A row \in BackupCoverage : RowTold(row)
BY OtherCalls
   DEF BackupCoverage, Get, Verbs

LEMMA BulkActionsTold == \A row \in BulkActions : RowTold(row)
<1>1. /\ "cluster" \in Words /\ "bulk-action" \in Words /\ "guest" \in Words /\ "start" \in Words
      /\ "shutdown" \in Words /\ "suspend" \in Words /\ "migrate" \in Words
  BY DEF Words
<1> QED BY <1>1, OtherCalls, CallTold, Cluster4, Sealed4, WordsAreShut
        DEF BulkActions, Get, Post, Verbs

LEMMA CephFlagsTold == \A row \in CephFlags : RowTold(row)
<1>1. "cluster" \in Words /\ "ceph" \in Words /\ "flags" \in Words
  BY DEF Words
<1> QED BY <1>1, OtherCalls, CallTold, Cluster3, Cluster4, NamesAreShut, Sealed3, Sealed4,
           WordsAreShut
        DEF CephFlags, Get, Put, Verbs

LEMMA ClusterConfigTold == \A row \in ClusterConfig : RowTold(row)
<1>1. "cluster" \in Words /\ "config" \in Words /\ "join" \in Words /\ "nodes" \in Words
  BY DEF Words
<1> QED BY <1>1, OtherCalls, CallTold, Cluster2, Cluster3, Cluster4, NamesAreShut, Sealed2, Sealed3,
           Sealed4, WordsAreShut
        DEF ClusterConfig, Get, Post, Delete, Verbs

LEMMA ClusterIndexesTold == \A row \in ClusterIndexes : RowTold(row)
BY OtherCalls
   DEF ClusterIndexes, Get, Verbs

LEMMA ClusterFirewallRulesTold == \A row \in ClusterFirewallRules : RowTold(row)
<1>1. /\ "cluster" \in Words /\ "firewall" \in Words /\ "groups" \in Words /\ "rules" \in Words
      /\ "aliases" \in Words
  BY DEF Words
<1> QED BY <1>1, OtherCalls, CallTold, Cluster3, Cluster4, Cluster5, FieldsAreShut, NamesAreShut,
           Sealed3, Sealed4, Sealed5, WithoutClusterName, WordsAreShut
        DEF ClusterFirewallRules, Get, Put, Post, Delete, Verbs

LEMMA ClusterFirewallIPSetsTold == \A row \in ClusterFirewallIPSets : RowTold(row)
<1>1. "cluster" \in Words /\ "firewall" \in Words /\ "ipset" \in Words /\ "options" \in Words
  BY DEF Words
<1> QED BY <1>1, OtherCalls, CallTold, Cluster3, Cluster4, Cluster5, NamedMethods4, NamedMethods5,
           Sealed3, WithoutClusterEntry, WithoutClusterName, WordsAreShut
        DEF ClusterFirewallIPSets, Get, Put, Post, Delete, MembersOfASet, Verbs

LEMMA HaGroupsAndResourcesTold == \A row \in HaGroupsAndResources : RowTold(row)
<1>1. /\ "cluster" \in Words /\ "ha" \in Words /\ "groups" \in Words /\ "resources" \in Words
      /\ "migrate" \in Words /\ "relocate" \in Words
  BY DEF Words
<1> QED BY <1>1, OtherCalls, CallTold, Cluster3, Cluster4, Cluster5, Sealed3, WithoutClusterName,
           WithoutResource, WordsAreShut
        DEF HaGroupsAndResources, Get, Put, Post, Delete, Verbs

LEMMA HaRulesAndStatusTold == \A row \in HaRulesAndStatus : RowTold(row)
<1>1. /\ "cluster" \in Words /\ "ha" \in Words /\ "rules" \in Words /\ "status" \in Words
      /\ "arm-ha" \in Words /\ "disarm-ha" \in Words
  BY DEF Words
<1> QED BY <1>1, OtherCalls, CallTold, Cluster3, Cluster4, Sealed3, Sealed4, WithoutClusterName,
           WordsAreShut
        DEF HaRulesAndStatus, Get, Put, Post, Delete, Verbs

LEMMA ClusterJobsTold == \A row \in ClusterJobs : RowTold(row)
<1>1. "cluster" \in Words /\ "jobs" \in Words /\ "realm-sync" \in Words
  BY DEF Words
<1> QED BY <1>1, OtherCalls, CallTold, Cluster4, NamesAreShut, Sealed4, WordsAreShut
        DEF ClusterJobs, Get, Put, Post, Delete, Verbs

LEMMA DirAndPciMappingsTold == \A row \in DirAndPciMappings : RowTold(row)
<1>1. "cluster" \in Words /\ "mapping" \in Words /\ "dir" \in Words /\ "pci" \in Words
  BY DEF Words
<1> QED BY <1>1, OtherCalls, CallTold, Cluster3, Cluster4, NamesAreShut, Sealed3, Sealed4,
           WordsAreShut
        DEF DirAndPciMappings, Get, Put, Post, Delete, Verbs

LEMMA UsbMappingsTold == \A row \in UsbMappings : RowTold(row)
<1>1. "cluster" \in Words /\ "mapping" \in Words /\ "usb" \in Words
  BY DEF Words
<1> QED BY <1>1, OtherCalls, CallTold, Cluster3, Cluster4, NamesAreShut, Sealed3, Sealed4,
           WordsAreShut
        DEF UsbMappings, Get, Put, Post, Delete, Verbs

LEMMA MetricServersTold == \A row \in MetricServers : RowTold(row)
<1>1. "cluster" \in Words /\ "metrics" \in Words /\ "server" \in Words
  BY DEF Words
<1> QED BY <1>1, OtherCalls, CallTold, Cluster4, NamesAreShut, Sealed4, WordsAreShut
        DEF MetricServers, Get, Put, Post, Delete, Verbs

LEMMA ClusterLogTold == \A row \in ClusterLog : RowTold(row)
BY OtherCalls
   DEF ClusterLog, Get, Verbs

LEMMA NotificationMatchersTold == \A row \in NotificationMatchers : RowTold(row)
<1>1. /\ "cluster" \in Words /\ "notifications" \in Words /\ "targets" \in Words /\ "test" \in Words
      /\ "matchers" \in Words
  BY DEF Words
<1> QED BY <1>1, OtherCalls, CallTold, Cluster3, Cluster4, Cluster5, NamesAreShut, Sealed3, Sealed4,
           Sealed5, WordsAreShut
        DEF NotificationMatchers, Get, Put, Post, Delete, Verbs

LEMMA NotificationEndpointsTold == \A row \in NotificationEndpoints : RowTold(row)
<1>1. /\ "cluster" \in Words /\ "notifications" \in Words /\ "endpoints" \in Words /\ "gotify" \in Words
      /\ "sendmail" \in Words
  BY DEF Words
<1> QED BY <1>1, OtherCalls, CallTold, Cluster4, Cluster5, NamesAreShut, Sealed4, Sealed5,
           WordsAreShut
        DEF NotificationEndpoints, Get, Put, Post, Delete, Verbs

LEMMA NotificationRelaysTold == \A row \in NotificationRelays : RowTold(row)
<1>1. /\ "cluster" \in Words /\ "notifications" \in Words /\ "endpoints" \in Words /\ "smtp" \in Words
      /\ "webhook" \in Words
  BY DEF Words
<1> QED BY <1>1, OtherCalls, CallTold, Cluster4, Cluster5, NamesAreShut, Sealed4, Sealed5,
           WordsAreShut
        DEF NotificationRelays, Get, Put, Post, Delete, Verbs

LEMMA DatacenterOptionsTold == \A row \in DatacenterOptions : RowTold(row)
<1>1. "cluster" \in Words /\ "options" \in Words
  BY DEF Words
<1> QED BY <1>1, OtherCalls, CallTold, Cluster2, Sealed2, WordsAreShut
        DEF DatacenterOptions, Get, Put, Verbs

LEMMA CpuModelsTold == \A row \in CpuModels : RowTold(row)
<1>1. "cluster" \in Words /\ "qemu" \in Words /\ "custom-cpu-models" \in Words
  BY DEF Words
<1>2. RowTold(Lazy("Cluster", "CustomCPUModel", <<"cluster", "qemu", "custom-cpu-models", "<cputype>">>,
             {}, One("CustomCPUModel", ".cputype" :> "<cputype>", Wired, "kept")))
  BY LazyOne, MayBeLacked
<1> QED BY <1>1, <1>2, OtherCalls, CallTold, Cluster3, Cluster4, NamesAreShut, Sealed3, Sealed4,
           WordsAreShut
        DEF CpuModels, Get, Put, Post, Delete, Verbs

LEMMA ReplicationJobsTold == \A row \in ReplicationJobs : RowTold(row)
<1>1. "cluster" \in Words /\ "replication" \in Words
  BY DEF Words
<1> QED BY <1>1, OtherCalls, CallTold, Cluster2, Cluster3, Sealed2, WithoutJob, WordsAreShut
        DEF ReplicationJobs, Get, Put, Post, Delete, Verbs

LEMMA SdnVNetsAndZonesTold == \A row \in SdnVNetsAndZones : RowTold(row)
<1>1. "cluster" \in Words /\ "sdn" \in Words /\ "vnets" \in Words /\ "zones" \in Words
  BY DEF Words
<1> QED BY <1>1, OtherCalls, CallTold, Cluster2, Cluster3, Cluster4, Sealed2, Sealed3,
           WithoutClusterName, WordsAreShut
        DEF SdnVNetsAndZones, Get, Put, Post, Delete, Verbs

LEMMA SdnControllersTold == \A row \in SdnControllers : RowTold(row)
<1>1. "cluster" \in Words /\ "sdn" \in Words /\ "controllers" \in Words
  BY DEF Words
<1>2. RowTold(Lazy("Cluster", "SDNController", <<"cluster", "sdn", "controllers", "<name>">>, {},
             One("SDNController", ".controller" :> "<name>", Wired, "kept")))
  BY LazyOne, MayBeLacked
<1> QED BY <1>1, <1>2, OtherCalls, CallTold, Cluster3, Cluster4, NamesAreShut, Sealed3, Sealed4,
           WordsAreShut
        DEF SdnControllers, Get, Put, Post, Delete, Verbs

LEMMA SdnDnsPluginsTold == \A row \in SdnDnsPlugins : RowTold(row)
<1>1. "cluster" \in Words /\ "sdn" \in Words /\ "dns" \in Words
  BY DEF Words
<1>2. RowTold(Lazy("Cluster", "SDNDNS", <<"cluster", "sdn", "dns", "<name>">>, {}, One("SDNDNS", ".dns"
             :> "<name>", Wired, "kept")))
  BY LazyOne, MayBeLacked
<1> QED BY <1>1, <1>2, OtherCalls, CallTold, Cluster3, Cluster4, NamesAreShut, Sealed3, Sealed4,
           WordsAreShut
        DEF SdnDnsPlugins, Get, Put, Post, Delete, Verbs

LEMMA SdnFabricsTold == \A row \in SdnFabrics : RowTold(row)
<1>1. "cluster" \in Words /\ "sdn" \in Words /\ "fabrics" \in Words /\ "fabric" \in Words
  BY DEF Words
<1>2. RowTold(Lazy("Cluster", "SDNFabric", <<"cluster", "sdn", "fabrics", "fabric", "<id>">>, {},
             One("SDNFabric", ".id" :> "<id>", Wired, "kept")))
  BY LazyOne, MayBeLacked
<1> QED BY <1>1, <1>2, OtherCalls, CallTold, Cluster4, Cluster5, NamesAreShut, Sealed4, Sealed5,
           WordsAreShut
        DEF SdnFabrics, Get, Put, Post, Delete, Verbs

LEMMA SdnFabricNodesTold == \A row \in SdnFabricNodes : RowTold(row)
<1>1. "cluster" \in Words /\ "sdn" \in Words /\ "fabrics" \in Words /\ "node" \in Words
  BY DEF Words
<1>2. RowTold(Lazy("SDNFabric", "Node", <<"cluster", "sdn", "fabrics", "node", ".id", "<nodeid>">>, {},
             One("SDNFabricNode", ".fabricid" :> ".id" @@ ".nodeid" :> "<nodeid>", Wired, "kept")))
  BY LazyTwo, MayBeLacked
<1> QED BY <1>1, <1>2, OtherCalls, CallTold, Cluster5, Cluster6, NamesAreShut, Sealed5, Sealed6,
           WordsAreShut
        DEF SdnFabricNodes, Get, Put, Post, Delete, Verbs

LEMMA SdnIpamsTold == \A row \in SdnIpams : RowTold(row)
<1>1. "cluster" \in Words /\ "sdn" \in Words /\ "ipams" \in Words
  BY DEF Words
<1>2. RowTold(Lazy("Cluster", "SDNIPAM", <<"cluster", "sdn", "ipams", "<name>">>, {}, One("SDNIPAM",
             ".ipam" :> "<name>", Wired, "kept")))
  BY LazyOne, MayBeLacked
<1> QED BY <1>1, <1>2, OtherCalls, CallTold, Cluster3, Cluster4, NamesAreShut, Sealed3, Sealed4,
           WordsAreShut
        DEF SdnIpams, Get, Put, Post, Delete, Verbs

LEMMA SdnLockingTold == \A row \in SdnLocking : RowTold(row)
<1>1. "cluster" \in Words /\ "sdn" \in Words /\ "lock" \in Words /\ "rollback" \in Words
  BY DEF Words
<1> QED BY <1>1, OtherCalls, CallTold, Cluster3, Sealed3, WordsAreShut
        DEF SdnLocking, Get, Post, Delete, Verbs

LEMMA SdnPrefixListsTold == \A row \in SdnPrefixLists : RowTold(row)
<1>1. "cluster" \in Words /\ "sdn" \in Words /\ "prefix-lists" \in Words
  BY DEF Words
<1>2. RowTold(Lazy("Cluster", "SDNPrefixList", <<"cluster", "sdn", "prefix-lists", "<id>">>, {},
             One("SDNPrefixList", ".id" :> "<id>", Wired, "kept")))
  BY LazyOne, MayBeLacked
<1> QED BY <1>1, <1>2, OtherCalls, CallTold, Cluster3, Cluster4, NamesAreShut, Sealed3, Sealed4,
           WordsAreShut
        DEF SdnPrefixLists, Get, Put, Post, Delete, Verbs

LEMMA SdnPrefixListEntriesTold == \A row \in SdnPrefixListEntries : RowTold(row)
<1>1. "cluster" \in Words /\ "sdn" \in Words /\ "prefix-lists" \in Words /\ "entries" \in Words
  BY DEF Words
<1>2. RowTold(Lazy("SDNPrefixList", "Entry", <<"cluster", "sdn", "prefix-lists", ".id", "entries",
             "<seq>">>, {}, One("SDNPrefixListEntry", ".id" :> ".id" @@ ".seq" :> "<seq>", Wired,
             "kept")))
  BY LazyTwo, MayBeLacked, NamesAreShut
<1> QED BY <1>1, <1>2, OtherCalls, FieldsAreShut, CallTold, Cluster5, Cluster6, NamesAreShut,
           Sealed5, Sealed6, WordsAreShut
        DEF SdnPrefixListEntries, Get, Put, Post, Delete, Verbs

LEMMA SdnRouteMapsTold == \A row \in SdnRouteMaps : RowTold(row)
<1>1. /\ "cluster" \in Words /\ "sdn" \in Words /\ "route-maps" \in Words /\ "entries" \in Words
      /\ "entry" \in Words
  BY DEF Words
<1>2. RowTold(Lazy("Cluster", "SDNRouteMapEntry", <<"cluster", "sdn", "route-maps", "entries",
             "<routemapid>", "entry", "<order>">>, {}, One("SDNRouteMapEntry", ".routemapid" :>
             "<routemapid>" @@ ".order" :> "<order>", Wired, "kept")))
  BY LazyTwo, MayBeLacked, NamesAreShut
<1> QED BY <1>1, <1>2, OtherCalls, CallTold, Cluster4, Cluster7, FieldsAreShut, NamesAreShut,
           Sealed4, Sealed7,
           WordsAreShut
        DEF SdnRouteMaps, Get, Put, Post, Delete, Verbs

LEMMA VNetFirewallTold == \A row \in VNetFirewall : RowTold(row)
<1>1. /\ "cluster" \in Words /\ "sdn" \in Words /\ "vnets" \in Words /\ "firewall" \in Words
      /\ "options" \in Words /\ "rules" \in Words
  BY DEF Words
<1> QED BY <1>1, OtherCalls, CallTold, Cluster6, Cluster7, NamesAreShut, Sealed6, Sealed7,
           WordsAreShut
        DEF VNetFirewall, Get, Put, Post, Delete, Verbs

LEMMA VNetIPsTold == \A row \in VNetIPs : RowTold(row)
<1>1. "cluster" \in Words /\ "sdn" \in Words /\ "vnets" \in Words /\ "ips" \in Words
  BY DEF Words
<1> QED BY <1>1, CallTold, Cluster5, NamesAreShut, Sealed5, WordsAreShut
        DEF VNetIPs, Put, Post, Delete

LEMMA VNetSubnetsTold == \A row \in VNetSubnets : RowTold(row)
<1>1. "cluster" \in Words /\ "sdn" \in Words /\ "vnets" \in Words /\ "subnets" \in Words
  BY DEF Words
<1>2. RowTold(Lazy("VNet", "Subnet", <<"cluster", "sdn", "vnets", ".name", "subnets", "<name>">>, {},
             One("VNetSubnet", ".vnet" :> ".name" @@ ".id" :> "<name>", Wired, "kept")))
  BY LazyTwo, MayBeLacked, FieldsAreShut
<1> QED BY <1>1, <1>2, OtherCalls, CallTold, Cluster5, Cluster6, NamesAreShut, Sealed5, Sealed6,
           WordsAreShut
        DEF VNetSubnets, Get, Put, Post, Delete, Verbs

LEMMA NodeGuestsTold == \A row \in NodeGuests : RowTold(row)
<1>1. /\ "nodes" \in Words /\ "termproxy" \in Words /\ "qemu" \in Words /\ "termproxy" \in NodeWords
      /\ "qemu" \in NodeWords /\ ".node" \in Slots
  BY DEF Words, NodeWords, Slots, Fields
<1>2. RowTold(Lazy("Node", "New", <<"nodes", "<name>">>, {}, One("Node", ".node" :> "<name>", Wired,
             "kept")))
  BY LazyOne, MayBeLacked
<1> QED BY <1>1, <1>2, OtherCalls, CallTold, Node3, WithoutNode3
        DEF NodeGuests, Get, Post, Dial, Verbs

LEMMA NodeStoragesTold == \A row \in NodeStorages : RowTold(row)
<1>1. /\ "nodes" \in Words /\ "aplinfo" \in Words /\ "storage" \in Words /\ "download-url" \in Words
      /\ "aplinfo" \in NodeWords /\ "storage" \in NodeWords /\ "download-url" \notin NodeWords
      /\ "download-url" \notin NodePosts /\ ".node" \in Slots
  BY DEF Words, NodeWords, NodePosts, Slots, Fields
<1> QED BY <1>1, OtherCalls, CallTold, Node3, Node5, WithoutNode3, WithoutNodeAndName
        DEF NodeStorages, Get, Post, Verbs

LEMMA NodeFirewallTold == \A row \in NodeFirewall : RowTold(row)
<1>1. /\ "nodes" \in Words /\ "firewall" \in Words /\ "options" \in Words /\ "rules" \in Words
      /\ "certificates" \in Words /\ "custom" \in Words /\ "firewall" \in NodeWords
      /\ "certificates" \in NodeWords /\ "options" \notin NodeWords /\ "rules" \notin NodeWords
      /\ "custom" \notin NodeWords /\ "rules" \in NodePosts /\ "custom" \in NodePosts
      /\ ".node" \in Slots
  BY DEF Words, NodeWords, NodePosts, Slots, Fields
<1>2. RowTold(Lazy("Node", "FirewallRule", <<"nodes", ".node", "firewall", "rules", "<pos>">>, {},
             One("NodeRule", ".node" :> ".node" @@ ".pos" :> "<pos>", Wired, "kept")))
  BY LazyTwo, MayBeLacked, NamesAreShut
<1> QED BY <1>1, <1>2, OtherCalls, FieldsAreShut, NamesAreShut, CallTold, Node4, WithoutNode4
        DEF NodeFirewall, Get, Put, Post, Delete, Verbs

LEMMA NodeCertificatesTold == \A row \in NodeCertificates : RowTold(row)
<1>1. /\ "nodes" \in Words /\ "certificates" \in Words /\ "acme" \in Words /\ "certificate" \in Words
      /\ "vzdump" \in Words /\ "certificates" \in NodeWords /\ "vzdump" \in NodeWords
      /\ "acme" \notin NodeWords /\ ".node" \in Slots
  BY DEF Words, NodeWords, Slots, Fields
<1> QED BY <1>1, OtherCalls, CallTold, Node3, Node5, WithoutNode3, WithoutNode5, WordsAreShut
        DEF NodeCertificates, Get, Put, Post, Delete, Verbs

LEMMA NodeServicesTold == \A row \in NodeServices : RowTold(row)
<1>1. /\ "nodes" \in Words /\ "services" \in Words /\ "start" \in Words /\ "stop" \in Words
      /\ "restart" \in Words /\ "reload" \in Words /\ "time" \in Words /\ "services" \in NodeWords
      /\ "time" \in NodeWords /\ "reload" \notin NodeWords /\ "reload" \notin NodePosts
      /\ ".node" \in Slots
  BY DEF Words, NodeWords, NodePosts, Slots, Fields
<1>2. RowTold(Lazy("Node", "Service", <<"nodes", ".node", "services", "<name>">>, {}, One("NodeService",
             ".node" :> ".node" @@ ".name" :> "<name>", Wired, "kept")))
  BY LazyTwo, MayBeLacked
<1> QED BY <1>1, <1>2, OtherCalls, CallTold, Node3, Node5, WithoutNode3, WithoutNodeAndName,
           WithoutService
        DEF NodeServices, Get, Put, Post, Verbs

LEMMA NodeSubscriptionTold == \A row \in NodeSubscription : RowTold(row)
<1>1. /\ "nodes" \in Words /\ "subscription" \in Words /\ "startall" \in Words /\ "stopall" \in Words
      /\ "suspendall" \in Words /\ "migrateall" \in Words /\ "wakeonlan" \in Words
      /\ "subscription" \in NodeWords /\ "startall" \in NodeWords /\ "stopall" \in NodeWords
      /\ "suspendall" \in NodeWords /\ "migrateall" \in NodeWords /\ "wakeonlan" \in NodeWords
      /\ ".node" \in Slots
  BY DEF Words, NodeWords, Slots, Fields
<1> QED BY <1>1, OtherCalls, CallTold, Node3, WithoutNode3
        DEF NodeSubscription, Get, Put, Post, Delete, Verbs

LEMMA NodeReplicationTold == \A row \in NodeReplication : RowTold(row)
<1>1. /\ "nodes" \in Words /\ "replication" \in Words /\ "schedule_now" \in Words
      /\ "replication" \in NodeWords /\ "schedule_now" \notin NodeWords
      /\ "schedule_now" \notin NodePosts /\ ".node" \in Slots
  BY DEF Words, NodeWords, NodePosts, Slots, Fields
<1>2. RowTold(Lazy("Node", "Replication", <<"nodes", ".node", "replication", "<id>">>, {},
             One("NodeReplicationJob", ".node" :> ".node" @@ ".id" :> "<id>", Wired, "kept")))
  BY LazyTwo, MayBeLacked
<1> QED BY <1>1, <1>2, OtherCalls, CallTold, Node5, WithoutNodeAndName
        DEF NodeReplication, Get, Post, Verbs

LEMMA NodeAdminTold == \A row \in NodeAdmin : RowTold(row)
<1>1. /\ "nodes" \in Words /\ "config" \in Words /\ "hosts" \in Words /\ "status" \in Words
      /\ "config" \in NodeWords /\ "hosts" \in NodeWords /\ "status" \in NodeWords /\ ".node" \in Slots
  BY DEF Words, NodeWords, Slots, Fields
<1> QED BY <1>1, OtherCalls, CallTold, Node3, WithoutNode3
        DEF NodeAdmin, Get, Put, Post, Verbs

LEMMA NodeLogsTold == \A row \in NodeLogs : RowTold(row)
<1>1. "nodes" \in Words /\ "execute" \in Words /\ "execute" \in NodeWords /\ ".node" \in Slots
  BY DEF Words, NodeWords, Slots, Fields
<1> QED BY <1>1, OtherCalls, CallTold, Node3, WithoutNode3
        DEF NodeLogs, Get, Post, Verbs

LEMMA NodeShellsTold == \A row \in NodeShells : RowTold(row)
<1>1. /\ "nodes" \in Words /\ "vncshell" \in Words /\ "spiceshell" \in Words /\ "network" \in Words
      /\ "vncshell" \in NodeWords /\ "spiceshell" \in NodeWords /\ "network" \in NodeWords
      /\ ".node" \in Slots
  BY DEF Words, NodeWords, Slots, Fields
<1> QED BY <1>1, OtherCalls, CallTold, Node3, WithoutNode3
        DEF NodeShells, Get, Post, Delete, Verbs

LEMMA AptPackagesTold == \A row \in AptPackages : RowTold(row)
<1>1. /\ "nodes" \in Words /\ "apt" \in Words /\ "update" \in Words /\ "repositories" \in Words
      /\ "apt" \in NodeWords /\ "update" \notin NodeWords /\ "repositories" \notin NodeWords
      /\ "update" \in NodePosts /\ "repositories" \in NodePosts /\ ".node" \in Slots
  BY DEF Words, NodeWords, NodePosts, Slots, Fields
<1> QED BY <1>1, OtherCalls, CallTold, Node4, WithoutNode4
        DEF AptPackages, Get, Put, Post, Verbs

LEMMA NodeCapabilitiesTold == \A row \in NodeCapabilities : RowTold(row)
BY OtherCalls
   DEF NodeCapabilities, Get, Verbs

LEMMA CephControlTold == \A row \in CephControl : RowTold(row)
<1>1. /\ "nodes" \in Words /\ "ceph" \in Words /\ "init" \in Words /\ "start" \in Words
      /\ "stop" \in Words /\ "restart" \in Words /\ "ceph" \in NodeWords /\ "init" \notin NodeWords
      /\ "start" \notin NodeWords /\ "stop" \notin NodeWords /\ "restart" \notin NodeWords
      /\ "init" \in NodePosts /\ "start" \in NodePosts /\ "stop" \in NodePosts
      /\ "restart" \in NodePosts /\ ".node" \in Slots
  BY DEF Words, NodeWords, NodePosts, Slots, Fields
<1> QED BY <1>1, OtherCalls, CallTold, Node4, WithoutNode4
        DEF CephControl, Get, Post, Verbs

LEMMA CephConfigTold == \A row \in CephConfig : RowTold(row)
BY OtherCalls
   DEF CephConfig, Get, Verbs

LEMMA CephMonsAndMgrsTold == \A row \in CephMonsAndMgrs : RowTold(row)
<1>1. /\ "nodes" \in Words /\ "ceph" \in Words /\ "mon" \in Words /\ "mgr" \in Words
      /\ "ceph" \in NodeWords /\ "mon" \notin NodeWords /\ "mgr" \notin NodeWords
      /\ "mon" \notin NodePosts /\ "mgr" \notin NodePosts /\ ".node" \in Slots
  BY DEF Words, NodeWords, NodePosts, Slots, Fields
<1>2. RowTold(Lazy("Node", "CephMon", <<"nodes", ".node", "ceph", "mon", "<monid>">>, {}, One("CephMon",
             ".node" :> ".node" @@ ".name" :> "<monid>", Wired, "kept")))
  BY LazyTwo, MayBeLacked
<1>3. RowTold(Lazy("Node", "CephMgr", <<"nodes", ".node", "ceph", "mgr", "<id>">>, {}, One("CephMgr",
             ".node" :> ".node" @@ ".name" :> "<id>", Wired, "kept")))
  BY LazyTwo, MayBeLacked
<1>4. /\ Shut("CephMon", {".name"}, ".name") /\ Shut("CephMgr", {".name"}, ".name")
      /\ Shut("CephMon", {".name"}, "mon") /\ Shut("CephMgr", {".name"}, "mgr")
  BY <1>1, NamesAreShut, WordsAreShut
<1>5. /\ Told("CephMon", "Delete", "DELETE", {".name"}, <<"nodes", ".node", "ceph", "mon", ".name">>)
      /\ Told("CephMgr", "Delete", "DELETE", {".name"}, <<"nodes", ".node", "ceph", "mgr", ".name">>)
  BY <1>1, <1>4, WithoutNode5
<1>6. /\ Told("Node", "CreateCephMon", "POST", {}, <<"nodes", ".node", "ceph", "mon", "<monid>">>)
      /\ Told("Node", "CreateCephMgr", "POST", {}, <<"nodes", ".node", "ceph", "mgr", "<id>">>)
  BY <1>1, WithoutNodeAndDaemon
<1> QED BY <1>1, <1>2, <1>3, <1>5, <1>6, OtherCalls, CallTold, Node5
        DEF CephMonsAndMgrs, Get, Post, Delete, Verbs

LEMMA CephMDSsTold == \A row \in CephMDSs : RowTold(row)
<1>1. /\ "nodes" \in Words /\ "ceph" \in Words /\ "mds" \in Words /\ "ceph" \in NodeWords
      /\ "mds" \notin NodeWords /\ "mds" \notin NodePosts /\ ".node" \in Slots
  BY DEF Words, NodeWords, NodePosts, Slots, Fields
<1>2. RowTold(Lazy("Node", "CephMDS", <<"nodes", ".node", "ceph", "mds", "<name>">>, {}, One("CephMDS",
             ".node" :> ".node" @@ ".name" :> "<name>", Wired, "kept")))
  BY LazyTwo, MayBeLacked
<1>3. Shut("CephMDS", {".name"}, ".name") /\ Shut("CephMDS", {".name"}, "mds")
  BY <1>1, NamesAreShut, WordsAreShut
<1> QED BY <1>1, <1>2, <1>3, OtherCalls, CallTold, Node5, WithoutNode5, WithoutNodeAndDaemon
        DEF CephMDSs, Get, Post, Delete, Verbs

LEMMA CephFileSystemsTold == \A row \in CephFileSystems : RowTold(row)
<1>1. /\ "nodes" \in Words /\ "ceph" \in Words /\ "fs" \in Words /\ "ceph" \in NodeWords
      /\ "fs" \notin NodeWords /\ ".node" \in Slots
  BY DEF Words, NodeWords, Slots, Fields
<1>2. RowTold(Lazy("Node", "CephFS", <<"nodes", ".node", "ceph", "fs", "<name>">>, {}, One("CephFS",
             ".node" :> ".node" @@ ".name" :> "<name>", Wired, "kept")))
  BY LazyTwo, MayBeLacked
<1> QED BY <1>1, <1>2, OtherCalls, CallTold, NamesAreShut, Node5, WithoutNode5
        DEF CephFileSystems, Get, Post, Delete, Verbs

LEMMA CephOSDsTold == \A row \in CephOSDs : RowTold(row)
<1>1. /\ "nodes" \in Words /\ "ceph" \in Words /\ "osd" \in Words /\ "in" \in Words /\ "out" \in Words
      /\ "scrub" \in Words /\ "ceph" \in NodeWords /\ "osd" \notin NodeWords /\ "osd" \in NodePosts
      /\ ".node" \in Slots
  BY DEF Words, NodeWords, NodePosts, Slots, Fields
<1>2. RowTold(Lazy("Node", "CephOSD", <<"nodes", ".node", "ceph", "osd", "<osdid>">>, {}, One("CephOSD",
             ".node" :> ".node" @@ ".osdid" :> "<osdid>", Wired, "kept")))
  BY LazyTwo, MayBeLacked, NamesAreShut
<1> QED BY <1>1, <1>2, OtherCalls, CallTold, FieldsAreShut, NamesAreShut, Node4, Node5, Node6, WithoutNode4,
           WithoutNode5, WithoutNode6, WordsAreShut
        DEF CephOSDs, Get, Post, Delete, Verbs

LEMMA CephPoolsTold == \A row \in CephPools : RowTold(row)
<1>1. /\ "nodes" \in Words /\ "ceph" \in Words /\ "pool" \in Words /\ "ceph" \in NodeWords
      /\ "pool" \notin NodeWords /\ "pool" \in NodePosts /\ ".node" \in Slots
  BY DEF Words, NodeWords, NodePosts, Slots, Fields
<1>2. RowTold(Lazy("Node", "CephPool", <<"nodes", ".node", "ceph", "pool", "<name>">>, {},
             One("CephPool", ".node" :> ".node" @@ ".poolname" :> "<name>", Wired, "kept")))
  BY LazyTwo, MayBeLacked
<1> QED BY <1>1, <1>2, OtherCalls, CallTold, NamesAreShut, Node4, Node5, WithoutNode4, WithoutNode5
        DEF CephPools, Get, Put, Post, Delete, Verbs

LEMMA NodeIndexesTold == \A row \in NodeIndexes : RowTold(row)
BY OtherCalls
   DEF NodeIndexes, Get, Verbs

LEMMA DisksAndDirectoriesTold == \A row \in DisksAndDirectories : RowTold(row)
<1>1. /\ "nodes" \in Words /\ "disks" \in Words /\ "initgpt" \in Words /\ "wipedisk" \in Words
      /\ "directory" \in Words /\ "disks" \in NodeWords /\ "initgpt" \notin NodeWords
      /\ "wipedisk" \notin NodeWords /\ "directory" \notin NodeWords /\ "initgpt" \in NodePosts
      /\ "directory" \in NodePosts /\ ".node" \in Slots
  BY DEF Words, NodeWords, NodePosts, Slots, Fields
<1> QED BY <1>1, OtherCalls, CallTold, NamesAreShut, Node4, Node5, WithoutNode4, WithoutNode5
        DEF DisksAndDirectories, Get, Put, Post, Delete, Verbs

LEMMA VolumeGroupsTold == \A row \in VolumeGroups : RowTold(row)
<1>1. /\ "nodes" \in Words /\ "disks" \in Words /\ "lvm" \in Words /\ "lvmthin" \in Words
      /\ "zfs" \in Words /\ "disks" \in NodeWords /\ "lvm" \notin NodeWords
      /\ "lvmthin" \notin NodeWords /\ "zfs" \notin NodeWords /\ "lvm" \in NodePosts
      /\ "lvmthin" \in NodePosts /\ "zfs" \in NodePosts /\ ".node" \in Slots
  BY DEF Words, NodeWords, NodePosts, Slots, Fields
<1> QED BY <1>1, OtherCalls, CallTold, NamesAreShut, Node4, Node5, WithoutNode4, WithoutNode5
        DEF VolumeGroups, Get, Post, Delete, Verbs

LEMMA NodeDnsTold == \A row \in NodeDns : RowTold(row)
<1>1. "nodes" \in Words /\ "dns" \in Words /\ "dns" \in NodeWords /\ ".node" \in Slots
  BY DEF Words, NodeWords, Slots, Fields
<1> QED BY <1>1, OtherCalls, CallTold, Node3, WithoutNode3
        DEF NodeDns, Get, Put, Verbs

LEMMA NodeHardwareTold == \A row \in NodeHardware : RowTold(row)
<1>1. RowTold(Lazy("Node", "PCIDevice", <<"nodes", ".node", "hardware", "pci", "<id>">>, {},
             One("PCIDevice", ".node" :> ".node" @@ ".id" :> "<id>", Wired, "kept")))
  BY LazyTwo, MayBeLacked
<1> QED BY <1>1, OtherCalls
        DEF NodeHardware, Get, Verbs

LEMMA NodeMetricsTold == \A row \in NodeMetrics : RowTold(row)
BY OtherCalls
   DEF NodeMetrics, Get, Verbs

LEMMA NodeNetworksTold == \A row \in NodeNetworks : RowTold(row)
<1>1. "nodes" \in Words /\ "network" \in Words /\ "network" \in NodeWords /\ ".node" \in Slots
  BY DEF Words, NodeWords, Slots, Fields
<1> QED BY <1>1, OtherCalls, CallTold, FieldsAreShut, NamesAreShut, Node3, Node4, Sealed4,
           WithoutNode3, WordsAreShut
        DEF NodeNetworks, Get, Put, Post, Delete, Verbs

LEMMA StorageScansTold == \A row \in StorageScans : RowTold(row)
BY OtherCalls
   DEF StorageScans, Get, Verbs

LEMMA NodeSdnTold == \A row \in NodeSdn : RowTold(row)
BY OtherCalls
   DEF NodeSdn, Get, Verbs

LEMMA ClusterStoragesTold == \A row \in ClusterStorages : RowTold(row)
<1>1. "storage" \in Words
  BY DEF Words
<1> QED BY <1>1, OtherCalls, CallTold, Sealed1, Storage1, Storage2, WithoutClusterStorage,
           WordsAreShut
        DEF ClusterStorages, Get, Put, Post, Delete, Verbs

LEMMA StorageTransfersTold == \A row \in StorageTransfers : RowTold(row)
<1>1. /\ "nodes" \in Words /\ "storage" \in Words /\ "upload" \in Words /\ "download-url" \in Words
      /\ "storage" \in NodeWords /\ ".node" \in Slots
  BY DEF Words, NodeWords, Slots, Fields
<1> QED BY <1>1, CallTold, FieldsAreShut, Node5, Sealed5, WordsAreShut
        DEF StorageTransfers, Post

LEMMA StorageVolumesTold == \A row \in StorageVolumes : RowTold(row)
<1>1. /\ "nodes" \in Words /\ "storage" \in Words /\ "content" \in Words /\ "storage" \in NodeWords
      /\ ".node" \in Slots
  BY DEF Words, NodeWords, Slots, Fields
<1> QED BY <1>1, OtherCalls, CallTold, FieldsAreShut, NamesAreShut, Node6, Sealed6, WithoutVolume,
           WordsAreShut
        DEF StorageVolumes, Get, Delete, Verbs

LEMMA StorageUpkeepTold == \A row \in StorageUpkeep : RowTold(row)
<1>1. /\ "nodes" \in Words /\ "storage" \in Words /\ "prunebackups" \in Words /\ "storage" \in NodeWords
      /\ ".node" \in Slots
  BY DEF Words, NodeWords, Slots, Fields
<1> QED BY <1>1, OtherCalls, CallTold, FieldsAreShut, Node5, Sealed5, WordsAreShut
        DEF StorageUpkeep, Get, Delete, Verbs

LEMMA StorageContentsTold == \A row \in StorageContents : RowTold(row)
<1>1. /\ "nodes" \in Words /\ "storage" \in Words /\ "content" \in Words
      /\ "oci-registry-pull" \in Words /\ "storage" \in NodeWords /\ ".node" \in Slots
  BY DEF Words, NodeWords, Slots, Fields
<1> QED BY <1>1, OtherCalls, CallTold, FieldsAreShut, NamesAreShut, Node5, Node6, Sealed5, Sealed6,
           WordsAreShut
        DEF StorageContents, Get, Put, Post, Verbs

LEMMA GuestConfigTold == \A row \in GuestConfig : RowTold(row)
<1>1. /\ "nodes" \in Words /\ "qemu" \in Words /\ "config" \in Words /\ "dbus-vmstate" \in Words
      /\ "monitor" \in Words /\ "termproxy" \in Words /\ "vncproxy" \in Words /\ "qemu" \in NodeWords
      /\ ".node" \in Slots
  BY DEF Words, NodeWords, Slots, Fields
<1> QED BY <1>1, OtherCalls, CallTold, FieldsAreShut, NamesAreShut, Node5, Sealed5, WordsAreShut
        DEF GuestConfig, Get, Put, Post, Verbs

LEMMA GuestPowerTold == \A row \in GuestPower : RowTold(row)
<1>1. /\ "nodes" \in Words /\ "qemu" \in Words /\ "spiceproxy" \in Words /\ "status" \in Words
      /\ "start" \in Words /\ "reset" \in Words /\ "shutdown" \in Words /\ "stop" \in Words
      /\ "suspend" \in Words /\ "resume" \in Words /\ "reboot" \in Words /\ "qemu" \in NodeWords
      /\ ".node" \in Slots
  BY DEF Words, NodeWords, Slots, Fields
<1> QED BY <1>1, OtherCalls, CallTold, FieldsAreShut, NamesAreShut, Node5, Node6, Sealed5, Sealed6,
           WordsAreShut
        DEF GuestPower, Post, Dial, Verbs

LEMMA GuestMigrationTold == \A row \in GuestMigration : RowTold(row)
<1>1. /\ "nodes" \in Words /\ "qemu" \in Words /\ "migrate" \in Words /\ "remote_migrate" \in Words
      /\ "qemu" \in NodeWords /\ ".node" \in Slots
  BY DEF Words, NodeWords, Slots, Fields
<1> QED BY <1>1, OtherCalls, CallTold, FieldsAreShut, NamesAreShut, Node5, Sealed5, WordsAreShut
        DEF GuestMigration, Get, Post, Verbs

LEMMA GuestDisksTold == \A row \in GuestDisks : RowTold(row)
<1>1. /\ "nodes" \in Words /\ "qemu" \in Words /\ "resize" \in Words /\ "unlink" \in Words
      /\ "move_disk" \in Words /\ "qemu" \in NodeWords /\ ".node" \in Slots
  BY DEF Words, NodeWords, Slots, Fields
<1> QED BY <1>1, OtherCalls, CallTold, FieldsAreShut, NamesAreShut, Node5, Sealed5, WordsAreShut
        DEF GuestDisks, Get, Put, Post, Verbs

LEMMA GuestAgentExecTold == \A row \in GuestAgentExec : RowTold(row)
<1>1. /\ "nodes" \in Words /\ "qemu" \in Words /\ "agent" \in Words /\ "exec" \in Words
      /\ "qemu" \in NodeWords /\ ".node" \in Slots
  BY DEF Words, NodeWords, Slots, Fields
<1> QED BY <1>1, OtherCalls, CallTold, FieldsAreShut, NamesAreShut, Node6, Sealed6, WordsAreShut
        DEF GuestAgentExec, Get, Post, Verbs

LEMMA GuestFirewallTold == \A row \in GuestFirewall : RowTold(row)
<1>1. /\ "nodes" \in Words /\ "qemu" \in Words /\ "agent" \in Words /\ "set-user-password" \in Words
      /\ "sendkey" \in Words /\ "firewall" \in Words /\ "ipset" \in Words /\ "options" \in Words
      /\ "rules" \in Words /\ "qemu" \in NodeWords /\ ".node" \in Slots
  BY DEF Words, NodeWords, Slots, Fields
<1>2. RowTold(Lazy("VirtualMachine", "FirewallRule", <<"nodes", ".node", "qemu", ".vmid", "firewall",
             "rules", "<pos>">>, {}, One("GuestRule", ".node" :> ".node" @@ ".vmid" :> ".vmid" @@ ".pos"
             :> "<pos>", Wired, "kept")))
  BY LazyThree, NamesAreShut, FieldsAreShut
<1> QED BY <1>1, <1>2, OtherCalls, CallTold, FieldsAreShut, NamedMethods7, NamedMethods8,
           NamesAreShut, Node5, Node6, Node7, Node8, Sealed5, Sealed6, WithoutGuestEntry,
           WithoutGuestSetEntry, WordsAreShut
        DEF GuestFirewall, Get, Put, Post, Delete, MembersOfASet, Verbs

LEMMA GuestSnapshotsTold == \A row \in GuestSnapshots : RowTold(row)
<1>1. /\ "nodes" \in Words /\ "qemu" \in Words /\ "snapshot" \in Words /\ "rollback" \in Words
      /\ "config" \in Words /\ "template" \in Words /\ "qemu" \in NodeWords /\ ".node" \in Slots
  BY DEF Words, NodeWords, Slots, Fields
<1>2. RowTold(Lazy("VirtualMachine", "Snapshot", <<"nodes", ".node", "qemu", ".vmid", "snapshot",
             "<name>">>, {}, One("VirtualMachineSnapshot", ".node" :> ".node" @@ ".vmid" :> ".vmid" @@
             ".name" :> "<name>", Wired, "kept")))
  BY LazyThree, MayBeLacked, FieldsAreShut
<1> QED BY <1>1, <1>2, OtherCalls, CallTold, FieldsAreShut, NamesAreShut, Node5, Node6, Node7,
           Sealed5, WithoutSnapshot, WithoutSnapshotOf, WordsAreShut
        DEF GuestSnapshots, Get, Put, Post, Delete, Verbs

LEMMA GuestTunnelsTold == \A row \in GuestTunnels : RowTold(row)
<1>1. /\ "nodes" \in Words /\ "qemu" \in Words /\ "mtunnel" \in Words /\ "qemu" \in NodeWords
      /\ ".node" \in Slots
  BY DEF Words, NodeWords, Slots, Fields
<1> QED BY <1>1, OtherCalls, LazyData, CallTold, FieldsAreShut, NamesAreShut, Node5, Sealed5,
           WordsAreShut
        DEF GuestTunnels, Get, Post, Verbs

LEMMA AgentFactsTold == \A row \in AgentFacts : RowTold(row)
<1>1. /\ "nodes" \in Words /\ "qemu" \in Words /\ "agent" \in Words /\ "ping" \in Words
      /\ "qemu" \in NodeWords /\ ".node" \in Slots
  BY DEF Words, NodeWords, Slots, Fields
<1> QED BY <1>1, OtherCalls, CallTold, FieldsAreShut, NamesAreShut, Node5, Node6, Sealed5, Sealed6,
           WordsAreShut
        DEF AgentFacts, Get, Post, Verbs

LEMMA AgentCommandsTold == \A row \in AgentCommands : RowTold(row)
<1>1. /\ "nodes" \in Words /\ "qemu" \in Words /\ "agent" \in Words /\ "fsfreeze-freeze" \in Words
      /\ "fsfreeze-thaw" \in Words /\ "fsfreeze-status" \in Words /\ "fstrim" \in Words
      /\ "shutdown" \in Words /\ "suspend-disk" \in Words /\ "suspend-hybrid" \in Words
      /\ "suspend-ram" \in Words /\ "file-write" \in Words /\ "qemu" \in NodeWords /\ ".node" \in Slots
  BY DEF Words, NodeWords, Slots, Fields
<1> QED BY <1>1, OtherCalls, CallTold, FieldsAreShut, NamesAreShut, Node6, Sealed6, WordsAreShut
        DEF AgentCommands, Get, Post, Verbs

LEMMA CloudInitStateTold == \A row \in CloudInitState : RowTold(row)
<1>1. /\ "nodes" \in Words /\ "qemu" \in Words /\ "cloudinit" \in Words /\ "qemu" \in NodeWords
      /\ ".node" \in Slots
  BY DEF Words, NodeWords, Slots, Fields
<1> QED BY <1>1, OtherCalls, CallTold, FieldsAreShut, NamesAreShut, Node5, Sealed5, WordsAreShut
        DEF CloudInitState, Get, Put, Verbs

LEMMA GuestFirewallAliasesTold == \A row \in GuestFirewallAliases : RowTold(row)
<1>1. /\ "nodes" \in Words /\ "qemu" \in Words /\ "firewall" \in Words /\ "aliases" \in Words
      /\ "qemu" \in NodeWords /\ ".node" \in Slots
  BY DEF Words, NodeWords, Slots, Fields
<1> QED BY <1>1, OtherCalls, CallTold, FieldsAreShut, NamesAreShut, Node6, Node7, Sealed6,
           WithoutGuestEntry, WordsAreShut
        DEF GuestFirewallAliases, Get, Put, Post, Delete, Verbs

LEMMA ContainerPowerTold == \A row \in ContainerPower : RowTold(row)
<1>1. /\ "nodes" \in Words /\ "lxc" \in Words /\ "config" \in Words /\ "status" \in Words
      /\ "start" \in Words /\ "stop" \in Words /\ "suspend" \in Words /\ "reboot" \in Words
      /\ "resume" \in Words /\ "shutdown" \in Words /\ "termproxy" \in Words /\ "migrate" \in Words
      /\ "resize" \in Words /\ "move_volume" \in Words /\ "lxc" \in NodeWords /\ ".node" \in Slots
  BY DEF Words, NodeWords, Slots, Fields
<1> QED BY <1>1, OtherCalls, CallTold, FieldsAreShut, NamesAreShut, Node4, Node5, Node6, Sealed4,
           Sealed5, Sealed6, WordsAreShut
        DEF ContainerPower, Get, Put, Post, Delete, Dial, Verbs

LEMMA ContainerSnapshotsTold == \A row \in ContainerSnapshots : RowTold(row)
<1>1. /\ "nodes" \in Words /\ "lxc" \in Words /\ "template" \in Words /\ "vncproxy" \in Words
      /\ "snapshot" \in Words /\ "rollback" \in Words /\ "config" \in Words /\ "lxc" \in NodeWords
      /\ ".node" \in Slots
  BY DEF Words, NodeWords, Slots, Fields
<1>2. RowTold(Lazy("Container", "Snapshot", <<"nodes", ".node", "lxc", ".vmid", "snapshot", "<name>">>,
             {}, One("ContainerSnapshot", ".node" :> ".node" @@ ".vmid" :> ".vmid" @@ ".name" :>
             "<name>", Wired, "kept")))
  BY LazyThree, MayBeLacked, FieldsAreShut
<1> QED BY <1>1, <1>2, OtherCalls, CallTold, FieldsAreShut, NamesAreShut, Node5, Node6, Node7,
           Sealed5, WithoutSnapshot, WithoutSnapshotOf, WordsAreShut
        DEF ContainerSnapshots, Get, Put, Post, Delete, Verbs

LEMMA ContainerFirewallTold == \A row \in ContainerFirewall : RowTold(row)
<1>1. /\ "nodes" \in Words /\ "lxc" \in Words /\ "firewall" \in Words /\ "aliases" \in Words
      /\ "ipset" \in Words /\ "rules" \in Words /\ "options" \in Words /\ "lxc" \in NodeWords
      /\ ".node" \in Slots
  BY DEF Words, NodeWords, Slots, Fields
<1>2. \A s \in {"nodes", ".node", "lxc", ".vmid", "firewall", "aliases", "ipset", "rules", "options"} :
        Shut("Container", {}, s)
  BY <1>1, FieldsAreShut, NamesAreShut, WordsAreShut
<1>3. \A op, verb : \A s \in {"aliases", "ipset", "rules", "options"} :
        Told("Container", op, verb, {}, <<"nodes", ".node", "lxc", ".vmid", "firewall", s>>)
  BY <1>2, Sealed6
<1>4. \A op : \A verb \in {"PUT", "DELETE"} : \A s \in {"aliases", "ipset"} :
        Told("Container", op, verb, {}, <<"nodes", ".node", "lxc", ".vmid", "firewall", s, "<name>">>)
  BY <1>1, <1>2, WithoutGuestEntry
<1>5. Told("Container", "NewFirewallIPSetEntry", "POST", {},
           <<"nodes", ".node", "lxc", ".vmid", "firewall", "ipset", "<name>">>)
  BY NamedMethods7 DEF MembersOfASet
<1>6. Told("Container", "DeleteFirewallIPSetEntry", "DELETE", {},
           <<"nodes", ".node", "lxc", ".vmid", "firewall", "ipset", "<name>", "<cidr>">>)
  BY NamedMethods8 DEF MembersOfASet
<1>7. \A op : Told("Container", op, "PUT", {},
                   <<"nodes", ".node", "lxc", ".vmid", "firewall", "ipset", "<name>", "<cidr>">>)
  BY <1>2, WithoutGuestSetEntry
<1>8. RowTold(Lazy("Container", "FirewallRule", <<"nodes", ".node", "lxc", ".vmid", "firewall", "rules",
             "<pos>">>, {}, One("ContainerRule", ".node" :> ".node" @@ ".vmid" :> ".vmid" @@ ".pos" :>
             "<pos>", Wired, "kept")))
  BY LazyThree, NamesAreShut, FieldsAreShut
<1> QED BY <1>1, <1>3, <1>4, <1>5, <1>6, <1>7, <1>8, OtherCalls, CallTold, Node6, Node7, Node8
        DEF ContainerFirewall, Get, Put, Post, Delete, Verbs

LEMMA ContainerTunnelsTold == \A row \in ContainerTunnels : RowTold(row)
<1>1. /\ "nodes" \in Words /\ "lxc" \in Words /\ "remote_migrate" \in Words /\ "spiceproxy" \in Words
      /\ "mtunnel" \in Words /\ "lxc" \in NodeWords /\ ".node" \in Slots
  BY DEF Words, NodeWords, Slots, Fields
<1> QED BY <1>1, OtherCalls, LazyData, CallTold, FieldsAreShut, NamesAreShut, Node5, Sealed5,
           WordsAreShut
        DEF ContainerTunnels, Get, Post, Verbs

LEMMA AttachedRulesTold == \A row \in AttachedRules : RowTold(row)
<1>1. /\ "nodes" \in Words /\ "firewall" \in Words /\ "rules" \in Words /\ "qemu" \in Words
      /\ "lxc" \in Words /\ "firewall" \in NodeWords /\ "qemu" \in NodeWords /\ "lxc" \in NodeWords
      /\ "rules" \notin NodeWords /\ ".node" \in Slots
  BY DEF Words, NodeWords, Slots, Fields
<1> QED BY <1>1, OtherCalls, CallTold, FieldsAreShut, NamesAreShut, NoPath, Node5, Node7, Sealed7,
           SealedNone, WithoutNode5, WordsAreShut
        DEF AttachedRules, Get, Put, Delete, Verbs

\* The tables of each module.
LEMMA ApiAccessTold == \A row \in ApiAccessOps : RowTold(row)
BY AccessRealmsAndGroupsTold, AccessUsersAndRolesTold, AccessIndexesTold, AccessOpenIDTold, AccessTFATold,
   ResourcePoolsTold
DEF ApiAccessOps

LEMMA ApiClusterTold == \A row \in ApiClusterOps : RowTold(row)
BY ClusterCoreTold, CephStateTold, AcmeAccountsTold, AcmePluginsTold, BackupCoverageTold,
   BulkActionsTold, CephFlagsTold, ClusterConfigTold, ClusterIndexesTold, ClusterFirewallRulesTold,
   ClusterFirewallIPSetsTold, HaGroupsAndResourcesTold, HaRulesAndStatusTold, ClusterJobsTold,
   DirAndPciMappingsTold, UsbMappingsTold, MetricServersTold, ClusterLogTold,
   NotificationMatchersTold, NotificationEndpointsTold, NotificationRelaysTold,
   DatacenterOptionsTold, CpuModelsTold, ReplicationJobsTold, SdnVNetsAndZonesTold,
   SdnControllersTold, SdnDnsPluginsTold, SdnFabricsTold, SdnFabricNodesTold, SdnIpamsTold,
   SdnLockingTold, SdnPrefixListsTold, SdnPrefixListEntriesTold, SdnRouteMapsTold, VNetFirewallTold,
   VNetIPsTold, VNetSubnetsTold
DEF ApiClusterOps

LEMMA ApiNodeTold == \A row \in ApiNodeOps : RowTold(row)
BY NodeGuestsTold, NodeStoragesTold, NodeFirewallTold, NodeCertificatesTold, NodeServicesTold,
   NodeSubscriptionTold, NodeReplicationTold, NodeAdminTold, NodeLogsTold, NodeShellsTold,
   AptPackagesTold, NodeCapabilitiesTold, CephControlTold, CephConfigTold, CephMonsAndMgrsTold,
   CephMDSsTold, CephFileSystemsTold, CephOSDsTold, CephPoolsTold, NodeIndexesTold,
   DisksAndDirectoriesTold, VolumeGroupsTold, NodeDnsTold, NodeHardwareTold, NodeMetricsTold,
   NodeNetworksTold, StorageScansTold, NodeSdnTold, ClusterStoragesTold, StorageTransfersTold,
   StorageVolumesTold, StorageUpkeepTold, StorageContentsTold
DEF ApiNodeOps

LEMMA ApiGuestTold == \A row \in ApiGuestOps : RowTold(row)
BY GuestConfigTold, GuestPowerTold, GuestMigrationTold, GuestDisksTold, GuestAgentExecTold,
   GuestFirewallTold, GuestSnapshotsTold, GuestTunnelsTold, AgentFactsTold, AgentCommandsTold,
   CloudInitStateTold, GuestFirewallAliasesTold, ContainerPowerTold, ContainerSnapshotsTold,
   ContainerFirewallTold, ContainerTunnelsTold, AttachedRulesTold
DEF ApiGuestOps

\* Every method of the library, as far as it needs names.
LEMMA EveryRowIsTold == \A row \in Ops : RowTold(row)
BY ApiAccessTold, ApiClusterTold, ApiNodeTold, ApiGuestTold DEF Ops
-----------------------------------------------------------------------------
(***************************************************************************)
(* What is there.                                                          *)
(***************************************************************************)

\* The numbers among the arguments have the names of no fields.
LEMMA NumbersAreNoFields == \A s \in Numbers \cap Arguments : s \notin Fields
<1>1. \A s \in Numbers : s \in Arguments =>
          s \in {"<vmid>", "<pos>", "<rulepos>", "<seq>", "<order>", "<osdid>"}
  BY DEF Numbers, Arguments
<1>2. \A s \in {"<vmid>", "<pos>", "<rulepos>", "<seq>", "<order>", "<osdid>"} : s \notin Fields
  BY DEF Fields
<1> QED BY <1>1, <1>2

\* A zero and a name are not empty.
LEMMA ZeroIsThere == NoName # "0" /\ NoName \notin Names
BY NamesAssumption DEF NoName

\* A method that has not refused its call finds every element that is shut.
LEMMA ThereWhenSent ==
  ASSUME HandTyped, NamesInv, hand.state = "wired", NEW row, hand.kind = row.on,
         NEW args \in Choices(row), ~ Missing(row, args),
         NEW s, Shut(row.on, row.must, s), s \in Arguments => s \in Named(row)
  PROVE  Element(s, hand.keys, args) # NoName
<1>1. CASE s \in Words
  BY <1>1, WordsAreWords DEF Element, Slots
<1>2. CASE s \in Numbers \cap Arguments
  <2>1. Element(s, hand.keys, args) = args[s]
    BY <1>2, NumbersAreNoFields DEF Element
  <2>2. args[s] \in Names \cup {"0"}
    BY <1>2 DEF Choices, Values, Zero
  <2> QED BY <2>1, <2>2, ZeroIsThere
<1>3. CASE s \in row.must \ ({".client"} \cup Numbers)
  BY <1>3 DEF Missing, Zero
<1>4. CASE row.on \in Kinds /\ s \in Keys[row.on] /\ <<row.on, s>> \notin MayLack
  <2>1. s \in Fields
    BY <1>4, KeysAreFields
  <2> QED BY <1>4, <2>1 DEF NamesInv, Element
<1> QED BY <1>1, <1>2, <1>3, <1>4 DEF Shut

\* What such a method sends is what Sends says.
LEMMA SendsWhatIsThere ==
  ASSUME HandTyped, NamesInv, hand.state = "wired", NEW row, hand.kind = row.on,
         NEW args \in Choices(row), ~ Missing(row, args),
         Len(row.path) \in Nat, DOMAIN row.path = 1..Len(row.path)
  PROVE  Sends(row.on, row.must, row.path, Path(row, hand.keys, args))
<1> DEFINE sent == Path(row, hand.keys, args)
<1>1. /\ Len(sent) = Len(row.path) /\ DOMAIN sent = 1..Len(row.path)
      /\ \A i \in 1..Len(row.path) : sent[i] = Element(row.path[i], hand.keys, args)
  BY PathOf
<1>2. sent = [i \in 1..Len(row.path) |-> sent[i]]
  BY DEF Path
<1> HIDE DEF sent
<1>3. ASSUME NEW i \in 1..Len(row.path), row.path[i] \in Words
      PROVE  sent[i] = row.path[i]
  BY <1>1, <1>3, WordsAreWords DEF Element, Slots
<1>4. ASSUME NEW i \in 1..Len(row.path), sent[i] = NoName
      PROVE  ~ Shut(row.on, row.must, row.path[i])
  <2>1. row.path[i] \in Arguments => row.path[i] \in Named(row)
    BY DEF Named
  <2> QED BY <1>1, <1>4, <2>1, ThereWhenSent
<1>5. Sends(row.on, row.must, row.path, sent)
  BY <1>1, <1>2, <1>3, <1>4 DEF Sends
<1> QED BY <1>5 DEF sent

\* An object that the answer to an understood request may be about lacks no name.
LEMMA AboutNames ==
  ASSUME NEW kind \in Kinds, NEW sent, Len(sent) \in Nat, \A i \in 1..Len(sent) : sent[i] # NoName,
         NEW id \in About(kind, sent), NEW k \in Keys[kind]
  PROVE  id[k] # NoName
<1>1. PICK i \in DOMAIN Home[kind] : Home[kind][i] = k
  BY KeysAreFields
<1>2. k \in Fields /\ i \in Nat \ {0}
  BY KeysAreFields, HomesAreTuples
<1>3. (id[k] = sent[i] /\ i <= Len(sent)) \/ id[k] \in Values(k) \ {NoName}
  BY <1>1, <1>2 DEF About
<1> QED BY <1>2, <1>3

-----------------------------------------------------------------------------
(***************************************************************************)
(* A handle that has its client lacks no other name than those in MayLack. *)
(***************************************************************************)

\* The handle is kept, or the program gets a nil one.
LEMMA KeptNames == NamesInv /\ UNCHANGED hand => NamesInv'
BY DEF NamesInv

LEMMA NilNames ==
  ASSUME NEW row, NEW kind, TakeNil(row, kind)
  PROVE  NamesInv'
BY DEF TakeNil, NamesInv

\* A new handle, after a request that was understood.
LEMMA AnsweredNames ==
  ASSUME HandInv, NEW row, RowOK(row), Maker(row), hand.state = "wired", hand.kind = row.on,
         NEW args \in Choices(row), Understood(row, args),
         NEW id \in About(row.gives.kind, Path(row, meant, args)),
         NEW named, SureNames(row) \subseteq named, Take(row, args, id, named)
  PROVE  NamesInv'
<1> DEFINE kind == row.gives.kind
           sent == Path(row, hand.keys, args)
           new == NewKeys(row, args, id, named)
<1>1. hand'.kind = kind /\ hand'.keys = new /\ (hand'.state = "wired" => row.gives.wired)
  BY DEF Take
<1>2. CASE row.gives.wired
  <2>1. /\ kind \in Kinds /\ hand.keys = meant
        /\ Filled(row) \/ FilledButForPosition(row)
    BY <1>2 DEF RowOK, MakerOK, HandInv, KnowsIt
  <2>2. Filled(row) => new = id
    BY <2>1, KnowsItsObject, HomesAreTuples
  <2>3. FilledButForPosition(row) =>
          \A k \in Keys[kind] : new[k] = id[k] \/ new[k] \in Values("<pos>")
    BY <2>1, KnowsAllButThePosition, HomesAreTuples
  <2>4. NoName \notin Values("<pos>")
    BY ZeroIsThere DEF Values, Zero, Numbers
  <2>5. Len(row.path) \in Nat /\ DOMAIN row.path = 1..Len(row.path)
    BY <2>1 DEF Filled, Fills, FilledButForPosition
  <2>6. Len(sent) = Len(row.path) /\ \A i \in 1..Len(row.path) : sent[i] # NoName
    BY <2>5, PathOf DEF Understood
  <2>7. id \in About(kind, sent)
    BY <2>1
  <2> HIDE DEF new, sent, kind
  <2>8. \A k \in Keys[kind] : id[k] # NoName
    BY <2>1, <2>5, <2>6, <2>7, AboutNames
  <2> QED BY <1>1, <2>1, <2>2, <2>3, <2>4, <2>8 DEF NamesInv
<1>3. CASE ~ row.gives.wired
  BY <1>1, <1>3 DEF NamesInv
<1> QED BY <1>2, <1>3

\* A new handle, made without a request.
LEMMA MadeNames ==
  ASSUME HandTyped, HandInv, NamesInv, NEW row, RowOK(row), RowTold(row), hand.kind = row.on,
         NEW args \in Choices(row), Make(row, args)
  PROVE  NamesInv'
<1>1. Calls(row, args) /\ row.verb = "-" /\ hand.state # "nil" /\ ~ Missing(row, args)
  BY DEF Make, Calls
<1>2. CASE row.gives.form # "one"
  BY <1>2, KeptNames DEF Make, Kept
<1>3. CASE row.gives.form = "one"
  <2> DEFINE kind == row.gives.kind
  <2>1. PICK id \in About(kind, Path(row, meant, args)) : Take(row, args, id, {})
    BY <1>3 DEF Make
  <2> DEFINE new == NewKeys(row, args, id, {})
  <2>2. hand'.kind = kind /\ hand'.keys = new /\ (hand'.state = "wired" => row.gives.wired)
    BY <2>1 DEF Take
  <2>3. hand.state = "wired"
    BY <1>1, <1>3, MakersAreWired DEF Maker
  <2>4. ASSUME row.gives.wired, NEW k \in Keys[kind], new[k] = NoName
        PROVE  <<kind, k>> \in MayLack
    <3>1. kind \in Kinds /\ SureNames(row) = {} /\ (Filled(row) \/ FilledButForPosition(row))
      BY <1>1, <1>3, <2>4 DEF RowOK, MakerOK, Maker, SureNames
    <3>2. k \in DOMAIN row.gives.keys
      BY <2>4, <3>1, KeysAreFields DEF Filled, Fills, FilledButForPosition
    <3>3. new[k] = Element(row.gives.keys[k], hand.keys, args)
      BY <2>4, <3>2 DEF NewKeys
    <3> HIDE DEF new
    <3>4. row.gives.keys[k] \in Arguments => row.gives.keys[k] \in Named(row)
      BY <3>2 DEF Named
    <3>5. <<kind, k>> \in MayLack \/ Shut(row.on, row.must, row.gives.keys[k])
      BY <1>1, <1>3, <3>2 DEF RowTold, FillsIn
    <3> HIDE DEF kind
    <3> QED BY <1>1, <2>3, <2>4, <3>3, <3>4, <3>5, ThereWhenSent
  <2> HIDE DEF new, kind
  <2> QED BY <2>2, <2>4 DEF NamesInv
<1> QED BY <1>2, <1>3

\* Each way in which the server may answer.
LEMMA NotAuthorizedNames ==
  ASSUME HandTyped, HandInv, NamesInv, NEW row, RowOK(row), hand.kind = row.on,
         NEW args \in Choices(row), NotAuthorized(row, args)
  PROVE  NamesInv'
<1>1. Understood(row, args) /\ hand.state = "wired" /\ SureNames(row) = {}
  BY DEF NotAuthorized, Asks, SureNames
<1>2. CASE row.gives.form # "one"
  BY <1>2, KeptNames DEF NotAuthorized, Kept
<1>3. CASE row.gives.form = "one"
  <2>1. PICK id \in About(row.gives.kind, Path(row, meant, args)) : Take(row, args, id, {})
    BY <1>3 DEF NotAuthorized
  <2> QED BY <1>1, <1>3, <2>1, AnsweredNames DEF Maker
<1> QED BY <1>2, <1>3

LEMMA AnswerNullNames ==
  ASSUME HandTyped, HandInv, NamesInv, NEW row, RowOK(row), hand.kind = row.on,
         NEW args \in Choices(row), AnswerNull(row, args)
  PROVE  NamesInv'
<1>1. Understood(row, args) /\ hand.state = "wired"
  BY DEF AnswerNull, Asks
<1>2. CASE row.gives.null = "nil" /\ row.gives.form = "one"
  BY <1>2, NilNames DEF AnswerNull
<1>3. CASE row.gives.null = "nil" /\ row.gives.form = "task"
  BY <1>3, NilNames DEF AnswerNull
<1>4. CASE row.gives.null = "kept" /\ row.gives.form = "one"
  <2>1. PICK id \in About(row.gives.kind, Path(row, meant, args)) : Take(row, args, id, {})
    BY <1>4 DEF AnswerNull
  <2>2. SureNames(row) = {} /\ Maker(row)
    BY <1>4 DEF SureNames, Maker
  <2> QED BY <1>1, <2>1, <2>2, AnsweredNames
<1>5. CASE row.gives.form = "created"
  <2> DEFINE named == NamedByReply(row.gives.form, row.gives.kind)
  <2>1. PICK id \in About(row.gives.kind, Path(row, meant, args)) : Take(row, args, id, named)
    BY <1>5 DEF AnswerNull
  <2>2. SureNames(row) \subseteq named /\ Maker(row)
    BY <1>5 DEF SureNames, Maker
  <2> HIDE DEF named
  <2> QED BY <1>1, <2>1, <2>2, AnsweredNames
<1>6. CASE /\ ~ (row.gives.null = "nil" /\ row.gives.form \in {"one", "task"})
           /\ ~ (row.gives.null = "kept" /\ row.gives.form = "one") /\ row.gives.form # "created"
  BY <1>6, KeptNames DEF AnswerNull, Kept
<1> QED BY <1>2, <1>3, <1>4, <1>5, <1>6

LEMMA AnswerNames ==
  ASSUME HandTyped, HandInv, NamesInv, NEW row, RowOK(row), hand.kind = row.on,
         NEW args \in Choices(row), Answer(row, args)
  PROVE  NamesInv'
<1>1. Understood(row, args) /\ hand.state = "wired"
  BY DEF Answer, Asks
<1>2. CASE Maker(row)
  <2> DEFINE named == NamedByReply(row.gives.form, row.gives.kind)
  <2>1. PICK id \in About(row.gives.kind, Path(row, meant, args)) : Take(row, args, id, named)
    BY <1>2 DEF Answer, Maker
  <2>2. SureNames(row) \subseteq named
    BY DEF SureNames
  <2> HIDE DEF named
  <2> QED BY <1>1, <1>2, <2>1, <2>2, AnsweredNames
<1>3. CASE row.gives.form = "task"
  <2>1. PICK id \in [Keys["Task"] -> Names] :
           hand' = [kind |-> "Task", state |-> "wired", keys |-> id, maker |-> <<"none", "NewTask">>]
    BY <1>3 DEF Answer
  <2>2. \A k \in Keys["Task"] : id[k] # NoName
    BY ZeroIsThere
  <2> QED BY <2>1, <2>2 DEF NamesInv
<1>4. CASE ~ Maker(row) /\ row.gives.form # "task"
  BY <1>4, KeptNames DEF Answer, Maker, Kept
<1> QED BY <1>2, <1>3, <1>4

\* The client has no name to lack.
LEMMA NoKeys == Keys["Client"] = {}
<1>1. Home["Client"] = <<>> /\ "Client" \in Kinds
  BY DEF Home, Kinds
<1> QED BY <1>1 DEF Keys

LEMMA ClientNames ==
  ASSUME hand' = TheClient
  PROVE  NamesInv'
BY NoKeys DEF TheClient, NamesInv
-----------------------------------------------------------------------------
(***************************************************************************)
(* What a request without a name changes.                                  *)
(***************************************************************************)

\* The paths of the changing requests are told from one another by what Legible says.
LEMMA ChangesAre ==
  /\ DOMAIN Changes = Verbs /\ "-" \notin Verbs
  /\ \A verb \in Verbs : \A template \in Changes[verb] : Legible(verb, template)
<1>1. DOMAIN Changes = Verbs /\ "-" \notin Verbs
  BY DEF Changes, Verbs
<1>2. ASSUME NEW verb \in Verbs, NEW template \in Changes[verb]
      PROVE  Legible(verb, template)
  <2>1. PICK row \in Ops : row.verb = verb /\ row.path = template
    BY <1>1 DEF Changes
  <2> QED BY <2>1, EveryRowIsTold DEF RowTold
<1> QED BY <1>1, <1>2

\* A call that sends nothing changes nothing.
LEMMA SaidNothing == last'.verb = "-" => NamelessChangesNothingElse'
BY ChangesAre DEF NamelessChangesNothingElse

\* Nothing is sent by a call that is refused, or that crashes.
LEMMA NotSentIsNothing ==
  ASSUME NEW row, NEW outcome, NotSent(row, outcome)
  PROVE  last'.verb = "-"
<1>1. PICK none : none = NoCall
  OBVIOUS
<1>2. none.verb = "-" /\ DOMAIN none = {"op", "by", "verb", "sent", "intended", "outcome"}
  BY <1>1 DEF NoCall
<1>3. last' = [none EXCEPT !.op = row.op, !.by = row.on, !.outcome = outcome]
  BY <1>1 DEF NotSent
<1> QED BY <1>2, <1>3

\* A request that is sent without a name is none that changes something else.
LEMMA DoneChangesNothingElse ==
  ASSUME HandTyped, NamesInv, NEW row, RowTold(row), hand.kind = row.on, hand.state = "wired",
         NEW args \in Choices(row), ~ Missing(row, args), NEW outcome, Done(row, args, outcome)
  PROVE  NamelessChangesNothingElse'
<1> DEFINE sent == Path(row, hand.keys, args)
<1>1. last'.verb = row.verb /\ last'.by = row.on /\ last'.op = row.op /\ last'.sent = sent
  BY DEF Done
<1> HIDE DEF sent
<1>2. ASSUME row.verb \in Verbs, \E i \in DOMAIN sent : sent[i] = NoName
      PROVE  \/ <<row.on, row.op>> \in MembersOfASet \/ sent \in CephOfServices
             \/ \A template \in Changes[row.verb] : ~ Reads(sent, template)
  <2>1. Told(row.on, row.op, row.verb, row.must, row.path)
    BY <1>2 DEF RowTold
  <2>2. Sends(row.on, row.must, row.path, sent)
    BY <2>1, SendsWhatIsThere DEF Told, sent
  <2>3. \/ <<row.on, row.op>> \in MembersOfASet \/ sent \in CephOfServices
        \/ \A template : Legible(row.verb, template) => ~ Reads(sent, template)
    BY <1>2, <2>1, <2>2 DEF Told
  <2> QED BY <1>2, <2>3, ChangesAre
<1> QED BY <1>1, <1>2, ChangesAre DEF NamelessChangesNothingElse

\* One call of a method.
LEMMA CallKeepsNames ==
  ASSUME HandTyped, HandInv, NamesInv, NEW row \in Ops, hand.kind = row.on, NEW args \in Choices(row),
         \/ Refuse(row, args) \/ Crash(row, args)
         \/ Make(row, args) \/ Fail(row, args) \/ NotAuthorized(row, args)
         \/ AnswerNull(row, args) \/ Answer(row, args)
  PROVE  NamesInv' /\ NamelessChangesNothingElse'
<1>1. RowOK(row) /\ RowTold(row)
  BY EveryRowIsOK, EveryRowIsTold
<1>2. ASSUME NEW outcome, NotSent(row, outcome)
      PROVE  NamelessChangesNothingElse'
  BY <1>2, NotSentIsNothing, SaidNothing
<1>3. ASSUME Asks(row, args), NEW outcome, Done(row, args, outcome)
      PROVE  NamelessChangesNothingElse'
  BY <1>1, <1>3, DoneChangesNothingElse DEF Asks, Calls
<1>4. CASE Refuse(row, args)
  BY <1>2, <1>4, KeptNames DEF Refuse, Kept
<1>5. CASE Crash(row, args)
  BY <1>2, <1>5, KeptNames DEF Crash, Kept
<1>6. CASE Make(row, args)
  BY <1>1, <1>2, <1>6, MadeNames DEF Make
<1>7. CASE Fail(row, args)
  BY <1>3, <1>7, KeptNames DEF Fail, Kept
<1>8. CASE NotAuthorized(row, args)
  BY <1>1, <1>3, <1>8, NotAuthorizedNames DEF NotAuthorized
<1>9. CASE AnswerNull(row, args)
  BY <1>1, <1>3, <1>9, AnswerNullNames DEF AnswerNull
<1>10. CASE Answer(row, args)
  BY <1>1, <1>3, <1>10, AnswerNames DEF Answer
<1> QED BY <1>4, <1>5, <1>6, <1>7, <1>8, <1>9, <1>10

\* Every step keeps both the invariant and the property.
LEMMA NextKeepsNames ==
  IndInv /\ NamesInv /\ NamelessChangesNothingElse /\ [Next]_vars =>
      NamesInv' /\ NamelessChangesNothingElse'
<1> SUFFICES ASSUME IndInv, NamesInv, NamelessChangesNothingElse, [Next]_vars
             PROVE  NamesInv' /\ NamelessChangesNothingElse'
  OBVIOUS
<1>1. HandTyped /\ HandInv /\ hand.kind \in Kinds
  BY DEF IndInv, TypeOK, HandTyped
<1>2. CASE /\ last = NoCall
           /\ \E row \in OpsOf[hand.kind] : \E args \in Choices(row) :
                 \/ Refuse(row, args) \/ Crash(row, args)
                 \/ Make(row, args) \/ Fail(row, args) \/ NotAuthorized(row, args)
                 \/ AnswerNull(row, args) \/ Answer(row, args)
  <2>1. PICK row \in OpsOf[hand.kind] : \E args \in Choices(row) :
                 \/ Refuse(row, args) \/ Crash(row, args)
                 \/ Make(row, args) \/ Fail(row, args) \/ NotAuthorized(row, args)
                 \/ AnswerNull(row, args) \/ Answer(row, args)
    BY <1>2
  <2>2. row \in Ops /\ hand.kind = row.on
    BY <1>1 DEF OpsOf
  <2> QED BY <1>1, <2>1, <2>2, CallKeepsNames
<1>3. CASE GoOn \/ StartOver
  <2>1. last' = NoCall /\ (UNCHANGED hand \/ hand' = TheClient)
    BY <1>3 DEF GoOn, StartOver, Kept
  <2>2. last'.verb = "-"
    BY <2>1 DEF NoCall
  <2>3. NamelessChangesNothingElse'
    BY <2>2, SaidNothing
  <2>4. hand' = TheClient => NamesInv'
    BY ClientNames
  <2> QED BY <2>1, <2>3, <2>4, KeptNames
<1>4. CASE UNCHANGED vars
  BY <1>4, KeptNames DEF vars, NamelessChangesNothingElse
<1> QED BY <1>2, <1>3, <1>4 DEF Next

\* A program starts with its client, and no call.
LEMMA InitNames == Init => NamesInv /\ NamelessChangesNothingElse
<1> SUFFICES ASSUME Init PROVE NamesInv /\ NamelessChangesNothingElse
  OBVIOUS
<1>1. hand = TheClient /\ last.verb = "-"
  BY DEF Init, NoCall
<1>2. NamesInv
  BY <1>1, NoKeys DEF TheClient, NamesInv
<1>3. NamelessChangesNothingElse
  BY <1>1, ChangesAre DEF NamelessChangesNothingElse
<1> QED BY <1>2, <1>3

\* Only a handle that was made without a request lacks a name, and only a name that
\* the method which made it takes as it comes.
THEOREM NamesInvHolds == Spec => []NamesInv
BY InitNames, NextKeepsNames, InvariantHolds, PTL DEF Spec

\* Whatever methods are called on whatever handles, with whatever names missing: a
\* changing request whose name is missing is not the one that changes some other
\* object, but for the entries of an IP set and the service named ceph.
THEOREM NamelessChangesNothingElseHolds == Spec => []NamelessChangesNothingElse
BY InitNames, NextKeepsNames, InvariantHolds, PTL DEF Spec
=============================================================================
