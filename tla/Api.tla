--------------------------------- MODULE Api ---------------------------------
(***************************************************************************)
(* A program that holds one handle at a time and calls the methods of the  *)
(* request tables on it, in any order and with any arguments, against a    *)
(* server that answers, answers null, or fails.  A method that returns a   *)
(* handle, or a list of them, lets the program go on with the new one.     *)
(*                                                                         *)
(* meant is history: the object the handle was asked for.  The code keeps  *)
(* only the handle's own fields, and what it sends must come to the same.  *)
(***************************************************************************)
EXTENDS ApiAccess, ApiCluster, ApiNode, ApiGuest, FiniteSets, Naturals

CONSTANT Names      \* the names objects may have

Ops == ApiAccessOps \cup ApiClusterOps \cup ApiNodeOps \cup ApiGuestOps

ASSUME NamesAssumption == NoName \notin Names

\* The fields by which handles know their object.
Fields == {
    ".client", ".controller", ".cputype", ".dns", ".fabricid",
    ".groupid", ".group", ".id", ".iface", ".ipam", ".name",
    ".nodeid", ".node", ".order", ".osdid", ".poolid", ".poolname",
    ".pos", ".realm", ".roleid", ".routemapid", ".seq", ".storage",
    ".upid", ".userid", ".vmid", ".vnet", ".volid"}
\* Their arguments' names.
Arguments == {
    "<action>", "<authid>", "<cidr>", "<clustername>", "<code>",
    "<commands>", "<configkeys>", "<contact>", "<content>", "<controller>",
    "<cputype>", "<dev>", "<device>", "<devices>", "<disk>", "<dns>",
    "<ds>", "<fabric>", "<filename>", "<filepath>", "<fileurl>",
    "<fingerprint>", "<flag>", "<groupid>", "<hostname>", "<id>",
    "<iface>", "<ip>", "<ipam>", "<kind>", "<monid>", "<name>", "<node>",
    "<nodeid>", "<opts>", "<order>", "<osdid>", "<password>", "<path>",
    "<poolid>", "<portal>", "<pos>", "<prefix>", "<protocol>",
    "<raidlevel>", "<realm>", "<redirecturl>", "<reference>",
    "<reportedmodel>", "<resourcemode>", "<roleid>", "<routemapid>",
    "<rulepos>", "<schedule>", "<seq>", "<server>", "<service>", "<sid>",
    "<size>", "<sourcevolume>", "<state>", "<storage>", "<subnet>",
    "<target>", "<targetvolume>", "<tokenid>", "<type>", "<userid>",
    "<username>", "<vg>", "<vmid>", "<vncticket>", "<vnet>", "<vnetname>",
    "<volume>", "<volumegroup>", "<zone>"}

\* Fields and arguments that are numbers: they are never empty, only zero.
Numbers == {".vmid", ".pos", ".seq", ".order", ".osdid",
            "<vmid>", "<pos>", "<rulepos>", "<seq>", "<order>", "<osdid>"}

Zero(s) == IF s \in Numbers THEN "0" ELSE NoName
Values(s) == Names \cup {Zero(s)}
Anything == Names \cup {NoName, "0"}

-----------------------------------------------------------------------------
(* The server's side: where each kind of object lives, and what it says of *)
(* itself in a reply.                                                      *)

Home == [
    Client |-> <<>>,
    Domain |-> <<"access", "domains", ".realm">>,
    Group |-> <<"access", "groups", ".groupid">>,
    User |-> <<"access", "users", ".userid">>,
    Role |-> <<"access", "roles", ".roleid">>,
    Pool |-> <<"pools", ".poolid">>,
    Cluster |-> <<"cluster">>,
    Ceph |-> <<"cluster", "ceph">>,
    ClusterBackup |-> <<"cluster", "backup", ".id">>,
    Task |-> <<"nodes", ".node", "tasks", ".upid">>,
    FirewallSecurityGroup |-> <<"cluster", "firewall", "groups", ".group">>,
    LooseRule |-> <<"cluster", "firewall", "rules", ".pos">>,
    NodeRule |-> <<"nodes", ".node", "firewall", "rules", ".pos">>,
    GuestRule |-> <<"nodes", ".node", "qemu", ".vmid", "firewall", "rules", ".pos">>,
    ContainerRule |-> <<"nodes", ".node", "lxc", ".vmid", "firewall", "rules", ".pos">>,
    CustomCPUModel |-> <<"cluster", "qemu", "custom-cpu-models", ".cputype">>,
    SDNController |-> <<"cluster", "sdn", "controllers", ".controller">>,
    SDNDNS |-> <<"cluster", "sdn", "dns", ".dns">>,
    SDNFabric |-> <<"cluster", "sdn", "fabrics", "fabric", ".id">>,
    SDNFabricNode |-> <<"cluster", "sdn", "fabrics", "node", ".fabricid", ".nodeid">>,
    SDNIPAM |-> <<"cluster", "sdn", "ipams", ".ipam">>,
    SDNPrefixList |-> <<"cluster", "sdn", "prefix-lists", ".id">>,
    SDNPrefixListEntry |-> <<"cluster", "sdn", "prefix-lists", ".id", "entries", ".seq">>,
    SDNRouteMapEntry |-> <<"cluster", "sdn", "route-maps", "entries", ".routemapid", "entry", ".order">>,
    VNet |-> <<"cluster", "sdn", "vnets", ".name">>,
    VNetSubnet |-> <<"cluster", "sdn", "vnets", ".vnet", "subnets", ".id">>,
    Node |-> <<"nodes", ".node">>,
    VirtualMachine |-> <<"nodes", ".node", "qemu", ".vmid">>,
    VirtualMachineSnapshot |-> <<"nodes", ".node", "qemu", ".vmid", "snapshot", ".name">>,
    Container |-> <<"nodes", ".node", "lxc", ".vmid">>,
    ContainerSnapshot |-> <<"nodes", ".node", "lxc", ".vmid", "snapshot", ".name">>,
    Appliance |-> <<"nodes", ".node", "aplinfo">>,
    Storage |-> <<"nodes", ".node", "storage", ".storage">>,
    ISO |-> <<"nodes", ".node", "storage", ".storage", "content", ".volid">>,
    VzTmpl |-> <<"nodes", ".node", "storage", ".storage", "content", ".volid">>,
    Import |-> <<"nodes", ".node", "storage", ".storage", "content", ".volid">>,
    Backup |-> <<"nodes", ".node", "storage", ".storage", "content", ".volid">>,
    ClusterStorage |-> <<"storage", ".storage">>,
    NodeService |-> <<"nodes", ".node", "services", ".name">>,
    NodeNetwork |-> <<"nodes", ".node", "network", ".iface">>,
    NodeReplicationJob |-> <<"nodes", ".node", "replication", ".id">>,
    CephMon |-> <<"nodes", ".node", "ceph", "mon", ".name">>,
    CephMgr |-> <<"nodes", ".node", "ceph", "mgr", ".name">>,
    CephMDS |-> <<"nodes", ".node", "ceph", "mds", ".name">>,
    CephFS |-> <<"nodes", ".node", "ceph", "fs", ".name">>,
    CephOSD |-> <<"nodes", ".node", "ceph", "osd", ".osdid">>,
    CephPool |-> <<"nodes", ".node", "ceph", "pool", ".poolname">>,
    PCIDevice |-> <<"nodes", ".node", "hardware", "pci", ".id">>]

Kinds == DOMAIN Home
Keys == [kind \in Kinds |-> {s \in Fields : \E i \in DOMAIN Home[kind] : Home[kind][i] = s}]

\* A single object's reply usually says nothing of its name.  A list names
\* each item by the last name of its path; tasks, the nodes of a fabric, route
\* map entries and subnets are listed with all of them.  A new object has the
\* last name that the caller's argument gives it.
SelfNaming == {"VNet", "VirtualMachine", "Container", "Backup", "ClusterStorage"}
FullyListed == {"Task", "SDNFabricNode", "SDNRouteMapEntry", "VNetSubnet"}

LastKey(kind) ==
    LET at == {i \in DOMAIN Home[kind] : Home[kind][i] \in Fields}
    IN  {Home[kind][i] : i \in {j \in at : \A k \in at : k <= j}}

NamedByReply(form, kind) ==
    IF form = "one" /\ kind \notin SelfNaming THEN {}
    ELSE IF kind \in FullyListed THEN Keys[kind] ELSE LastKey(kind)

\* The objects of a kind that the answer to a request may be about: those
\* whose path agrees with the path of the request as far as both go.
About(kind, sent) ==
    LET fixed == {i \in DOMAIN Home[kind] : /\ Home[kind][i] \in Fields
                                            /\ i <= Len(sent)
                                            /\ \A j \in 1..i : Home[kind][j] \in Fields \cup {sent[j]}}
    IN  {id \in [Keys[kind] -> Anything] :
            \A i \in DOMAIN Home[kind] : Home[kind][i] \in Fields =>
                IF i \in fixed THEN id[Home[kind][i]] = sent[i]
                ELSE id[Home[kind][i]] \in Values(Home[kind][i]) \ {NoName}}
-----------------------------------------------------------------------------
VARIABLES
    hand,     \* the handle: its kind, "wired", "unwired" or "nil", its fields, and the method that made it
    meant,    \* history: the fields of the object it was asked for
    last      \* the last call: its method, request, the request it should have been, and outcome

vars == <<hand, meant, last>>

TheClient == [kind |-> "Client", state |-> "wired", keys |-> FromReply, maker |-> <<"none", "NewClient">>]
NoCall == [op |-> "none", by |-> "none", verb |-> "-", sent |-> <<>>, intended |-> <<>>, outcome |-> "ok"]

Init == hand = TheClient /\ meant = FromReply /\ last = NoCall

\* A path element, field or argument of a call on a handle with these keys.
Element(s, keys, args) ==
    IF s \in Fields THEN keys[s] ELSE IF s \in Arguments THEN args[s] ELSE s

Path(row, keys, args) == [i \in DOMAIN row.path |-> Element(row.path[i], keys, args)]

\* The call insists on a name that is missing, or on a client.
Missing(row, args) ==
    \E s \in row.must : IF s = ".client" THEN hand.state = "unwired"
                                          ELSE Element(s, hand.keys, args) = Zero(s)

Done(row, args, outcome) ==
    last' = [op |-> row.op, by |-> row.on, verb |-> row.verb, outcome |-> outcome,
             sent |-> Path(row, hand.keys, args), intended |-> Path(row, meant, args)]

NotSent(row, outcome) ==
    last' = [NoCall EXCEPT !.op = row.op, !.by = row.on, !.outcome = outcome]

Kept == UNCHANGED <<hand, meant>>

\* Mutant: a handle has only the fields the code fills in.
NewKeysUndecoded(row, args, id, named) ==
    [k \in DOMAIN row.gives.keys |-> Element(row.gives.keys[k], hand.keys, args)]

\* The fields of a new handle: those the code fills in, then those the reply has.
NewKeys(row, args, id, named) ==
    [k \in Keys[row.gives.kind] |->
        IF k \in DOMAIN row.gives.keys THEN Element(row.gives.keys[k], hand.keys, args)
        ELSE IF k \in named THEN id[k] ELSE Zero(k)]

Take(row, args, id, named) ==
    /\ hand' = [kind |-> row.gives.kind, state |-> IF row.gives.wired THEN hand.state ELSE "unwired",
                keys |-> NewKeys(row, args, id, named), maker |-> <<row.on, row.op>>]
    /\ meant' = id

TakeNil(row, kind) ==
    /\ hand' = [kind |-> kind, state |-> "nil", keys |-> [k \in Keys[kind] |-> Zero(k)],
                maker |-> <<row.on, row.op>>]
    /\ meant' = [k \in Keys[kind] |-> Zero(k)]
-----------------------------------------------------------------------------
Refuse(row, args) ==
    /\ hand.state # "nil" /\ Missing(row, args)
    /\ NotSent(row, IF row.silent THEN "nothing" ELSE "refused") /\ Kept

\* A method of a nil handle, or a request without a client.
Crash(row, args) ==
    /\ \/ hand.state = "nil"
       \/ hand.state = "unwired" /\ row.verb # "-" /\ ~ Missing(row, args)
    /\ NotSent(row, "crash") /\ Kept

Calls(row, args) == hand.state # "nil" /\ ~ Missing(row, args)
Asks(row, args) == Calls(row, args) /\ hand.state = "wired" /\ row.verb # "-"

\* The server has no object with an empty name: it drops the empty element.
Understood(row, args) == \A i \in DOMAIN row.path : Path(row, hand.keys, args)[i] # NoName

\* A handle made without a request.
Make(row, args) ==
    /\ Calls(row, args) /\ row.verb = "-"
    /\ NotSent(row, "ok")
    /\ IF row.gives.form = "one"
       THEN \E id \in About(row.gives.kind, Path(row, meant, args)) : Take(row, args, id, {})
       ELSE Kept

Fail(row, args) == Asks(row, args) /\ Done(row, args, "error") /\ Kept

\* "not authorized" is forgiven, and the handle lacks what the reply would say.
NotAuthorized(row, args) ==
    /\ Asks(row, args) /\ Understood(row, args) /\ row.tolerant
    /\ Done(row, args, "ok")
    /\ IF row.gives.form = "one"
       THEN \E id \in About(row.gives.kind, Path(row, meant, args)) : Take(row, args, id, {})
       ELSE Kept

\* {"data":null}
AnswerNull(row, args) ==
    /\ Asks(row, args) /\ Understood(row, args)
    /\ Done(row, args, CASE row.gives.null = "error" -> "error"
                         [] row.gives.null = "panic" -> "panic"
                         [] OTHER -> "ok")
    /\ CASE row.gives.null = "nil" /\ row.gives.form = "one" -> TakeNil(row, row.gives.kind)
         [] row.gives.null = "nil" /\ row.gives.form = "task" -> TakeNil(row, "Task")
         [] row.gives.null = "kept" /\ row.gives.form = "one" ->
                \E id \in About(row.gives.kind, Path(row, meant, args)) : Take(row, args, id, {})
         [] row.gives.form = "created" ->
                \E id \in About(row.gives.kind, Path(row, meant, args)) :
                    Take(row, args, id, NamedByReply(row.gives.form, row.gives.kind))
         [] OTHER -> Kept

Answer(row, args) ==
    /\ Asks(row, args) /\ Understood(row, args)
    /\ Done(row, args, "ok")
    /\ CASE row.gives.form \in {"one", "each", "found", "created"} ->
                \E id \in About(row.gives.kind, Path(row, meant, args)) :
                    Take(row, args, id, NamedByReply(row.gives.form, row.gives.kind))
         [] row.gives.form = "task" ->
                \E id \in [Keys["Task"] -> Names] :
                    /\ hand' = [kind |-> "Task", state |-> "wired", keys |-> id, maker |-> <<"none", "NewTask">>]
                    /\ meant' = id
         [] OTHER -> Kept

\* The call has returned: the program may go on with what it got, or with its
\* client again.
GoOn == last # NoCall /\ last' = NoCall /\ Kept
StartOver == last # NoCall /\ last' = NoCall /\ hand' = TheClient /\ meant' = FromReply

OpsOf == [kind \in Kinds |-> {row \in Ops : row.on = kind}]

Named(row) ==
    {s \in Arguments : \/ \E i \in DOMAIN row.path : row.path[i] = s
                       \/ s \in row.must
                       \/ \E k \in DOMAIN row.gives.keys : row.gives.keys[k] = s}

Choices(row) == {args \in [Named(row) -> Anything] : \A s \in Named(row) : args[s] \in Values(s)}

Next ==
    \/ /\ last = NoCall
       /\ \E row \in OpsOf[hand.kind] : \E args \in Choices(row) :
             \/ Refuse(row, args) \/ Crash(row, args)
             \/ Make(row, args) \/ Fail(row, args) \/ NotAuthorized(row, args)
             \/ AnswerNull(row, args) \/ Answer(row, args)
    \/ GoOn
    \/ StartOver

Spec == Init /\ [][Next]_vars
-----------------------------------------------------------------------------
\* Handles are of a known kind and have the fields of that kind, each a name,
\* empty or zero (the handles' struct types).
TypeOK ==
    /\ hand.kind \in Kinds /\ hand.state \in {"wired", "unwired", "nil"}
    /\ hand.keys \in [Keys[hand.kind] -> Anything]
    /\ meant \in [Keys[hand.kind] -> Anything]
    /\ last.outcome \in {"ok", "nothing", "refused", "error", "crash", "panic"}

\* The lists and getters that return handles without a client, and the getters
\* that return a nil handle without an error when the reply is null.
LeftUnwired == {<<"Node", "VzTmpls">>, <<"Node", "VzTmpl">>, <<"Cluster", "SDNSubnets">>}
MayBeNil == {<<"Node", "Network">>, <<"Cluster", "SDNVNet">>, <<"Node", "FirewallGetRule">>}

\* A method never dereferences a nil handle or a nil client, except on the
\* handles of those three and three methods, and on the task that a method
\* returns when the server started none (NewTask of an empty UPID).
HandlesReachTheServer ==
    last.outcome = "crash" =>
        \/ hand.state = "unwired" /\ hand.maker \in LeftUnwired
        \/ hand.state = "nil" /\ (hand.kind = "Task" \/ hand.maker \in MayBeNil)

\* The methods that leave in their argument the position that the caller put
\* there, which need not be where the server has put the rule they create.
KeepThePosition == {<<owner, "NewFirewallRule">> : owner \in {"Node", "VirtualMachine", "Container"}}

\* However a handle was come by (a list, a getter, a constructor, another
\* handle's method, or as the argument of a method that created its object),
\* every request of every method is about the object the handle was asked for:
\* no field is left empty, swapped or stale.  The requests of the handle of a
\* new firewall rule go to the firewall the rule was created on, but may go to
\* the position of another rule there (nodes.go:329-332 says that they route
\* correctly, and that the position is to be listed).  VirtualMachine.New, which
\* takes any node and number, is in no table.
RequestsNameTheirObject ==
    \/ last.sent = last.intended
    \/ /\ hand.maker \in KeepThePosition /\ DOMAIN last.sent = DOMAIN last.intended
       /\ \A i \in DOMAIN last.sent : last.sent[i] = last.intended[i] \/ Home[hand.kind][i] = ".pos"

\* The methods that write through the handle they have just decoded into
\* without looking whether the reply was null.
TrustTheReply == {<<"Client", "Domain">>, <<"Client", "Group">>, <<"Client", "User">>,
                  <<"Client", "ClusterStorage">>, <<"Node", "VirtualMachine">>,
                  <<"Node", "Container">>, <<"VirtualMachine", "Ping">>}

\* A reply of {"data":null} takes no other method down.
NullIsSurvived == last.outcome = "panic" => <<last.by, last.op>> \in TrustTheReply

\* A handle that a method returned without an error can be used: nothing
\* panics but what the two lists name.
NothingPanics == HandlesReachTheServer /\ NullIsSurvived

\* The paths of the requests that change something, by their verb.
Changes == [verb \in {"PUT", "POST", "DELETE"} |-> {row.path : row \in {r \in Ops : r.verb = verb}}]

\* The server drops the empty elements of a path: where an element comes to stand.
Place(path, i) == Cardinality({j \in 1..i : path[j] # NoName})

\* The path is read as a request of this template.
Reads(path, template) ==
    /\ Place(path, Len(path)) = Len(template)
    /\ \A i \in DOMAIN path : path[i] # NoName =>
          LET s == template[Place(path, i)]
          IN  IF s \in Fields \cup Arguments THEN path[i] \in Names \cup {"0"} ELSE path[i] = s

\* The entries of an IP set: without its name, an entry's path is the set's.
MembersOfASet ==
    {<<"Cluster", "NewFirewallIPSetEntry">>, <<"Cluster", "FirewallIPSetEntryDelete">>}
    \cup {<<guest, op>> : guest \in {"VirtualMachine", "Container"},
                          op \in {"NewFirewallIPSetEntry", "DeleteFirewallIPSetEntry"}}

\* A service named ceph, of a node without a name: Ceph itself, of a node named services.
CephOfServices == {<<"nodes", NoName, "services", "ceph", op>> : op \in {"start", "stop", "restart"}}

\* A changing request whose name is missing, from a handle never filled in or
\* an empty argument, is not the request that changes some other object, except
\* for those methods, where an empty entry deletes the whole IP set, and that service.
NamelessChangesNothingElse ==
    (last.verb \in DOMAIN Changes /\ \E i \in DOMAIN last.sent : last.sent[i] = NoName) =>
        \/ <<last.by, last.op>> \in MembersOfASet
        \/ last.sent \in CephOfServices
        \/ \A template \in Changes[last.verb] : ~ Reads(last.sent, template)
=============================================================================
