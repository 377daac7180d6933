-------------------------------- MODULE Guest --------------------------------
(***************************************************************************)
(* The operations of a guest that take several requests                    *)
(* (virtual_machine.go): CloudInit, which uploads an ISO, tags the guest   *)
(* and mounts the ISO; Delete and UnmountCloudInitISO, which first look    *)
(* for that ISO on the storages; AddTag and RemoveTag, which write back    *)
(* cached tags; Clone, which first asks for an ID; and the polling of the  *)
(* guest agent.  A program makes one call at a time on one handle, which   *)
(* it may fetch again, or take from a list.                                *)
(*                                                                         *)
(* Between two requests of a call the server goes on: the tasks it has     *)
(* started end or drag on, an administrator enables and disables storages, *)
(* and other programs take IDs.  Any request may fail, before or after the *)
(* server has acted, and any may be answered with {"data":null}.           *)
(***************************************************************************)
EXTENDS Naturals, FiniteSets

CONSTANTS
    Storages,   \* the node's storages
    TakesISO,   \* those that accept "iso" content
    Ids,        \* the IDs a clone may get
    Programs,   \* the sets of operations that programs use
    NoStorage,  \* no storage
    NoId        \* the zero NewID

ASSUME StoragesAssumption == TakesISO \subseteq Storages
Ops == {"CloudInit", "Delete", "UnmountCloudInitISO", "AddTag", "RemoveTag", "Clone",
        "NewContainer", "WaitForAgent", "WaitForAgentExecExit"}

ASSUME ProgramsAssumption == Programs \subseteq SUBSET Ops
ASSUME NoneAssumption == NoStorage \notin Storages /\ NoId \notin Ids

VARIABLES
    guest,      \* server: "there" or "gone"
    tagged,     \* server: the guest has the tag cloud-init
    mounted,    \* server: the storage whose ISO the guest's device has
    isos,       \* server: the storages that hold the guest's ISO
    enabled,    \* server: the enabled storages
    uploads,    \* server: the storages with an upload task running
    removals,   \* server: the storages with a delete task running
    ids,        \* server: the IDs in use
    program,    \* the operations the program uses; it never changes
    handle,     \* what the program has cached: a config, and the tag in it
    params,     \* its clone options: their NewID; history: the guests made with them
    call        \* the call it is in

server == <<guest, tagged, mounted, isos, enabled, uploads, removals, ids>>
vars == <<server, program, handle, params, call>>

\* A call: the operation, its next step, the storage CloudInit uses, the
\* storage Delete looks at and those it has still to look at, how a task it waits
\* for has ended, whether the agent or the end of its command has arrived, the ID of a
\* new container, and what the call returned.  The rest is history, for the properties: the
\* storages the server listed as enabled for ISOs, those with a task running
\* at the start, whether the cached tag was wrong at the start, and whether a
\* task of the call has failed.
Idle == [op |-> "none", pc |-> "idle", storage |-> NoStorage, at |-> NoStorage, todo |-> {},
         ended |-> "running", arrived |-> FALSE, id |-> NoId, result |-> "none",
         listed |-> {}, busy |-> {}, stale |-> FALSE, failed |-> FALSE]

NoParams == [NewID |-> NoId, made |-> {}]

Fetched(tag) == [config |-> TRUE, tag |-> tag]

Init ==
    /\ guest = "there" /\ tagged = FALSE /\ mounted = NoStorage
    /\ isos = {} /\ enabled = Storages
    /\ uploads = {} /\ removals = {}
    /\ ids = {} /\ program \in Programs
    /\ handle = Fetched(FALSE) /\ params = NoParams
    /\ call = Idle

-----------------------------------------------------------------------------
(* The environment.                                                        *)

\* An upload task ends: the ISO is there, or the task has failed.
UploadEnds(s) ==
    /\ s \in uploads /\ uploads' = uploads \ {s}
    /\ \/ isos' = isos \cup {s} /\ UNCHANGED call
       \/ /\ isos' = isos
          /\ call' = [call EXCEPT !.failed = @ \/ (call.pc = "uploading" /\ call.storage = s)]
    /\ UNCHANGED <<guest, tagged, mounted, enabled, removals, ids, program, handle, params>>

\* A delete task ends; Delete learns how if it waits for that one.
RemovalEnds(s) ==
    /\ s \in removals /\ removals' = removals \ {s}
    /\ \E ok \in BOOLEAN :
          /\ isos' = IF ok THEN isos \ {s} ELSE isos
          /\ call' = IF call.pc = "removing" /\ call.at = s
                     THEN [call EXCEPT !.ended = IF ok THEN "ok" ELSE "failed"] ELSE call
    /\ UNCHANGED <<guest, tagged, mounted, enabled, uploads, ids, program, handle, params>>

SwitchStorage(s) ==
    /\ "CloudInit" \in program
    /\ enabled' = IF s \in enabled THEN enabled \ {s} ELSE enabled \cup {s}
    /\ UNCHANGED <<guest, tagged, mounted, isos, uploads, removals, ids, program, handle, params, call>>

\* Another program takes an ID, or deletes a guest and gives its ID back.
OtherGuest(id) ==
    /\ "Clone" \in program
    /\ ids' = IF id \in ids THEN ids \ {id} ELSE ids \cup {id}
    /\ UNCHANGED <<guest, tagged, mounted, isos, enabled, uploads, removals, program, handle, params, call>>

PolledForArrives ==
    /\ call.pc \in {"poll", "pause"} /\ ~ call.arrived
    /\ call' = [call EXCEPT !.arrived = TRUE]
    /\ UNCHANGED <<server, program, handle, params>>

-----------------------------------------------------------------------------
(* Requests.  Done of a changing request says whether the server acted; a  *)
(* request that fails may have been carried out, and its reply lost.       *)

Goto(pc) == call' = [call EXCEPT !.pc = pc]

Return(result) == call' = [call EXCEPT !.pc = "done", !.result = result]

\* A nil pointer is dereferenced: the program is gone.
Panic == call' = [call EXCEPT !.pc = "panic"]

Same == UNCHANGED <<program, handle, params>>
OnlyTheCall == UNCHANGED server /\ Same

-----------------------------------------------------------------------------
(* The program between its calls.                                          *)

\* Node.VirtualMachine and Ping read the guest's config anew.
Fetch ==
    /\ call = Idle /\ guest = "there"
    /\ handle' = Fetched(tagged) /\ UNCHANGED <<server, program, params, call>>

\* Node.VirtualMachines returns handles without a config.
List ==
    /\ call = Idle /\ guest = "there"
    /\ handle' = [config |-> FALSE, tag |-> FALSE] /\ UNCHANGED <<server, program, params, call>>

\* Fresh clone options instead of those of the last clone.
NewParams ==
    /\ call = Idle /\ params # NoParams /\ params' = NoParams /\ UNCHANGED <<server, program, handle, call>>

Begin(op, first) ==
    op \in program /\ call' = [Idle EXCEPT !.op = op, !.pc = first, !.busy = uploads \cup removals,
                         !.stale = handle.tag # tagged]

\* HasTag: without a config there is no tag.
HasTag == handle.config /\ handle.tag

\* Mutant: an ID is asked for in every call.
FirstCloneStepAnew == "cluster"

\* Without an ID of its own the clone asks for one.
FirstCloneStep == IF params.NewID = NoId THEN "cluster" ELSE "clone"

Call ==
    /\ call = Idle
    /\ \/ Begin("CloudInit", "node")
       \/ Begin("Delete", IF HasTag THEN "node" ELSE "destroy")
       \/ HasTag /\ Begin("UnmountCloudInitISO", "unplug")
       \/ Begin("AddTag", "tag")
       \/ Begin("RemoveTag", "untag")
       \/ Begin("Clone", FirstCloneStep)
       \/ Begin("NewContainer", "cluster")
       \/ Begin("WaitForAgent", "poll") \/ Begin("WaitForAgentExecExit", "poll")
    /\ OnlyTheCall

\* The program looks at the result and forgets the call.
LookAtResult == call.pc = "done" /\ call' = Idle /\ OnlyTheCall

\* Any read may fail, and any change may fail without effect.
Fail ==
    /\ call.pc \in {"node", "storage", "upload", "mount", "unplug", "storages", "listing",
                    "remove", "destroy", "cluster", "nextid", "clone", "create", "poll"}
    /\ Return("error") /\ OnlyTheCall

-----------------------------------------------------------------------------
(* CloudInit.                                                              *)

\* makeCloudInitISO and Client.Node, for which "not authorized" will do.
GetNode ==
    /\ call.pc = "node"
    /\ Goto(IF call.op = "CloudInit" THEN "storage" ELSE "storages")
    /\ OnlyTheCall

\* The enabled storages that take ISOs.  Which comes first is the server's choice.
ForISOs == enabled \cap TakesISO

\* resolveCloudInitStorage: the named storage, which must take ISOs (whether it
\* is enabled is not looked at), or Node.StorageISO's, the first one listed.
ResolveCloudInitStorage ==
    /\ call.pc = "storage" /\ OnlyTheCall
    /\ \/ \E s \in TakesISO : call' = [call EXCEPT !.pc = "upload", !.storage = s]
       \/ \E s \in ForISOs : call' = [call EXCEPT !.pc = "upload", !.storage = s]
       \/ ForISOs = {} /\ Return("error")

\* Storage.Upload starts a task; without a UPID in the reply the task is nil.
Upload ==
    /\ call.pc = "upload" /\ call.storage \in enabled
    /\ uploads' = uploads \cup {call.storage}
    /\ Goto("uploading") \/ Return("error") \/ Panic
    /\ UNCHANGED <<guest, tagged, mounted, isos, enabled, removals, ids>> /\ Same

\* Task.WaitFor(5): the task has stopped, however it ended, or the wait fails.
UploadWaited ==
    /\ call.pc = "uploading"
    /\ \/ call.storage \notin uploads /\ Goto("tag")
       \/ Return("error")
    /\ OnlyTheCall

\* The cached tags change first, then Config sends them.  The request may fail,
\* and so may the task it starts, for which nobody waits.
SetTags(tag, accepted) ==
    /\ handle' = [handle EXCEPT !.tag = tag]
    /\ tagged' \in IF guest = "there" THEN {tagged, tag} ELSE {tagged}
    /\ (guest = "there" /\ accepted) \/ Return("error")
    /\ UNCHANGED <<guest, mounted, isos, enabled, uploads, removals, ids, program, params>>

\* Mutant: CloudInit ignores every error of AddTag.
AddTagUnchecked ==
    /\ call.pc = "tag" /\ handle.config /\ Goto("mount")
    /\ handle' = [handle EXCEPT !.tag = TRUE] /\ tagged' \in {tagged, TRUE}
    /\ UNCHANGED <<guest, mounted, isos, enabled, uploads, removals, ids, program, params>>

\* CloudInit goes on when there is nothing to add.
AddTag ==
    /\ call.pc = "tag"
    /\ IF HasTag
       THEN (IF call.op = "AddTag" THEN Return("noop") ELSE Goto("mount")) /\ OnlyTheCall
       ELSE IF ~ handle.config THEN Panic /\ OnlyTheCall
       ELSE SetTags(TRUE, IF call.op = "AddTag" THEN Return("ok")
                          ELSE call' = [call EXCEPT !.pc = "mount", !.failed = @ \/ ~ tagged'])

RemoveTag ==
    /\ call.pc = "untag"
    /\ IF HasTag THEN SetTags(FALSE, Return("ok")) ELSE Return("noop") /\ OnlyTheCall

\* Config(device, boot), whose task is waited for with WaitFor(2): it returns
\* when the task has stopped, however it ended.
Mount ==
    /\ call.pc = "mount" /\ guest = "there"
    /\ \/ mounted' = call.storage /\ (Goto("mounting") \/ Return("error") \/ Panic)
       \/ mounted' = mounted /\ call' = [call EXCEPT !.pc = "mounting", !.failed = TRUE]
    /\ UNCHANGED <<guest, tagged, isos, enabled, uploads, removals, ids>> /\ Same

MountWaited ==
    /\ call.pc = "mounting" /\ (Return("ok") \/ Return("error")) /\ OnlyTheCall

-----------------------------------------------------------------------------
(* Delete and UnmountCloudInitISO: deleteCloudInitISO.                     *)

\* UnmountCloudInitISO's Config, whose task is not waited for.
Unplug ==
    /\ call.pc = "unplug" /\ guest = "there"
    /\ mounted' \in {NoStorage, mounted} /\ (Goto("node") \/ Return("error"))
    /\ UNCHANGED <<guest, tagged, isos, enabled, uploads, removals, ids>> /\ Same

\* Mutant: UnmountCloudInitISO goes on to the guest too.
ScannedByAny == [call EXCEPT !.pc = "destroy"]

\* The scan is over; only Delete goes on to the guest.
Scanned == IF call.op = "Delete" THEN [call EXCEPT !.pc = "destroy"]
           ELSE [call EXCEPT !.pc = "done", !.result = "ok"]

\* The list of storages, filtered; it may be null, which is an empty one.
ListStorages ==
    /\ call.pc = "storages" /\ OnlyTheCall
    /\ \/ call' = Scanned
       \/ \E s \in ForISOs : call' = [call EXCEPT !.pc = "lookup", !.listed = ForISOs,
                                               !.at = s, !.todo = ForISOs \ {s}]

\* Storage.ISO: the ISO is there; or it is not, or the lookup fails.
LookUp ==
    /\ call.pc = "lookup"
    /\ \/ call.at \in isos \cap enabled /\ Goto("remove")
       \/ Goto("listing")
    /\ OnlyTheCall

\* The next storage, if there is one.
GoOn ==
    \/ call.todo = {} /\ call' = Scanned
    \/ \E s \in call.todo : call' = [call EXCEPT !.pc = "lookup", !.at = s, !.todo = @ \ {s}]

\* Mutant: a failed lookup means that the ISO is not there (before v0.8.2).
GetContentSkipped ==
    /\ call.pc = "listing" /\ OnlyTheCall
    /\ GoOn

\* The lookup has failed, and the storage's content decides: without the ISO in
\* it, the next storage; a failure, no data, or the ISO, and the call fails.
GetContent ==
    /\ call.pc = "listing" /\ OnlyTheCall
    /\ \/ /\ call.at \in enabled \ isos
          /\ GoOn
       \/ Return("error")

\* ISO.Delete starts a task.
RemoveISO ==
    /\ call.pc = "remove" /\ call.at \in enabled
    /\ removals' = removals \cup {call.at}
    /\ call' = [call EXCEPT !.pc = "removing", !.ended = "running"] \/ Return("error") \/ Panic
    /\ UNCHANGED <<guest, tagged, mounted, isos, enabled, uploads, ids>> /\ Same

\* Task.WaitFor(5), and the task must have succeeded.
RemovalWaited ==
    /\ call.pc = "removing" /\ OnlyTheCall
    /\ \/ call.ended = "ok" /\ call' = Scanned
       \/ Return("error")

\* The guest's own DELETE.
Destroy ==
    /\ call.pc = "destroy" /\ guest = "there"
    /\ guest' = "gone" /\ (Return("ok") \/ Return("error"))
    /\ UNCHANGED <<tagged, mounted, isos, enabled, uploads, removals, ids>> /\ Same

-----------------------------------------------------------------------------
(* Clone, and Node.NewContainer without an ID.                             *)

GetCluster == call.pc = "cluster" /\ Goto("nextid") /\ OnlyTheCall

\* Cluster.NextID, which Clone keeps in the caller's options and NewContainer
\* for the call only.
NextID ==
    /\ call.pc = "nextid"
    /\ \E id \in Ids \ ids :
          IF call.op = "Clone" THEN params' = [params EXCEPT !.NewID = id] /\ Goto("clone")
          ELSE params' = params /\ call' = [call EXCEPT !.pc = "create", !.id = id]
    /\ UNCHANGED <<server, program, handle>>

\* The POST of a container, with the ID just asked for.
CreateContainer ==
    /\ call.pc = "create" /\ call.id \notin ids
    /\ ids' = ids \cup {call.id} /\ (Return("ok") \/ Return("error"))
    /\ UNCHANGED <<guest, tagged, mounted, isos, enabled, uploads, removals>> /\ Same

\* The server refuses an ID in use (Fail).
Clone ==
    /\ call.pc = "clone" /\ guest = "there" /\ params.NewID \notin ids
    /\ ids' = ids \cup {params.NewID}
    /\ params' = [params EXCEPT !.made = @ \cup {params.NewID}]
    /\ Return("ok") \/ Return("error")
    /\ UNCHANGED <<guest, tagged, mounted, isos, enabled, uploads, removals, program, handle>>

-----------------------------------------------------------------------------
(* WaitForAgent and WaitForAgentExecExit: the agent runs, or its command    *)
(* has exited; any other answer than "not yet" fails the call.             *)

Poll ==
    /\ call.pc = "poll"
    /\ IF call.arrived THEN Return("ok") ELSE Goto("pause")
    /\ OnlyTheCall

\* The select: a tick, or the timeout.
Tick == call.pc = "pause" /\ Goto("poll") /\ OnlyTheCall

\* Mutant: the select has no timeout.
TimeoutDropped == FALSE
Timeout == call.pc = "pause" /\ Return("timeout") /\ OnlyTheCall

-----------------------------------------------------------------------------
Step ==
    \/ Fail \/ GetNode \/ ResolveCloudInitStorage \/ Upload \/ UploadWaited \/ AddTag \/ RemoveTag
    \/ Mount \/ MountWaited \/ Unplug \/ ListStorages \/ LookUp \/ GetContent \/ RemoveISO
    \/ RemovalWaited \/ Destroy \/ GetCluster \/ NextID \/ Clone \/ CreateContainer
    \/ Poll \/ Tick \/ Timeout

Environment ==
    \/ \E s \in TakesISO : UploadEnds(s) \/ RemovalEnds(s) \/ SwitchStorage(s)
    \/ \E id \in Ids : OtherGuest(id)
    \/ PolledForArrives

Next == Fetch \/ List \/ NewParams \/ Call \/ LookAtResult \/ Step \/ Environment

Spec == Init /\ [][Next]_vars

\* The code between two requests runs on, and a select whose timeout has fired
\* does not take the tick for ever.
FairSpec == Spec /\ WF_vars(Step) /\ SF_vars(Timeout)
-----------------------------------------------------------------------------
Places == [none |-> {"idle"},
           CloudInit |-> {"node", "storage", "upload", "uploading", "tag", "mount", "mounting"},
           Delete |-> {"node", "storages", "lookup", "listing", "remove", "removing", "destroy"},
           UnmountCloudInitISO |-> {"unplug", "node", "storages", "lookup", "listing", "remove", "removing"},
           AddTag |-> {"tag"}, RemoveTag |-> {"untag"}, Clone |-> {"cluster", "nextid", "clone"},
           NewContainer |-> {"cluster", "nextid", "create"},
           WaitForAgent |-> {"poll", "pause"}, WaitForAgentExecExit |-> {"poll", "pause"}]

Everywhere == {"idle", "node", "storage", "upload", "uploading", "tag", "mount", "mounting",
               "storages", "lookup", "listing", "remove", "removing", "destroy", "unplug", "untag",
               "cluster", "nextid", "clone", "create", "poll", "pause", "done", "panic"}

Calls == [op : Ops \cup {"none"}, pc : Everywhere,
          storage : TakesISO \cup {NoStorage}, at : TakesISO \cup {NoStorage}, todo : SUBSET TakesISO,
          ended : {"running", "ok", "failed"}, arrived : BOOLEAN, id : Ids \cup {NoId},
          result : {"none", "ok", "noop", "error", "timeout"},
          listed : SUBSET TakesISO, busy : SUBSET TakesISO, stale : BOOLEAN, failed : BOOLEAN]

StateOK ==
    /\ guest \in {"there", "gone"} /\ tagged \in BOOLEAN /\ mounted \in TakesISO \cup {NoStorage}
    /\ isos \subseteq TakesISO /\ uploads \subseteq TakesISO /\ removals \subseteq TakesISO
    /\ enabled \subseteq Storages /\ ids \subseteq Ids /\ program \in Programs
    /\ handle \in [config : BOOLEAN, tag : BOOLEAN]
    /\ params \in [NewID : Ids \cup {NoId}, made : SUBSET Ids]

CallOK == call \in Calls /\ call.pc \in Places[call.op] \cup {"done", "panic"}

\* The variables have their types, and each operation keeps to its own steps:
\* unmounting an ISO never gets to the guest's DELETE (virtual_machine.go:1046).
TypeOK == StateOK /\ CallOK

\* deleteCloudInitISO (virtual_machine.go:478): before the DELETE of a guest
\* whose tag was seen, no storage that was listed still holds the guest's ISO,
\* whatever failed on the way, unless it comes after the one an ISO was
\* removed from, or had a task running when the call began.
NothingLeftBehind ==
    call.pc = "destroy" =>
        isos \cap call.listed \subseteq call.busy \cup call.todo

\* CloudInit (virtual_machine.go:236) reports a tag it could not set: after a
\* nil error the guest is tagged on the server, so that a later Delete finds
\* its ISO, unless the cached tag was wrong from the start, as a failed AddTag
\* leaves it, or a task failed, which CloudInit does not look at.
InitialisedGuestIsTagged ==
    (call.op = "CloudInit" /\ call.result = "ok") => tagged \/ call.stale \/ call.failed

\* CloudInit mounts an ISO that is there: the upload is waited for, and no
\* removal of an earlier call undoes it, unless one was still running.
NilMeansMounted ==
    (call.op = "CloudInit" /\ call.result = "ok" /\ ~ call.failed) =>
        mounted = call.storage /\ (call.storage \in isos \cup call.busy)

\* CloudInit's nil error: the guest can be found by its tag and boots from its ISO.
InitialisedMeansDone == InitialisedGuestIsTagged /\ NilMeansMounted

\* Clone keeps the ID it asked for in the caller's options (virtual_machine.go:626):
\* repeating a clone whose reply was lost makes no second guest.
RepeatMakesNoSecondGuest == Cardinality(params.made) <= 1

\* Every call returns, even when a task, a command or a storage never answers.
EveryCallReturns == call.pc \notin {"idle", "done"} ~> call.pc \in {"done", "panic"}

\* migration/v0.8.2.md:88: Delete removes the ISO of a guest that is tagged
\* from whichever storage holds it.
DeleteRemovesTheISO ==
    (call.op = "Delete" /\ call.result = "ok" /\ tagged /\ call.busy = {}) => isos \cap enabled = {}
-----------------------------------------------------------------------------
(* The inductive invariant of GuestProofs, checked by TLC.                 *)

\* An ID is at hand when it is sent, and a call that has a result is done.
AtHandInv ==
    /\ call.pc = "create" => call.id \in Ids
    /\ call.pc = "clone" => params.NewID \in Ids
    /\ call.result # "none" => call.pc = "done"

\* What the scan has left behind it holds no ISO; uploads are older than it.
ScanInv ==
    call.op \in {"Delete", "UnmountCloudInitISO"} =>
        /\ uploads \subseteq call.busy
        /\ call.pc \in {"unplug", "node", "storages"} => call.listed = {}
        /\ call.pc \in {"lookup", "listing", "remove", "removing"} =>
              isos \cap call.listed \subseteq call.busy \cup call.todo \cup {call.at}
        /\ call.pc = "removing" /\ call.ended = "ok" => call.at \notin isos \ call.busy
        /\ call.pc = "destroy" => isos \cap call.listed \subseteq call.busy \cup call.todo

\* CloudInit's cached tag is the server's until AddTag, and then the tag is set;
\* from the upload on the ISO is coming, from its end on it is there.
TagInv ==
    call.op = "CloudInit" =>
        /\ call.pc \in {"node", "storage", "upload", "uploading", "tag"} /\ ~ call.stale =>
              (handle.tag <=> tagged)
        /\ call.pc \in {"mount", "mounting"} \/ call.result = "ok" => tagged \/ call.stale \/ call.failed

UploadInv ==
    call.op = "CloudInit" =>
        /\ removals \subseteq call.busy
        /\ call.pc = "uploading" /\ ~ call.failed => call.storage \in uploads \cup isos \cup call.busy
        /\ (call.pc \in {"tag", "mount", "mounting"} \/ call.result = "ok") /\ ~ call.failed =>
              call.storage \in isos \cup call.busy
        /\ (call.pc = "mounting" \/ call.result = "ok") /\ ~ call.failed => mounted = call.storage

\* Clones are made with the ID that the options keep.
CloneInv ==
    /\ params.made \subseteq {params.NewID}
    /\ params.NewID = NoId => params.made = {}
    /\ call.op = "Clone" /\ call.pc \in {"cluster", "nextid"} => params.NewID = NoId

IndInv == TypeOK /\ AtHandInv /\ ScanInv /\ TagInv /\ UploadInv /\ CloneInv
=============================================================================
