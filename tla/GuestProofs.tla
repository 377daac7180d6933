----------------------------- MODULE GuestProofs -----------------------------
(***************************************************************************)
(* Theorems about Guest, for any storages, IDs and programs.               *)
(***************************************************************************)
EXTENDS Guest, FiniteSetTheorems, TLAPS

(* Which operations have which steps. *)
LEMMA PlacesAre ==
  /\ Places["none"] = {"idle"}
  /\ Places["CloudInit"] = {"node", "storage", "upload", "uploading", "tag", "mount", "mounting"}
  /\ Places["Delete"] = {"node", "storages", "lookup", "listing", "remove", "removing", "destroy"}
  /\ Places["UnmountCloudInitISO"] =
        {"unplug", "node", "storages", "lookup", "listing", "remove", "removing"}
  /\ Places["AddTag"] = {"tag"} /\ Places["RemoveTag"] = {"untag"}
  /\ Places["Clone"] = {"cluster", "nextid", "clone"}
  /\ Places["NewContainer"] = {"cluster", "nextid", "create"}
  /\ Places["WaitForAgent"] = {"poll", "pause"} /\ Places["WaitForAgentExecExit"] = {"poll", "pause"}
BY DEF Places

(* The operations, one by one. *)
LEMMA OpsAre ==
  ASSUME NEW op \in Ops \cup {"none"}
  PROVE  op \in {"none", "CloudInit", "Delete", "UnmountCloudInitISO", "AddTag", "RemoveTag", "Clone",
                 "NewContainer", "WaitForAgent", "WaitForAgentExecExit"}
BY DEF Ops

(* A call whose failure is noted is a call still. *)
LEMMA MayFail ==
  ASSUME NEW c \in Calls, NEW failed \in BOOLEAN
  PROVE  [c EXCEPT !.failed = failed] \in Calls
BY DEF Calls

(* Its next step is noted as well. *)
LEMMA MayGoOn ==
  ASSUME NEW c \in Calls, NEW failed \in BOOLEAN, NEW place \in Everywhere
  PROVE  [c EXCEPT !.pc = place, !.failed = failed] \in Calls
BY DEF Calls

(* A step tells which operation is running. *)
LEMMA OpAt ==
  ASSUME CallOK
  PROVE  /\ call.pc = "node" => call.op \in {"CloudInit", "Delete", "UnmountCloudInitISO"}
         /\ call.pc \in {"storage", "upload", "uploading", "mount", "mounting"} => call.op = "CloudInit"
         /\ call.pc = "tag" => call.op \in {"CloudInit", "AddTag"}
         /\ call.pc = "untag" => call.op = "RemoveTag"
         /\ call.pc = "unplug" => call.op = "UnmountCloudInitISO"
         /\ call.pc \in {"storages", "lookup", "listing", "remove", "removing"} =>
               call.op \in {"Delete", "UnmountCloudInitISO"}
         /\ call.pc = "destroy" => call.op = "Delete"
         /\ call.pc \in {"cluster", "nextid"} => call.op \in {"Clone", "NewContainer"}
         /\ call.pc = "clone" => call.op = "Clone"
         /\ call.pc = "create" => call.op = "NewContainer"
         /\ call.pc \in {"poll", "pause"} => call.op \in {"WaitForAgent", "WaitForAgentExecExit"}
<1>1. call.op \in Ops \cup {"none"} /\ call.pc \in Places[call.op] \cup {"done", "panic"}
  BY DEF CallOK, Calls
<1>2. call.op \in {"none", "CloudInit", "Delete", "UnmountCloudInitISO", "AddTag", "RemoveTag", "Clone",
                   "NewContainer", "WaitForAgent", "WaitForAgentExecExit"}
  BY <1>1, OpsAre
<1> QED BY <1>1, <1>2, PlacesAre

(* A program begins with nothing uploaded, tagged or cloned. *)
LEMMA Initially == Init => IndInv
<1> SUFFICES ASSUME Init PROVE IndInv OBVIOUS
<1>1. Idle \in Calls
  BY DEF Idle, Calls, Everywhere
<1>2. Idle.pc \in Places[Idle.op]
  <2>1. Idle.pc = "idle" /\ Idle.op = "none"
    BY DEF Idle
  <2> QED BY <2>1, PlacesAre
<1>3. call \in Calls /\ call.pc \in Places[call.op]
  BY <1>1, <1>2 DEF Init
<1>4. params \in [NewID : Ids \cup {NoId}, made : SUBSET Ids]
  BY DEF Init, NoParams
<1>5. handle \in [config : BOOLEAN, tag : BOOLEAN]
  BY DEF Init, Fetched
<1>6. TypeOK
  BY <1>3, <1>4, <1>5 DEF Init, TypeOK, StateOK, CallOK
<1>7. AtHandInv /\ ScanInv /\ TagInv /\ UploadInv /\ CloneInv
  BY DEF Init, Idle, NoParams, AtHandInv, ScanInv, TagInv, UploadInv, CloneInv
<1> QED BY <1>6, <1>7 DEF IndInv

(* The ways a call goes on: to its next step, or to its end, and nothing   *)
(* else of it changes.                                                     *)
Rest ==
  /\ call'.op = call.op /\ call'.id = call.id /\ call'.storage = call.storage
  /\ call'.at = call.at /\ call'.todo = call.todo /\ call'.listed = call.listed
  /\ call'.busy = call.busy /\ call'.ended = call.ended
  /\ call'.stale = call.stale /\ call'.failed = call.failed

Moved(p) == CallOK' /\ call'.pc = p /\ call'.result = call.result /\ Rest

Ended(r) == CallOK' /\ call'.pc = "done" /\ call'.result = r /\ Rest

(* A call goes to its next step. *)
LEMMA Goes ==
  ASSUME CallOK, NEW p \in Everywhere, p \in Places[call.op] \cup {"panic"},
         Goto(p)
  PROVE  Moved(p)
BY DEF CallOK, Calls, Goto, Moved, Rest

(* A nil pointer ends the program. *)
LEMMA Panics == ASSUME CallOK, Panic PROVE Moved("panic")
<1>1. Goto("panic")
  BY DEF Panic, Goto
<1>2. "panic" \in Everywhere
  BY DEF Everywhere
<1> QED BY <1>1, <1>2, Goes

(* A call returns. *)
LEMMA Returns ==
  ASSUME CallOK, NEW r \in {"ok", "noop", "error", "timeout"}, Return(r)
  PROVE  Ended(r)
BY DEF CallOK, Calls, Return, Everywhere, Ended, Rest

(* A call that ends keeps the invariant, unless it is a CloudInit that      *)
(* reports success.                                                         *)
LEMMA EndsQuietly ==
  ASSUME IndInv, StateOK', CallOK', Rest, CloneInv',
         \/ call'.pc = "panic" /\ call'.result = call.result /\ call.pc # "done"
         \/ call'.pc = "done",
         call.op = "CloudInit" => call'.result # "ok" /\ removals' = removals,
         call.op \in {"Delete", "UnmountCloudInitISO"} => uploads' = uploads
  PROVE  IndInv'
<1> USE DEF IndInv
<1>1. TypeOK' /\ AtHandInv'
  BY DEF TypeOK, AtHandInv, Rest
<1>2. ScanInv'
  BY DEF ScanInv, Rest
<1>3. TagInv' /\ UploadInv'
  BY DEF AtHandInv, TagInv, UploadInv, Rest
<1> QED BY <1>1, <1>2, <1>3

(* The same of a step that changes nothing but the call. *)
LEMMA OnlyEnds ==
  ASSUME IndInv, OnlyTheCall, call.pc # "done",
         \/ Moved("panic") \/ Ended("error") \/ Ended("noop") \/ Ended("timeout")
         \/ call.op # "CloudInit" /\ Ended("ok")
  PROVE  IndInv'
<1>1. StateOK' /\ CloneInv'
  <2>1. StateOK'
    BY DEF IndInv, TypeOK, StateOK, OnlyTheCall, Same, server
  <2>2. CloneInv'
    BY DEF IndInv, CloneInv, OnlyTheCall, Same, Moved, Ended, Rest
  <2> QED BY <2>1, <2>2
<1>2. CallOK' /\ Rest
  BY DEF Moved, Ended
<1>3. UNCHANGED <<removals, uploads>>
  BY DEF OnlyTheCall, server
<1>4. \/ call'.pc = "panic" /\ call'.result = call.result
      \/ call'.pc = "done"
  BY DEF Moved, Ended
<1>5. call.op = "CloudInit" => call'.result # "ok"
  BY DEF Moved, Ended, IndInv, AtHandInv
<1> QED BY <1>1, <1>2, <1>3, <1>4, <1>5, EndsQuietly

(* The steps that read, or wait: only the call goes on. *)
LEMMA OnlyTheCallGoesOn ==
  ASSUME IndInv, OnlyTheCall,
         \/ Fail \/ GetNode \/ UploadWaited \/ MountWaited \/ LookUp \/ GetCluster
         \/ Poll \/ Tick \/ Timeout
  PROVE  IndInv'
<1> USE DEF Everywhere
<1>0. CallOK /\ TypeOK
  BY DEF IndInv, TypeOK
<1>1. StateOK'
  BY DEF IndInv, TypeOK, StateOK, OnlyTheCall, Same, server
<1>2. ASSUME NEW p, Moved(p),
             \/ call.pc = "node" /\ call.op = "CloudInit" /\ p = "storage"
             \/ call.pc = "node" /\ call.op # "CloudInit" /\ p = "storages"
             \/ call.pc = "uploading" /\ call.storage \notin uploads /\ p = "tag"
             \/ call.pc = "lookup" /\ p \in {"remove", "listing"}
             \/ call.pc = "cluster" /\ p = "nextid"
             \/ call.pc = "poll" /\ p = "pause"
             \/ call.pc = "pause" /\ p = "poll"
      PROVE  IndInv'
  <2> USE DEF IndInv, Moved, Rest, OnlyTheCall, Same, server
  <2>1. TypeOK' /\ AtHandInv' /\ CloneInv'
    BY <1>1, <1>2 DEF TypeOK, AtHandInv, CloneInv
  <2>2. ScanInv'
    BY <1>0, <1>2, OpAt DEF ScanInv
  <2>3. TagInv'
    BY <1>0, <1>2, OpAt DEF TagInv, AtHandInv
  <2>4. UploadInv'
    BY <1>0, <1>2, OpAt DEF UploadInv, AtHandInv
  <2> QED BY <2>1, <2>2, <2>3, <2>4
<1>3. CASE Fail
  <2>1. Ended("error")
    BY <1>0, <1>3, Returns DEF Fail
  <2> QED BY <1>3, <2>1, OnlyEnds DEF Fail
<1>4. CASE GetNode
  <2>1. CASE call.op = "CloudInit"
    <3>1. Moved("storage")
      BY <1>0, <1>4, <2>1, Goes, PlacesAre DEF GetNode
    <3> QED BY <1>2, <1>4, <2>1, <3>1 DEF GetNode
  <2>2. CASE call.op # "CloudInit"
    <3>1. Moved("storages")
      BY <1>0, <1>4, <2>2, Goes, OpAt, PlacesAre DEF GetNode
    <3> QED BY <1>2, <1>4, <2>2, <3>1 DEF GetNode
  <2> QED BY <2>1, <2>2
<1>5. CASE UploadWaited
  <2>1. call.op = "CloudInit" /\ call.pc = "uploading"
    BY <1>0, <1>5, OpAt DEF UploadWaited
  <2>2. \/ call.storage \notin uploads /\ Moved("tag")
        \/ Ended("error")
    BY <1>0, <1>5, <2>1, Goes, Returns, PlacesAre DEF UploadWaited
  <2> QED BY <1>2, <2>1, <2>2, OnlyEnds
<1>6. CASE MountWaited
  <2>1. call.op = "CloudInit" /\ call.pc = "mounting"
    BY <1>0, <1>6, OpAt DEF MountWaited
  <2>2. Ended("ok") \/ Ended("error")
    BY <1>0, <1>6, Returns DEF MountWaited
  <2>3. CASE Ended("ok")
    BY <1>1, <2>1, <2>3 DEF IndInv, TypeOK, AtHandInv, ScanInv, TagInv, UploadInv, CloneInv,
       Ended, Rest, OnlyTheCall, Same, server
  <2> QED BY <2>1, <2>2, <2>3, OnlyEnds
<1>7. CASE LookUp
  <2>1. Moved("remove") \/ Moved("listing")
    BY <1>0, <1>7, Goes, OpAt, PlacesAre DEF LookUp
  <2> QED BY <1>2, <1>7, <2>1 DEF LookUp
<1>8. CASE GetCluster
  <2>1. Moved("nextid")
    BY <1>0, <1>8, Goes, OpAt, PlacesAre DEF GetCluster
  <2> QED BY <1>2, <1>8, <2>1 DEF GetCluster
<1>9. CASE Poll
  <2>1. call.op # "CloudInit" /\ call.pc = "poll"
    BY <1>0, <1>9, OpAt DEF Poll
  <2>2. Ended("ok") \/ Moved("pause")
    BY <1>0, <1>9, Goes, Returns, OpAt, PlacesAre DEF Poll
  <2> QED BY <1>2, <2>1, <2>2, OnlyEnds
<1>10. CASE Tick
  <2>1. Moved("poll")
    BY <1>0, <1>10, Goes, OpAt, PlacesAre DEF Tick
  <2> QED BY <1>2, <1>10, <2>1 DEF Tick
<1>11. CASE Timeout
  <2>1. Ended("timeout")
    BY <1>0, <1>11, Returns DEF Timeout
  <2> QED BY <1>11, <2>1, OnlyEnds DEF Timeout
<1> QED BY <1>3, <1>4, <1>5, <1>6, <1>7, <1>8, <1>9, <1>10, <1>11

(* CloudInit: the storage is chosen, the ISO uploaded, the tag added, the  *)
(* ISO mounted.                                                            *)
LEMMA CloudInitGoesOn ==
  ASSUME IndInv, ResolveCloudInitStorage \/ Upload \/ Mount
  PROVE  IndInv'
<1> USE DEF Everywhere
<1>0. CallOK /\ TypeOK /\ StateOK /\ CloneInv
  BY DEF IndInv, TypeOK
<1>1. CASE ResolveCloudInitStorage
  <2>1. call.op = "CloudInit" /\ call.pc = "storage" /\ OnlyTheCall
    BY <1>0, <1>1, OpAt DEF ResolveCloudInitStorage
  <2>2. CASE Return("error")
    BY <1>0, <2>1, <2>2, Returns, OnlyEnds
  <2>3. ASSUME NEW s \in TakesISO, call' = [call EXCEPT !.pc = "upload", !.storage = s]
        PROVE  IndInv'
    <3>1. CallOK' /\ call'.pc = "upload" /\ call'.op = "CloudInit" /\ call'.result = call.result
      BY <1>0, <2>1, <2>3, PlacesAre DEF CallOK, Calls
    <3>2. call'.stale = call.stale /\ call'.failed = call.failed /\ call'.busy = call.busy
      BY <1>0, <2>3 DEF CallOK, Calls
    <3> QED BY <1>0, <2>1, <3>1, <3>2 DEF IndInv, TypeOK, StateOK, AtHandInv, ScanInv, TagInv,
               UploadInv, CloneInv, OnlyTheCall, Same, server
  <2> QED BY <1>1, <2>2, <2>3 DEF ResolveCloudInitStorage, ForISOs
<1>2. CASE Upload
  <2>1. call.op = "CloudInit" /\ call.pc = "upload"
    BY <1>0, <1>2, OpAt DEF Upload
  <2>2. Moved("uploading") \/ Ended("error") \/ Moved("panic")
    BY <1>0, <1>2, <2>1, Goes, Returns, Panics, PlacesAre DEF Upload
  <2>3. StateOK'
    <3>1. call.storage \in TakesISO
      BY <1>0, <1>2, NoneAssumption DEF Upload, CallOK, Calls, StateOK
    <3> QED BY <1>0, <1>2, <3>1 DEF Upload, StateOK, Same
  <2>4. CloneInv'
    BY <1>0, <1>2, <2>1, <2>2 DEF Upload, CloneInv, Same, Moved, Ended, Rest
  <2>5. CASE Moved("uploading")
    BY <1>2, <2>1, <2>3, <2>4, <2>5 DEF IndInv, TypeOK, AtHandInv, ScanInv, TagInv, UploadInv,
       Upload, Same, Moved, Rest
  <2>6. CASE Ended("error") \/ Moved("panic")
    BY <1>2, <2>1, <2>3, <2>4, <2>6, EndsQuietly DEF Upload, Moved, Ended, IndInv, AtHandInv
  <2> QED BY <2>2, <2>5, <2>6
<1>3. CASE Mount
  <2>1. call.op = "CloudInit" /\ call.pc = "mount"
    BY <1>0, <1>3, OpAt DEF Mount
  <2>2. StateOK'
    BY <1>0, <1>3 DEF Mount, StateOK, CallOK, Calls, Same
  <2>3. CASE mounted' = call.storage /\ (Goto("mounting") \/ Return("error") \/ Panic)
    <3>1. Moved("mounting") \/ Ended("error") \/ Moved("panic")
      BY <1>0, <2>1, <2>3, Goes, Returns, Panics, PlacesAre
    <3>2. CloneInv'
      BY <1>0, <1>3, <2>1, <3>1 DEF Mount, CloneInv, Same, Moved, Ended, Rest
    <3>3. CASE Moved("mounting")
      BY <1>3, <2>1, <2>2, <2>3, <3>2, <3>3 DEF IndInv, TypeOK, AtHandInv, ScanInv, TagInv, UploadInv,
         Mount, Same, Moved, Rest
    <3>4. CASE Ended("error") \/ Moved("panic")
      BY <1>3, <2>1, <2>2, <3>2, <3>4, EndsQuietly DEF Mount, Moved, Ended, IndInv, AtHandInv
    <3> QED BY <3>1, <3>3, <3>4
  <2>4. CASE mounted' = mounted /\ call' = [call EXCEPT !.pc = "mounting", !.failed = TRUE]
    <3>1. CallOK' /\ call'.pc = "mounting" /\ call'.op = "CloudInit" /\ call'.result = call.result
      BY <1>0, <2>1, <2>4, PlacesAre DEF CallOK, Calls
    <3>2. call'.failed /\ call'.busy = call.busy
      BY <1>0, <2>4 DEF CallOK, Calls
    <3> QED BY <1>0, <1>3, <2>1, <2>2, <3>1, <3>2 DEF IndInv, TypeOK, AtHandInv, ScanInv, TagInv, UploadInv,
               CloneInv, Mount, Same
  <2> QED BY <1>3, <2>3, <2>4 DEF Mount
<1> QED BY <1>1, <1>2, <1>3

(* The tags: the cached one changes first, whatever becomes of the request. *)
LEMMA TagsGoOn ==
  ASSUME IndInv, AddTag \/ RemoveTag
  PROVE  IndInv'
<1> USE DEF Everywhere
<1>0. CallOK /\ TypeOK /\ StateOK /\ CloneInv
  BY DEF IndInv, TypeOK
<1>1. call.pc \in {"tag", "untag"} /\ call.op \in {"CloudInit", "AddTag", "RemoveTag"}
  BY <1>0, OpAt DEF AddTag, RemoveTag
<1>2. ASSUME NEW t \in BOOLEAN, handle' = [handle EXCEPT !.tag = t], tagged' \in BOOLEAN,
             UNCHANGED <<guest, mounted, isos, enabled, uploads, removals, ids, program, params>>
      PROVE  StateOK' /\ (handle'.tag <=> t)
  BY <1>0, <1>2 DEF StateOK
<1>3. ASSUME StateOK', UNCHANGED <<mounted, isos, uploads, removals, params>>,
             Ended("error") \/ (Ended("ok") /\ call.op # "CloudInit")
      PROVE  IndInv'
  <2>1. CloneInv'
    BY <1>0, <1>1, <1>3 DEF CloneInv, Ended, Rest
  <2> QED BY <1>1, <1>3, <2>1, EndsQuietly DEF Ended
<1>4. CASE RemoveTag
  <2>1. CASE HasTag
    <3>1. SetTags(FALSE, Return("ok")) /\ call.op = "RemoveTag"
      BY <1>0, <1>4, <2>1, OpAt DEF RemoveTag
    <3>2. /\ StateOK' /\ UNCHANGED <<mounted, isos, uploads, removals, params>>
          /\ Return("ok") \/ Return("error")
      <4>1. tagged' \in BOOLEAN
        BY <1>0, <3>1 DEF SetTags, StateOK
      <4> QED BY <1>2, <3>1, <4>1 DEF SetTags
    <3>3. Ended("ok") \/ Ended("error")
      BY <1>0, <3>2, Returns
    <3> QED BY <1>3, <3>1, <3>2, <3>3
  <2>2. CASE ~ HasTag
    BY <1>0, <1>1, <1>4, <2>2, Returns, OnlyEnds DEF RemoveTag
  <2> QED BY <2>1, <2>2
<1>5. CASE AddTag
  <2>1. call.pc = "tag" /\ call.op \in {"CloudInit", "AddTag"}
    BY <1>0, <1>5, OpAt DEF AddTag
  <2>2. CASE HasTag /\ call.op = "AddTag"
    BY <1>0, <1>1, <1>5, <2>2, Returns, OnlyEnds DEF AddTag
  <2>3. CASE HasTag /\ call.op = "CloudInit"
    <3>1. Goto("mount") /\ OnlyTheCall
      BY <1>5, <2>3 DEF AddTag
    <3>2. Moved("mount")
      BY <1>0, <2>3, <3>1, Goes, PlacesAre
    <3> QED BY <1>0, <2>1, <2>3, <3>1, <3>2 DEF IndInv, TypeOK, StateOK, AtHandInv, ScanInv, TagInv,
               UploadInv, CloneInv, HasTag, OnlyTheCall, Same, server, Moved, Rest
  <2>4. CASE ~ HasTag /\ ~ handle.config
    BY <1>0, <1>1, <1>5, <2>4, Panics, OnlyEnds DEF AddTag
  <2>5. CASE ~ HasTag /\ handle.config
    <3>1. /\ handle' = [handle EXCEPT !.tag = TRUE] /\ tagged' \in BOOLEAN
          /\ UNCHANGED <<guest, mounted, isos, enabled, uploads, removals, ids, program, params>>
      BY <1>0, <1>5, <2>5 DEF AddTag, SetTags, StateOK
    <3>2. StateOK'
      BY <1>2, <3>1
    <3>3. CASE Return("error") \/ (call.op = "AddTag" /\ Return("ok"))
      BY <1>0, <1>3, <2>1, <3>1, <3>2, <3>3, Returns
    <3>4. CASE /\ call.op = "CloudInit"
               /\ call' = [call EXCEPT !.pc = "mount", !.failed = @ \/ ~ tagged']
      <4>0. call' \in Calls
        <5>1. (call.failed \/ ~ tagged') \in BOOLEAN /\ "mount" \in Everywhere
          BY <1>0 DEF CallOK, Calls
        <5> QED BY <1>0, <3>4, <5>1, MayGoOn DEF CallOK
      <4>1. CallOK' /\ call'.pc = "mount" /\ call'.op = "CloudInit" /\ call'.result = call.result
        <5>1. call'.pc = "mount" /\ call'.op = call.op /\ call'.result = call.result
          BY <1>0, <3>4 DEF CallOK, Calls
        <5> QED BY <3>4, <4>0, <5>1, PlacesAre DEF CallOK
      <4>2. call'.busy = call.busy /\ call'.storage = call.storage
        BY <1>0, <3>4 DEF CallOK, Calls
      <4>3. call'.failed <=> call.failed \/ ~ tagged'
        BY <1>0, <3>4 DEF CallOK, Calls
      <4> QED BY <1>0, <2>1, <3>1, <3>2, <3>4, <4>1, <4>2, <4>3 DEF IndInv, TypeOK, AtHandInv, ScanInv, TagInv,
                 UploadInv, CloneInv
    <3> QED BY <1>5, <2>1, <2>5, <3>3, <3>4 DEF AddTag, SetTags
  <2> QED BY <2>1, <2>2, <2>3, <2>4, <2>5
<1> QED BY <1>4, <1>5

(* Delete and UnmountCloudInitISO: what the scan has passed holds no ISO.  *)
LEMMA ScanGoesOn ==
  ASSUME IndInv, Unplug \/ ListStorages \/ GetContent \/ RemoveISO \/ RemovalWaited \/ Destroy
  PROVE  IndInv'
<1> USE DEF Everywhere
<1>0. CallOK /\ TypeOK /\ StateOK /\ CloneInv
  BY DEF IndInv, TypeOK
<1>1. call.op \in {"Delete", "UnmountCloudInitISO"} /\ call.pc # "done"
  BY <1>0, OpAt DEF Unplug, ListStorages, GetContent, RemoveISO, RemovalWaited, Destroy
(* The end of a scan that has left no ISO behind. *)
<1>2. ASSUME OnlyTheCall, call' = Scanned,
             call.op = "Delete" => isos \cap call.listed \subseteq call.busy \cup call.todo
      PROVE  IndInv'
  <2>1. CASE call.op = "Delete"
    <3>1. Goto("destroy")
      BY <1>2, <2>1 DEF Scanned, Goto
    <3>2. Moved("destroy")
      BY <1>0, <2>1, <3>1, Goes, PlacesAre
    <3> QED BY <1>0, <1>1, <1>2, <2>1, <3>2 DEF IndInv, TypeOK, StateOK, AtHandInv, ScanInv, TagInv,
               UploadInv, CloneInv, OnlyTheCall, Same, server, Moved, Rest
  <2>2. CASE call.op # "Delete"
    <3>1. Return("ok")
      BY <1>2, <2>2 DEF Scanned, Return
    <3> QED BY <1>0, <1>1, <1>2, <3>1, Returns, OnlyEnds
  <2> QED BY <2>1, <2>2
<1>3. CASE Unplug
  <2>1. call.op = "UnmountCloudInitISO" /\ call.pc = "unplug"
    BY <1>0, <1>3, OpAt DEF Unplug
  <2>2. Moved("node") \/ Ended("error")
    BY <1>0, <1>3, <2>1, Goes, Returns, PlacesAre DEF Unplug
  <2>3. StateOK'
    BY <1>0, <1>3 DEF Unplug, StateOK, Same
  <2> QED BY <1>0, <1>3, <2>1, <2>2, <2>3 DEF IndInv, TypeOK, AtHandInv, ScanInv, TagInv, UploadInv,
             CloneInv, Unplug, Same, Moved, Ended, Rest
<1>4. CASE ListStorages
  <2>1. call.pc = "storages" /\ OnlyTheCall
    BY <1>4 DEF ListStorages
  <2>2. CASE call' = Scanned
    <3>1. call.listed = {}
      BY <1>1, <2>1 DEF IndInv, ScanInv
    <3> QED BY <1>2, <2>1, <2>2, <3>1
  <2>3. ASSUME NEW s \in ForISOs,
               call' = [call EXCEPT !.pc = "lookup", !.listed = ForISOs, !.at = s, !.todo = ForISOs \ {s}]
        PROVE  IndInv'
    <3>1. /\ CallOK' /\ call'.pc = "lookup" /\ call'.op = call.op /\ call'.result = call.result
          /\ call'.listed = ForISOs /\ call'.at = s /\ call'.todo = ForISOs \ {s} /\ call'.busy = call.busy
      BY <1>0, <1>1, <2>3, PlacesAre DEF CallOK, Calls, ForISOs
    <3> QED BY <1>0, <1>1, <2>1, <3>1 DEF IndInv, TypeOK, StateOK, AtHandInv, ScanInv, TagInv,
               UploadInv, CloneInv, OnlyTheCall, Same, server
  <2> QED BY <1>4, <2>2, <2>3 DEF ListStorages
<1>5. CASE GetContent
  <2>1. call.pc = "listing" /\ OnlyTheCall
    BY <1>5 DEF GetContent
  <2>2. CASE Return("error")
    BY <1>0, <1>1, <2>1, <2>2, Returns, OnlyEnds
  <2>3. CASE call.at \in enabled \ isos /\ GoOn
    <3>1. isos \cap call.listed \subseteq call.busy \cup call.todo
      BY <1>1, <2>1, <2>3 DEF IndInv, ScanInv
    <3>2. CASE call.todo = {} /\ call' = Scanned
      BY <1>2, <2>1, <3>1, <3>2
    <3>3. ASSUME NEW s \in call.todo, call' = [call EXCEPT !.pc = "lookup", !.at = s, !.todo = @ \ {s}]
          PROVE  IndInv'
      <4>1. /\ CallOK' /\ call'.pc = "lookup" /\ call'.op = call.op /\ call'.result = call.result
            /\ call'.listed = call.listed /\ call'.at = s /\ call'.todo = call.todo \ {s}
            /\ call'.busy = call.busy
        BY <1>0, <1>1, <3>3, PlacesAre DEF CallOK, Calls
      <4> QED BY <1>0, <1>1, <2>1, <3>1, <4>1 DEF IndInv, TypeOK, StateOK, AtHandInv, ScanInv, TagInv,
                 UploadInv, CloneInv, OnlyTheCall, Same, server
    <3> QED BY <2>3, <3>2, <3>3 DEF GoOn
  <2> QED BY <1>5, <2>2, <2>3 DEF GetContent
<1>6. CASE RemoveISO
  <2>1. call.pc = "remove" /\ call.at \in TakesISO
    BY <1>0, <1>6, NoneAssumption DEF RemoveISO, StateOK, CallOK, Calls
  <2>2. StateOK' /\ UNCHANGED <<isos, uploads, params>>
    BY <1>0, <1>6, <2>1 DEF RemoveISO, StateOK, Same
  <2>3. CASE Return("error") \/ Panic
    <3>1. Ended("error") \/ Moved("panic")
      BY <1>0, <2>3, Returns, Panics
    <3>2. CloneInv'
      BY <1>0, <1>1, <2>2, <3>1 DEF CloneInv, Moved, Ended, Rest
    <3> QED BY <1>1, <2>2, <3>1, <3>2, EndsQuietly DEF Moved, Ended
  <2>4. CASE call' = [call EXCEPT !.pc = "removing", !.ended = "running"]
    <3>1. /\ CallOK' /\ call'.pc = "removing" /\ call'.op = call.op /\ call'.result = call.result
          /\ call'.listed = call.listed /\ call'.at = call.at /\ call'.todo = call.todo
          /\ call'.busy = call.busy /\ call'.ended = "running"
      BY <1>0, <1>1, <2>4, PlacesAre DEF CallOK, Calls
    <3> QED BY <1>0, <1>1, <2>1, <2>2, <3>1 DEF IndInv, TypeOK, AtHandInv, ScanInv, TagInv,
               UploadInv, CloneInv
  <2> QED BY <1>6, <2>3, <2>4 DEF RemoveISO
<1>7. CASE RemovalWaited
  <2>1. call.pc = "removing" /\ OnlyTheCall
    BY <1>7 DEF RemovalWaited
  <2>2. CASE Return("error")
    BY <1>0, <1>1, <2>1, <2>2, Returns, OnlyEnds
  <2>3. CASE call.ended = "ok" /\ call' = Scanned
    <3>1. isos \cap call.listed \subseteq call.busy \cup call.todo
      BY <1>1, <2>1, <2>3 DEF IndInv, ScanInv
    <3> QED BY <1>2, <2>1, <2>3, <3>1
  <2> QED BY <1>7, <2>2, <2>3 DEF RemovalWaited
<1>8. CASE Destroy
  <2>1. Ended("ok") \/ Ended("error")
    BY <1>0, <1>8, Returns DEF Destroy
  <2>2. StateOK' /\ UNCHANGED <<uploads, params>>
    BY <1>0, <1>8 DEF Destroy, StateOK, Same
  <2>3. CloneInv'
    BY <1>0, <1>1, <2>1, <2>2 DEF CloneInv, Ended, Rest
  <2> QED BY <1>1, <2>1, <2>2, <2>3, EndsQuietly DEF Ended
<1> QED BY <1>3, <1>4, <1>5, <1>6, <1>7, <1>8

(* Clone and NewContainer: the ID asked for is the one that is sent. *)
LEMMA IdsGoOn ==
  ASSUME IndInv, NextID \/ Clone \/ CreateContainer
  PROVE  IndInv'
<1> USE DEF Everywhere
<1>0. CallOK /\ TypeOK /\ StateOK /\ CloneInv
  BY DEF IndInv, TypeOK
<1>1. CASE NextID
  <2>1. call.pc = "nextid" /\ call.op \in {"Clone", "NewContainer"}
    BY <1>0, <1>1, OpAt DEF NextID
  <2>2. CASE call.op = "Clone"
    <3>1. PICK id \in Ids \ ids : params' = [params EXCEPT !.NewID = id] /\ Goto("clone")
      BY <1>1, <2>2 DEF NextID
    <3>2. Moved("clone")
      BY <1>0, <2>2, <3>1, Goes, PlacesAre
    <3>3. params'.NewID = id /\ params'.made = params.made /\ StateOK'
      BY <1>0, <1>1, <3>1 DEF NextID, StateOK, server
    <3> QED BY <1>0, <2>1, <2>2, <3>2, <3>3 DEF IndInv, TypeOK, AtHandInv, ScanInv, TagInv, UploadInv,
               CloneInv, Moved, Rest
  <2>3. CASE call.op = "NewContainer"
    <3>1. PICK id \in Ids \ ids : params' = params /\ call' = [call EXCEPT !.pc = "create", !.id = id]
      BY <1>1, <2>3 DEF NextID
    <3>2. /\ CallOK' /\ call'.pc = "create" /\ call'.op = call.op /\ call'.result = call.result
          /\ call'.id = id
      BY <1>0, <2>3, <3>1, PlacesAre DEF CallOK, Calls
    <3>3. StateOK'
      BY <1>0, <1>1, <3>1 DEF NextID, StateOK, server
    <3> QED BY <1>0, <2>1, <2>3, <3>1, <3>2, <3>3 DEF IndInv, TypeOK, AtHandInv, ScanInv, TagInv, UploadInv,
               CloneInv
  <2> QED BY <2>1, <2>2, <2>3
<1>2. CASE Clone
  <2>1. call.op = "Clone" /\ call.pc = "clone" /\ params.NewID \in Ids
    BY <1>0, <1>2, OpAt DEF Clone, IndInv, AtHandInv
  <2>2. Ended("ok") \/ Ended("error")
    BY <1>0, <1>2, Returns DEF Clone
  <2>3. StateOK' /\ params'.NewID = params.NewID /\ params'.made = params.made \cup {params.NewID}
    BY <1>0, <1>2, <2>1 DEF Clone, StateOK
  <2>4. CloneInv'
    BY <1>0, <2>1, <2>2, <2>3, NoneAssumption DEF CloneInv, Ended
  <2> QED BY <2>1, <2>2, <2>3, <2>4, EndsQuietly DEF Ended
<1>3. CASE CreateContainer
  <2>1. call.op = "NewContainer" /\ call.pc = "create" /\ call.id \in Ids
    BY <1>0, <1>3, OpAt DEF CreateContainer, IndInv, AtHandInv
  <2>2. Ended("ok") \/ Ended("error")
    BY <1>0, <1>3, Returns DEF CreateContainer
  <2>3. StateOK' /\ params' = params
    BY <1>0, <1>3, <2>1 DEF CreateContainer, StateOK, Same
  <2>4. CloneInv'
    BY <1>0, <2>1, <2>2, <2>3 DEF CloneInv, Ended
  <2> QED BY <2>1, <2>2, <2>3, <2>4, EndsQuietly DEF Ended
<1> QED BY <1>1, <1>2, <1>3

(* The server's tasks, its administrator, other programs, and the agent.   *)
LEMMA EnvironmentGoesOn == ASSUME IndInv, Environment PROVE IndInv'
<1> USE DEF Everywhere
<1>0. CallOK /\ TypeOK /\ StateOK /\ CloneInv
  BY DEF IndInv, TypeOK
<1>1. ASSUME NEW s \in TakesISO, UploadEnds(s) PROVE IndInv'
  <2>1. StateOK'
    BY <1>0, <1>1 DEF UploadEnds, StateOK
  <2>2. CASE isos' = isos \cup {s} /\ UNCHANGED call
    BY <1>0, <1>1, <2>1, <2>2 DEF IndInv, TypeOK, CallOK, AtHandInv, ScanInv, TagInv, UploadInv, CloneInv,
       UploadEnds
  <2>3. CASE isos' = isos /\ call' = [call EXCEPT !.failed = @ \/ (call.pc = "uploading" /\ call.storage = s)]
    <3>1. /\ CallOK' /\ call'.pc = call.pc /\ call'.result = call.result /\ call'.op = call.op
          /\ call'.id = call.id /\ call'.storage = call.storage /\ call'.at = call.at
          /\ call'.todo = call.todo /\ call'.listed = call.listed /\ call'.busy = call.busy
          /\ call'.ended = call.ended /\ call'.stale = call.stale
      <4>1. /\ call'.pc = call.pc /\ call'.result = call.result /\ call'.op = call.op
            /\ call'.id = call.id /\ call'.storage = call.storage /\ call'.at = call.at
        BY <1>0, <2>3 DEF CallOK, Calls
      <4>2. /\ call'.todo = call.todo /\ call'.listed = call.listed /\ call'.busy = call.busy
            /\ call'.ended = call.ended /\ call'.stale = call.stale
        BY <1>0, <2>3 DEF CallOK, Calls
      <4>3. call' \in Calls
        <5>1. (call.failed \/ (call.pc = "uploading" /\ call.storage = s)) \in BOOLEAN
          OBVIOUS
        <5> QED BY <1>0, <2>3, <5>1, MayFail DEF CallOK
      <4> QED BY <1>0, <4>1, <4>2, <4>3 DEF CallOK
    <3>2. call'.failed <=> call.failed \/ (call.pc = "uploading" /\ call.storage = s)
      BY <1>0, <2>3 DEF CallOK, Calls
    <3> QED BY <1>0, <1>1, <2>1, <2>3, <3>1, <3>2 DEF IndInv, TypeOK, AtHandInv, ScanInv, TagInv, UploadInv,
               CloneInv, UploadEnds
  <2> QED BY <1>1, <2>2, <2>3 DEF UploadEnds
<1>2. ASSUME NEW s \in TakesISO, RemovalEnds(s) PROVE IndInv'
  <2>1. PICK ok \in BOOLEAN :
           /\ isos' = IF ok THEN isos \ {s} ELSE isos
           /\ call' = IF call.pc = "removing" /\ call.at = s
                      THEN [call EXCEPT !.ended = IF ok THEN "ok" ELSE "failed"] ELSE call
    BY <1>2 DEF RemovalEnds
  <2>2. StateOK' /\ UNCHANGED <<tagged, mounted, uploads, handle, params>> /\ removals' = removals \ {s}
    BY <1>0, <1>2, <2>1 DEF RemovalEnds, StateOK
  <2>3. CASE call.pc = "removing" /\ call.at = s
    <3>1. /\ CallOK' /\ call'.pc = call.pc /\ call'.result = call.result /\ call'.op = call.op
          /\ call'.at = call.at /\ call'.todo = call.todo /\ call'.listed = call.listed
          /\ call'.busy = call.busy /\ call'.ended = IF ok THEN "ok" ELSE "failed"
      BY <1>0, <2>1, <2>3 DEF CallOK, Calls
    <3>2. call.op \in {"Delete", "UnmountCloudInitISO"}
      BY <1>0, <2>3, OpAt
    <3> QED BY <1>0, <2>1, <2>2, <2>3, <3>1, <3>2 DEF IndInv, TypeOK, AtHandInv, ScanInv, TagInv, UploadInv,
               CloneInv
  <2>4. CASE ~ (call.pc = "removing" /\ call.at = s)
    <3>1. call' = call
      BY <2>1, <2>4
    <3>2. isos' \subseteq isos /\ s \in removals
      BY <1>2, <2>1 DEF RemovalEnds
    <3>3. isos \ {s} \subseteq isos'
      BY <2>1
    <3> QED BY <1>0, <2>2, <2>4, <3>1, <3>2, <3>3 DEF IndInv, TypeOK, CallOK, AtHandInv, ScanInv, TagInv,
               UploadInv, CloneInv
  <2> QED BY <2>3, <2>4
<1>3. ASSUME NEW s \in TakesISO, SwitchStorage(s) PROVE IndInv'
  BY <1>0, <1>3, StoragesAssumption DEF SwitchStorage, IndInv, TypeOK, StateOK, CallOK, AtHandInv, ScanInv,
     TagInv, UploadInv, CloneInv
<1>4. ASSUME NEW id \in Ids, OtherGuest(id) PROVE IndInv'
  BY <1>0, <1>4 DEF OtherGuest, IndInv, TypeOK, StateOK, CallOK, AtHandInv, ScanInv, TagInv, UploadInv,
     CloneInv
<1>5. CASE PolledForArrives
  <2>1. call.op # "CloudInit" /\ call.pc \in {"poll", "pause"}
    BY <1>0, <1>5, OpAt DEF PolledForArrives
  <2>2. /\ CallOK' /\ call'.pc = call.pc /\ call'.result = call.result /\ call'.op = call.op
        /\ call'.listed = call.listed /\ call'.busy = call.busy
    BY <1>0, <1>5 DEF PolledForArrives, CallOK, Calls
  <2> QED BY <1>0, <1>5, <2>1, <2>2 DEF PolledForArrives, server, IndInv, TypeOK, StateOK, AtHandInv, ScanInv,
             TagInv, UploadInv, CloneInv
<1> QED BY <1>1, <1>2, <1>3, <1>4, <1>5 DEF Environment

(* The program between its calls. *)
LEMMA ProgramGoesOn ==
  ASSUME IndInv, Fetch \/ List \/ NewParams \/ Call \/ LookAtResult
  PROVE  IndInv'
<1> USE DEF Everywhere
<1>0. CallOK /\ TypeOK /\ StateOK /\ CloneInv
  BY DEF IndInv, TypeOK
<1>1. Idle \in Calls /\ Idle.pc \in Places[Idle.op]
  <2>1. Idle \in Calls
    BY DEF Idle, Calls
  <2>2. Idle.pc = "idle" /\ Idle.op = "none"
    BY DEF Idle
  <2> QED BY <2>1, <2>2, PlacesAre
<1>2. /\ Idle.op = "none" /\ Idle.pc = "idle" /\ Idle.result = "none" /\ Idle.listed = {}
      /\ Idle.failed = FALSE
  BY DEF Idle
<1>3. CASE Fetch \/ List
  <2>1. handle' \in [config : BOOLEAN, tag : BOOLEAN] /\ call = Idle
    <3>1. ASSUME NEW c \in BOOLEAN, NEW t \in BOOLEAN
          PROVE  [config |-> c, tag |-> t] \in [config : BOOLEAN, tag : BOOLEAN]
      OBVIOUS
    <3>2. tagged \in BOOLEAN
      BY <1>0 DEF StateOK
    <3> QED BY <1>3, <3>1, <3>2, Zenon DEF Fetch, List, Fetched
  <2>2. UNCHANGED <<server, program, params, call>>
    BY <1>3 DEF Fetch, List
  <2>3. StateOK' /\ CallOK'
    BY <1>0, <2>1, <2>2 DEF server, StateOK, CallOK
  <2> QED BY <1>0, <1>2, <2>1, <2>2, <2>3 DEF IndInv, TypeOK, AtHandInv, ScanInv, TagInv, UploadInv, CloneInv
<1>4. CASE NewParams
  <2>1. params' = NoParams /\ call = Idle /\ call' = call
    BY <1>4 DEF NewParams
  <2>2. NoParams \in [NewID : Ids \cup {NoId}, made : SUBSET Ids] /\ NoParams.made = {}
    BY DEF NoParams
  <2>3. StateOK' /\ CallOK'
    BY <1>0, <1>4, <2>1, <2>2 DEF NewParams, server, StateOK, CallOK
  <2> QED BY <1>0, <1>2, <2>1, <2>2, <2>3 DEF IndInv, TypeOK, AtHandInv, ScanInv, TagInv, UploadInv, CloneInv
<1>5. CASE LookAtResult
  <2>1. StateOK' /\ call' = Idle /\ params' = params
    BY <1>0, <1>5 DEF LookAtResult, OnlyTheCall, Same, server, StateOK
  <2> QED BY <1>0, <1>1, <1>2, <2>1 DEF IndInv, TypeOK, CallOK, AtHandInv, ScanInv, TagInv, UploadInv, CloneInv
<1>6. CASE Call
  <2>1. StateOK' /\ params' = params /\ UNCHANGED <<tagged, handle, isos, uploads, removals>>
    BY <1>0, <1>6 DEF Call, OnlyTheCall, Same, server, StateOK
  <2>2. ASSUME NEW op \in Ops, NEW first \in Everywhere, first \in Places[op], Begin(op, first)
        PROVE  /\ CallOK' /\ call'.op = op /\ call'.pc = first /\ call'.result = "none"
               /\ call'.listed = {} /\ call'.busy = uploads \cup removals
               /\ call'.failed = FALSE /\ (call'.stale <=> handle.tag # tagged)
    <3> DEFINE stale == handle.tag # tagged
    <3>1. stale \in BOOLEAN /\ uploads \cup removals \in SUBSET TakesISO
      BY <1>0 DEF StateOK
    <3>2. call' = [Idle EXCEPT !.op = op, !.pc = first, !.busy = uploads \cup removals, !.stale = stale]
      BY <2>2, Zenon DEF Begin
    <3> HIDE DEF stale
    <3>3. /\ call' \in Calls /\ call'.op = op /\ call'.pc = first /\ call'.result = "none"
          /\ call'.listed = {} /\ call'.busy = uploads \cup removals /\ call'.failed = FALSE
      BY <1>1, <1>2, <2>2, <3>1, <3>2 DEF Calls
    <3>4. call'.stale = stale
      BY <1>1, <3>2 DEF Calls
    <3> QED BY <2>2, <3>3, <3>4, Zenon DEF CallOK, stale
  <2>3. PICK op \in Ops, first \in Everywhere :
           /\ first \in Places[op] /\ Begin(op, first)
           /\ first \notin {"nextid", "create", "lookup", "listing", "remove", "removing", "uploading",
                        "mount", "mounting"}
           /\ first = "clone" => params.NewID # NoId
           /\ op # "Delete" => first # "destroy"
           /\ op = "CloudInit" => first = "node"
           /\ op = "Clone" /\ first = "cluster" => params.NewID = NoId
    <3>1. CASE Begin("CloudInit", "node")
      BY <3>1, PlacesAre DEF Ops
    <3>2. CASE Begin("Delete", IF HasTag THEN "node" ELSE "destroy")
      BY <3>2, PlacesAre DEF Ops
    <3>3. CASE Begin("UnmountCloudInitISO", "unplug")
      BY <3>3, PlacesAre DEF Ops
    <3>4. CASE Begin("AddTag", "tag") \/ Begin("RemoveTag", "untag")
      BY <3>4, PlacesAre DEF Ops
    <3>5. CASE Begin("Clone", FirstCloneStep)
      BY <3>5, PlacesAre DEF Ops, FirstCloneStep
    <3>6. CASE Begin("NewContainer", "cluster")
      BY <3>6, PlacesAre DEF Ops
    <3>7. CASE Begin("WaitForAgent", "poll") \/ Begin("WaitForAgentExecExit", "poll")
      BY <3>7, PlacesAre DEF Ops
    <3> QED BY <1>6, <3>1, <3>2, <3>3, <3>4, <3>5, <3>6, <3>7 DEF Call
  <2>4. /\ CallOK' /\ call'.op = op /\ call'.pc = first /\ call'.result = "none"
        /\ call'.listed = {} /\ call'.busy = uploads \cup removals
        /\ call'.failed = FALSE /\ (call'.stale <=> handle.tag # tagged)
    BY <2>2, <2>3, Zenon
  <2>5. TypeOK' /\ AtHandInv' /\ CloneInv'
    <3>1. params.NewID \in Ids \cup {NoId}
      BY <1>0 DEF StateOK
    <3> QED BY <1>0, <2>1, <2>3, <2>4, <3>1 DEF TypeOK, AtHandInv, CloneInv
  <2>6. ScanInv' /\ UploadInv'
    BY <2>1, <2>3, <2>4 DEF ScanInv, UploadInv
  <2>7. TagInv'
    BY <1>0, <2>1, <2>3, <2>4 DEF TagInv, StateOK
  <2> QED BY <2>5, <2>6, <2>7 DEF IndInv
<1> QED BY <1>3, <1>4, <1>5, <1>6

(* The invariant holds in every state. *)
THEOREM Inductive == Spec => []IndInv
<1>1. IndInv /\ [Next]_vars => IndInv'
  <2> SUFFICES ASSUME IndInv, [Next]_vars PROVE IndInv' OBVIOUS
  <2>1. CASE Next
    <3>1. CASE Step
      <4>1. (\/ Fail \/ GetNode \/ UploadWaited \/ MountWaited \/ LookUp \/ GetCluster
             \/ Poll \/ Tick \/ Timeout) => OnlyTheCall
        BY DEF Fail, GetNode, UploadWaited, MountWaited, LookUp, GetCluster, Poll, Tick, Timeout
      <4> QED BY <3>1, <4>1, OnlyTheCallGoesOn, CloudInitGoesOn, TagsGoOn, ScanGoesOn, IdsGoOn DEF Step
    <3> QED BY <2>1, <3>1, ProgramGoesOn, EnvironmentGoesOn DEF Next
  <2>2. CASE UNCHANGED vars
    BY <2>2 DEF vars, server, IndInv, TypeOK, StateOK, CallOK, AtHandInv, ScanInv, TagInv, UploadInv, CloneInv
  <2> QED BY <2>1, <2>2
<1> QED BY Initially, <1>1, PTL DEF Spec

(* The variables keep their types, and each operation to its own steps.    *)
THEOREM TypeCorrect == Spec => []TypeOK
<1>1. IndInv => TypeOK
  BY DEF IndInv
<1> QED BY Inductive, <1>1, PTL

(* Whatever fails on the way, for any storages: Delete gets to the guest   *)
(* only when no storage it has passed holds the guest's ISO.               *)
THEOREM NothingIsLeftBehind == Spec => []NothingLeftBehind
<1>1. IndInv => NothingLeftBehind
  <2> SUFFICES ASSUME IndInv, call.pc = "destroy"
               PROVE  isos \cap call.listed \subseteq call.busy \cup call.todo
    BY DEF NothingLeftBehind
  <2>1. call.op = "Delete"
    BY OpAt DEF IndInv, TypeOK
  <2> QED BY <2>1 DEF IndInv, ScanInv
<1> QED BY Inductive, <1>1, PTL

(* A CloudInit that reports success has tagged the guest on the server.    *)
THEOREM GuestIsTagged == Spec => []InitialisedGuestIsTagged
<1>1. IndInv => InitialisedGuestIsTagged
  BY DEF IndInv, TagInv, InitialisedGuestIsTagged
<1> QED BY Inductive, <1>1, PTL

(* A CloudInit that reports success has mounted an ISO that is there.      *)
THEOREM ISOIsMounted == Spec => []NilMeansMounted
<1>1. IndInv => NilMeansMounted
  BY DEF IndInv, UploadInv, NilMeansMounted
<1> QED BY Inductive, <1>1, PTL

(* CloudInit's nil error is true.                                          *)
THEOREM InitialisedIsDone == Spec => []InitialisedMeansDone
<1>1. InitialisedGuestIsTagged /\ NilMeansMounted => InitialisedMeansDone
  BY DEF InitialisedMeansDone
<1> QED BY GuestIsTagged, ISOIsMounted, <1>1, PTL

(* Clones repeated with the same options make one guest.                   *)
THEOREM OneGuest == Spec => []RepeatMakesNoSecondGuest
<1>1. IndInv => RepeatMakesNoSecondGuest
  <2> SUFFICES ASSUME params.made \subseteq {params.NewID} PROVE Cardinality(params.made) <= 1
    BY DEF IndInv, CloneInv, RepeatMakesNoSecondGuest
  <2>1. CASE params.made = {}
    BY <2>1, FS_EmptySet
  <2>2. CASE params.made = {params.NewID}
    BY <2>2, FS_Singleton
  <2> QED BY <2>1, <2>2
<1> QED BY Inductive, <1>1, PTL
=============================================================================
