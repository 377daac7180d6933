-------------------------------- MODULE Task --------------------------------
(***************************************************************************)
(* Waiting for a Proxmox task (tasks.go): goroutines that run Task.Wait,   *)
(* Task.WaitForCompleteStatus and Task.Watch over one task of the server.  *)
(* Each uses a *Task handle; handles may be shared, as the integration     *)
(* test TestTask shares one between Wait and Watch.  A handle has no lock. *)
(*                                                                         *)
(* A ping reads the handle's client, sends, copies the reply over the      *)
(* handle field by field, its client included, puts the client back and    *)
(* derives the four flags: each access of the handle is a step of its own, *)
(* which the steps of a second ping may interleave.                        *)
(***************************************************************************)
EXTENDS Naturals, Sequences, FiniteSets

CONSTANTS
  Workers,   \* the goroutines
  Handles,   \* the *Task values
  Plans,     \* what the goroutines run, over which handle, and what may befall them
  Page,      \* the limit of a log request (50 in the code)
  MaxLines   \* bound: lines the task logs

Roles == {"Wait", "WaitForCompleteStatus", "Watch", "none"}
(* The faults are the answers its requests may get beside the expected one.*)
Jobs  == [role : Roles, handle : Handles, start : Nat, faults : SUBSET {"error", "null"}]

ASSUME PlansAssumption  == Plans \subseteq [Workers -> Jobs]
ASSUME BoundsAssumption == Page \in Nat \ {0} /\ MaxLines \in Nat

VARIABLES
  plan,       \* the job of each goroutine; it never changes
  task,       \* server: its status, exit status and number of log lines
  handle,     \* the *Task values
  pc, site,   \* where each goroutine is, and in which round: first or loop
  cancelled,  \* its context is done
  expired,    \* the time.After of its call has fired
  saved,      \* Ping's tmp.client is not nil
  reply,      \* the status reply it decodes
  page,       \* log lines it has still to send on the channel
  next,       \* the start of its next log request
  tries,      \* log requests that found nothing
  delivered,  \* the lines its reader has received
  reading,    \* its reader still receives
  result      \* what its call returned

call  == <<pc, site, saved, reply, result>>
watch == <<page, next, tries, delivered>>
env   == <<plan, task, cancelled, expired, reading>>
vars  == <<env, handle, call, watch>>

Exits == {"OK", "WARNINGS", "failed"}
None  == "none"

(* The part of a Task that the code looks at.                              *)
TaskHandles ==
  [ client : BOOLEAN,
    status : {None, "running", "stopped"}, exit : {None} \cup Exits,
    completed : BOOLEAN, running : BOOLEAN, successful : BOOLEAN, failed : BOOLEAN ]

Fresh == [ client |-> TRUE, status |-> None, exit |-> None,
           completed |-> FALSE, running |-> FALSE, successful |-> FALSE, failed |-> FALSE ]

(* What a call returned: its error, and completed and status of            *)
(* WaitForCompleteStatus.                                                  *)
Errors  == {None, "timeout", "ping", "log", "nologs", "nilclient"}
Returns == [err : Errors, completed : BOOLEAN, status : BOOLEAN]
NoneYet == [err |-> None, completed |-> FALSE, status |-> FALSE]

Replies == [ answer : {None, "status", "null", "error"},
             status : {None, "running", "stopped"}, exit : {None} \cup Exits ]
NoReply == [answer |-> None, status |-> None, exit |-> None]

(* Where Ping is while it copies a reply and while it derives from it.     *)
Copying  == {"copyClient", "copyStatus", "copyExit", "copyCompleted", "copyRunning", "copyFailed",
             "copySuccessful"}
Deriving == {"restore", "giveBack", "judge", "complete", "run", "ended", "exit", "succeed", "fail"}

Places == {"ping", "get", "pinged", "timer", "status", "log", "send", "done"} \cup Copying \cup Deriving

Begins(role) == CASE role = "Wait" -> "ping"
                  [] role = "WaitForCompleteStatus" -> "timer"
                  [] role = "Watch" -> "log"
                  [] OTHER -> "done"

Init ==
  /\ plan \in Plans
  /\ task = [status |-> "running", exit |-> None, lines |-> 0]
  /\ handle = [h \in Handles |-> Fresh]
  /\ pc = [w \in Workers |-> Begins(plan[w].role)]
  /\ site = [w \in Workers |-> IF plan[w].role = "WaitForCompleteStatus" THEN "loop" ELSE "first"]
  /\ cancelled = [w \in Workers |-> FALSE]
  /\ expired = [w \in Workers |-> FALSE]
  /\ saved = [w \in Workers |-> FALSE]
  /\ reply = [w \in Workers |-> NoReply]
  /\ page = [w \in Workers |-> {}]
  /\ next = [w \in Workers |-> plan[w].start]
  /\ tries = [w \in Workers |-> 0]
  /\ delivered = [w \in Workers |-> <<>>]
  /\ reading = [w \in Workers |-> TRUE]
  /\ result = [w \in Workers |-> NoneYet]

Mine(w) == handle[plan[w].handle]

Goto(w, to) == pc' = [pc EXCEPT ![w] = to]

Return(w, r) == Goto(w, "done") /\ result' = [result EXCEPT ![w] = r]

Fail(w, e) == Return(w, [result[w] EXCEPT !.err = e])

-----------------------------------------------------------------------------
(* Task.Ping.                                                              *)

PingStart(w) ==
  /\ pc[w] = "ping"
  /\ saved' = [saved EXCEPT ![w] = Mine(w).client]
  /\ Goto(w, "get")
  /\ UNCHANGED <<env, handle, site, reply, result, watch>>

(* t.client.Get: on a nil client it panics; otherwise the server answers   *)
(* with the status of this moment, with no data, or not at all.  An error  *)
(* leaves the handle alone: the flags go to Ping's temporary.              *)
PingGet(w) ==
  /\ pc[w] = "get"
  /\ IF ~Mine(w).client
       THEN Fail(w, "nilclient") /\ UNCHANGED reply
       ELSE /\ \E a \in plan[w].faults \cup {"status"} :
                 /\ cancelled[w] => a = "error"
                 /\ reply' = [reply EXCEPT ![w] =
                      IF a = "status" THEN [answer |-> a, status |-> task.status, exit |-> task.exit]
                                      ELSE [NoReply EXCEPT !.answer = a]]
                 /\ Goto(w, CASE a = "status" -> "copyClient" [] a = "null" -> "restore" [] OTHER -> "pinged")
            /\ UNCHANGED result
  /\ UNCHANGED <<env, handle, site, saved, watch>>

(* One access of the handle: its new value, or a condition on it.          *)
Set(w, at, new, to) ==
  /\ pc[w] = at
  /\ handle' = [handle EXCEPT ![plan[w].handle] = new]
  /\ Goto(w, to)
  /\ UNCHANGED <<env, site, saved, reply, result, watch>>

Check(w, at, condition, yes, no) ==
  /\ pc[w] = at
  /\ Goto(w, IF condition THEN yes ELSE no)
  /\ UNCHANGED <<env, handle, site, saved, reply, result, watch>>

(* Mutant: only the fields of the reply are copied.                        *)
PingDecodeKeepsFlags(w) ==
  \/ Set(w, "copyClient", [Mine(w) EXCEPT !.client = FALSE], "copyStatus")
  \/ Set(w, "copyStatus", [Mine(w) EXCEPT !.status = reply[w].status], "copyExit")
  \/ Set(w, "copyExit", [Mine(w) EXCEPT !.exit = reply[w].exit], "restore")

(* Task.UnmarshalJSON: copier.Copy of a new Task over the handle clears    *)
(* its client and then copies the other fields in their order.             *)
PingDecode(w) ==
  \/ Set(w, "copyClient", [Mine(w) EXCEPT !.client = FALSE], "copyStatus")
  \/ Set(w, "copyStatus", [Mine(w) EXCEPT !.status = reply[w].status], "copyExit")
  \/ Set(w, "copyExit", [Mine(w) EXCEPT !.exit = reply[w].exit], "copyCompleted")
  \/ Set(w, "copyCompleted", [Mine(w) EXCEPT !.completed = FALSE], "copyRunning")
  \/ Set(w, "copyRunning", [Mine(w) EXCEPT !.running = FALSE], "copyFailed")
  \/ Set(w, "copyFailed", [Mine(w) EXCEPT !.failed = FALSE], "copySuccessful")
  \/ Set(w, "copySuccessful", [Mine(w) EXCEPT !.successful = FALSE], "restore")

(* Mutant: the client is not put back.                                     *)
RestoredNot(h, client) == h

Restored(h, client) == [h EXCEPT !.client = client]

PingRestore(w) ==
  \/ Check(w, "restore", Mine(w).client, "judge", "giveBack")
  \/ Set(w, "giveBack", Restored(Mine(w), saved[w]), "judge")

(* Mutant: a task that ended with warnings has failed.                     *)
ExitSucceededOnlyOK(exit) == exit = "OK"

taskExitSucceeded(exit) == exit \in {"OK", "WARNINGS"}

PingDerive(w) ==
  \/ Check(w, "judge", Mine(w).status = "stopped", "complete", "run")
  \/ Set(w, "complete", [Mine(w) EXCEPT !.completed = TRUE], "ended")
  \/ Set(w, "run", [Mine(w) EXCEPT !.running = TRUE], "ended")
  \/ Check(w, "ended", Mine(w).completed, "exit", "pinged")
  \/ Check(w, "exit", taskExitSucceeded(Mine(w).exit), "succeed", "fail")
  \/ Set(w, "succeed", [Mine(w) EXCEPT !.successful = TRUE], "pinged")
  \/ Set(w, "fail", [Mine(w) EXCEPT !.failed = TRUE], "pinged")

Ping(w) == PingStart(w) \/ PingGet(w) \/ PingDecode(w) \/ PingRestore(w) \/ PingDerive(w)

Erred(w) == reply[w].answer = "error"

-----------------------------------------------------------------------------
(* Task.Wait and Task.WaitForCompleteStatus.  When the timeout has fired   *)
(* select takes it, and the sleep between polls ignores the context.       *)

(* Mutant: the loop does not look at its timer.                            *)
TimedOutNever(w) == FALSE

TimedOut(w) == expired[w]

Timer(w) ==
  /\ pc[w] = "timer"
  /\ IF ~TimedOut(w) THEN Goto(w, "ping") /\ UNCHANGED result
     ELSE IF plan[w].role = "Wait" THEN Fail(w, "timeout")
     ELSE Return(w, result[w])
  /\ UNCHANGED <<env, handle, site, saved, reply, watch>>

(* Mutant: a failed poll ends the wait with no error.                      *)
WaitPingedSwallows(w) ==
  /\ pc[w] = "pinged" /\ plan[w].role = "Wait"
  /\ IF Erred(w) \/ (site[w] = "loop" /\ Mine(w).status # "running")
       THEN Return(w, result[w])
       ELSE Goto(w, "timer") /\ UNCHANGED result
  /\ site' = [site EXCEPT ![w] = "loop"]
  /\ UNCHANGED <<env, handle, saved, reply, watch>>

WaitPinged(w) ==
  /\ pc[w] = "pinged" /\ plan[w].role = "Wait"
  /\ CASE Erred(w) -> Fail(w, "ping")
       [] ~Erred(w) /\ site[w] = "loop" /\ Mine(w).status # "running" -> Return(w, result[w])
       [] OTHER -> Goto(w, "timer") /\ UNCHANGED result
  /\ site' = [site EXCEPT ![w] = "loop"]
  /\ UNCHANGED <<env, handle, saved, reply, watch>>

(* The error of the last poll is what a timeout returns; completed and     *)
(* IsSuccessful are read one after the other.                              *)
PollPinged(w) ==
  /\ pc[w] = "pinged" /\ plan[w].role = "WaitForCompleteStatus"
  /\ result' = [result EXCEPT ![w].err = IF Erred(w) THEN "ping" ELSE None,
                              ![w].completed = IF Erred(w) THEN @ ELSE Mine(w).completed]
  /\ Goto(w, IF ~Erred(w) /\ Mine(w).completed THEN "status" ELSE "timer")
  /\ UNCHANGED <<env, handle, site, saved, reply, watch>>

PollStatus(w) ==
  /\ pc[w] = "status"
  /\ Return(w, [result[w] EXCEPT !.status = Mine(w).successful])
  /\ UNCHANGED <<env, handle, site, saved, reply, watch>>

-----------------------------------------------------------------------------
(* Task.Watch and tasktail.                                                *)

Ahead(from) == {n \in from..(task.lines - 1) : n < from + Page}

(* Task.Log: a reply with no data has no rows.                             *)
LogAnswers(w) ==
  {a \in [ok : BOOLEAN, rows : {{}, Ahead(next[w])}] :
     IF a.ok THEN /\ ~cancelled[w]
                  /\ a.rows = {} => "null" \in plan[w].faults \/ Ahead(next[w]) = {}
             ELSE a.rows = {} /\ "error" \in plan[w].faults}

(* The first page is tailed from its length.                               *)
TailFrom(rows) == Cardinality(rows)

(* Mutant: the tail reads the last line of its page again.                 *)
AdvancedShort(start, rows) == start + (IF rows = {} THEN 0 ELSE Cardinality(rows) - 1)

Advanced(start, rows) == start + Cardinality(rows)

(* Mutant: one request too many.                                           *)
AsksAgainOnce(w) == tries[w] <= 3

AsksAgain(w) == tries[w] < 3

(* Watch itself: three more requests while the log is empty.               *)
WatchLog(w) ==
  /\ pc[w] = "log" /\ site[w] = "first"
  /\ IF ~Mine(w).client
       THEN Fail(w, "nilclient") /\ UNCHANGED <<site, watch>>
       ELSE \E a \in LogAnswers(w) :
         CASE ~a.ok -> Fail(w, "log") /\ UNCHANGED <<site, watch>>
           [] a.ok /\ a.rows # {} ->
                /\ page' = [page EXCEPT ![w] = a.rows]
                /\ next' = [next EXCEPT ![w] = TailFrom(a.rows)]
                /\ site' = [site EXCEPT ![w] = "loop"]
                /\ Goto(w, "send")
                /\ UNCHANGED <<result, tries, delivered>>
           [] a.ok /\ a.rows = {} /\ AsksAgain(w) ->
                tries' = [tries EXCEPT ![w] = @ + 1]
                /\ UNCHANGED <<pc, site, result, page, next, delivered>>
           [] OTHER -> Fail(w, "nologs") /\ UNCHANGED <<site, watch>>
  /\ UNCHANGED <<env, handle, saved, reply>>

(* watch <- ln, over a map: in any order, and only when the reader is      *)
(* there; the context is not looked at.                                    *)
Deliver(w) ==
  /\ pc[w] = "send" /\ page[w] # {} /\ reading[w]
  /\ \E n \in page[w] :
       /\ page' = [page EXCEPT ![w] = @ \ {n}]
       /\ delivered' = [delivered EXCEPT ![w] = Append(@, n)]
  /\ UNCHANGED <<env, handle, call, next, tries>>

PageSent(w) ==
  /\ pc[w] = "send" /\ page[w] = {}
  /\ Goto(w, "ping")
  /\ UNCHANGED <<env, handle, site, saved, reply, result, watch>>

(* Mutant: the tail goes on for ever.                                      *)
TailEndsNever(w) == Erred(w)

TailEnds(w) == Erred(w) \/ Mine(w).status # "running"

(* The channel is closed when the tail returns.                            *)
TailPinged(w) ==
  /\ pc[w] = "pinged" /\ plan[w].role = "Watch"
  /\ IF TailEnds(w) THEN Return(w, result[w]) ELSE Goto(w, "log") /\ UNCHANGED result
  /\ UNCHANGED <<env, handle, site, saved, reply, watch>>

TailLog(w) ==
  /\ pc[w] = "log" /\ site[w] = "loop"
  /\ IF ~Mine(w).client
       THEN Fail(w, "nilclient") /\ UNCHANGED watch
       ELSE \E a \in LogAnswers(w) :
         IF ~a.ok THEN Fail(w, "log") /\ UNCHANGED watch
         ELSE /\ page' = [page EXCEPT ![w] = a.rows]
              /\ next' = [next EXCEPT ![w] = Advanced(@, a.rows)]
              /\ Goto(w, "send")
              /\ UNCHANGED <<result, tries, delivered>>
  /\ UNCHANGED <<env, handle, site, saved, reply>>

(* Between two steps a debug line reads t.client.log: there too a client   *)
(* that another's ping has cleared is a panic.                             *)
Remarks(w) ==
  CASE plan[w].role = "Wait"  -> {"pinged", "timer"}
    [] plan[w].role = "Watch" -> {"send", "ping", "pinged"}
    [] OTHER -> IF Erred(w) THEN {"timer"} ELSE {}

Remark(w) ==
  /\ pc[w] \in Remarks(w) /\ ~Mine(w).client
  /\ Fail(w, "nilclient")
  /\ UNCHANGED <<env, handle, site, saved, reply, watch>>

-----------------------------------------------------------------------------
(* The server's task (Task.Stop ends it too), the timers, the contexts and *)
(* the readers of the channels.                                            *)

(* Nobody but a watch reads the log.                                       *)
LinesOfInterest == IF \E w \in Workers : plan[w].role = "Watch" THEN MaxLines ELSE 0

TaskLogs ==
  /\ task.status = "running" /\ task.lines < LinesOfInterest
  /\ task' = [task EXCEPT !.lines = @ + 1]
  /\ UNCHANGED <<plan, cancelled, expired, reading, handle, call, watch>>

TaskStops ==
  /\ task.status = "running"
  /\ \E e \in Exits : task' = [task EXCEPT !.status = "stopped", !.exit = e]
  /\ UNCHANGED <<plan, cancelled, expired, reading, handle, call, watch>>

Expire(w) ==
  /\ pc[w] # "done" /\ site[w] = "loop" /\ plan[w].role # "Watch" /\ ~expired[w]
  /\ expired' = [expired EXCEPT ![w] = TRUE]
  /\ UNCHANGED <<plan, task, cancelled, reading, handle, call, watch>>

Cancel(w) ==
  /\ pc[w] # "done" /\ ~cancelled[w]
  /\ "error" \in plan[w].faults
  /\ cancelled' = [cancelled EXCEPT ![w] = TRUE]
  /\ UNCHANGED <<plan, task, expired, reading, handle, call, watch>>

ReaderLeaves(w) ==
  /\ pc[w] # "done" /\ plan[w].role = "Watch" /\ site[w] = "loop" /\ reading[w]
  /\ reading' = [reading EXCEPT ![w] = FALSE]
  /\ UNCHANGED <<plan, task, cancelled, expired, handle, call, watch>>

Step(w) ==
  \/ Ping(w) \/ Remark(w)
  \/ Timer(w) \/ WaitPinged(w) \/ PollPinged(w) \/ PollStatus(w)
  \/ WatchLog(w) \/ Deliver(w) \/ PageSent(w) \/ TailPinged(w) \/ TailLog(w)

Next ==
  \/ TaskLogs \/ TaskStops
  \/ \E w \in Workers : Step(w) \/ Expire(w) \/ Cancel(w) \/ ReaderLeaves(w)

Spec == Init /\ [][Next]_vars

(* A goroutine runs, and the timers fire; every request is answered or     *)
(* fails.  Nothing says that the task stops.                               *)
FairSpec == Spec /\ \A w \in Workers : WF_vars(Step(w)) /\ WF_vars(Expire(w))

-----------------------------------------------------------------------------
(* Properties.                                                             *)

TypeOK ==
  /\ plan \in Plans
  /\ task \in [status : {"running", "stopped"}, exit : {None} \cup Exits, lines : 0..MaxLines]
  /\ handle \in [Handles -> TaskHandles]
  /\ pc \in [Workers -> Places]
  /\ site \in [Workers -> {"first", "loop"}]
  /\ cancelled \in [Workers -> BOOLEAN] /\ expired \in [Workers -> BOOLEAN]
  /\ saved \in [Workers -> BOOLEAN] /\ reading \in [Workers -> BOOLEAN]
  /\ reply \in [Workers -> Replies]
  /\ page \in [Workers -> SUBSET (0..MaxLines)]
  /\ next \in [Workers -> Nat] /\ tries \in [Workers -> 0..3]
  /\ delivered \in [Workers -> Seq(0..MaxLines)]
  /\ result \in [Workers -> Returns]

(* A handle that one goroutine pings.                                      *)
Unshared(h) == \E w \in Workers : {v \in Workers : plan[v].handle = h} = {w}

(* Whatever a handle says of the end of its task is so, at every moment of *)
(* every ping and though each reply may be older than the task: a task     *)
(* that is completed has stopped, and one that is successful exited OK or  *)
(* with warnings.  A failed one has stopped; that it did not succeed is    *)
(* sure of an unshared handle only: two pings of one handle can derive     *)
(* from a status that is copied and an exit status that is not yet         *)
(* (types.go:1604, tasks.go:52).  The delete of a guest's cloud-init ISO   *)
(* relies on the flags of a handle of its own (virtual_machine.go:538).    *)
FlagsTellTheEnd ==
  \A h \in Handles : LET t == handle[h] IN
    /\ t.completed => task.status = "stopped"
    /\ t.successful => task.exit \in {"OK", "WARNINGS"}
    /\ t.failed => task.status = "stopped"
    /\ t.failed /\ Unshared(h) => task.exit = "failed"

(* Between pings the flags of an unshared handle are those of its status:  *)
(* never both running and completed, and exactly one of successful and     *)
(* failed, whichever replies were copied before.  Two pings of one handle  *)
(* can leave any mixture, as nothing locks it.                             *)
FlagsFollowStatus ==
  \A w \in Workers : LET t == Mine(w) IN
    Unshared(plan[w].handle) /\ pc[w] \notin Copying \cup Deriving =>
      /\ t.completed = (t.status = "stopped")
      /\ t.running => ~t.completed
      /\ t.completed = (t.successful \/ t.failed)
      /\ ~(t.successful /\ t.failed)

(* Wait over an unshared handle returns nil for a task that a poll has     *)
(* seen only when the task has stopped, and the handle then has its end: a *)
(* failed poll is not a finish (migration/v0.8.2.md:40, 109).              *)
WaitMeansStopped ==
  \A w \in Workers :
    plan[w].role = "Wait" /\ Unshared(plan[w].handle) /\ pc[w] = "done" /\ result[w].err = None =>
      (Mine(w).status # None => Mine(w).completed /\ task.status = "stopped")

(* WaitForCompleteStatus reports completion only of a task that stopped    *)
(* and success only of one that succeeded, shared handle or not; that      *)
(* completion without success is a failure is sure of an unshared handle   *)
(* only, for another's ping clears IsSuccessful between the two reads      *)
(* (tasks.go:209, 212).                                                    *)
StatusIsTheEnd ==
  \A w \in Workers :
    plan[w].role = "WaitForCompleteStatus" /\ pc[w] = "done" /\ result[w].completed =>
      /\ task.status = "stopped"
      /\ result[w].status => task.exit \in {"OK", "WARNINGS"}
      /\ ~result[w].status /\ Unshared(plan[w].handle) => task.exit = "failed"

(* What a wait that returns says of the task is true.                      *)
VerdictsHold == WaitMeansStopped /\ StatusIsTheEnd

Received(w) == {delivered[w][i] : i \in DOMAIN delivered[w]}

(* A reader of Watch has received, with the page it is about to receive,   *)
(* each line before some point of the log exactly once, in whatever order  *)
(* within a page: none is skipped and none is repeated.                    *)
WatchedOnce ==
  \A w \in Workers : plan[w].role = "Watch" /\ site[w] = "loop" =>
    /\ Received(w) \cup page[w] = plan[w].start..(plan[w].start + Len(delivered[w]) + Cardinality(page[w]) - 1)
    /\ Received(w) \cap page[w] = {}

(* No goroutine dereferences a client that another's ping has cleared.     *)
NoNilClient == \A w \in Workers : result[w].err # "nilclient"

(* Each ping takes the client out of its handle and puts it back: whatever *)
(* the replies, and whatever pings of other handles do meanwhile, the      *)
(* owner of an unshared handle never meets its client missing.             *)
OwnClientKept ==
  \A w \in Workers : Unshared(plan[w].handle) => result[w].err # "nilclient"

(* Wait and WaitForCompleteStatus return, at the latest after the timeout, *)
(* even when the task never stops.                                         *)
EveryWaitReturns ==
  \A w \in Workers : plan[w].role # "Watch" => <>(pc[w] = "done")

(* Once the task has stopped, Watch closes its channel, unless its reader  *)
(* has left or its polls are answered with no data.                        *)
WatchCloses ==
  \A w \in Workers :
    [](task.status = "stopped" /\ plan[w].role = "Watch" /\ [](reply[w].answer # "null")
         => <>(pc[w] = "done" \/ ~reading[w]))
-----------------------------------------------------------------------------
(* The inductive invariant of TaskProofs, checked by TLC.                  *)

(* Field by field, what a handle says of the end of the task is not wrong, *)
(* nor what a goroutine has been told, has concluded or has returned.      *)
TellsTrue(t) ==
  /\ t.status = "stopped" => task.status = "stopped"
  /\ t.exit # None => t.exit = task.exit
  /\ t.completed \/ t.failed => task.status = "stopped"
  /\ t.successful => taskExitSucceeded(task.exit)

KnowsTrue(w) ==
  /\ reply[w].status = "stopped" => task.status = "stopped"
  /\ reply[w].exit # None => reply[w].exit = task.exit
  /\ pc[w] \in {"complete", "exit", "succeed", "fail"} => task.status = "stopped"
  /\ pc[w] = "succeed" => taskExitSucceeded(task.exit)
  /\ result[w].completed => task.status = "stopped"
  /\ result[w].status => taskExitSucceeded(task.exit)

TaskInv ==
  /\ IF task.status = "stopped" THEN task.exit \in Exits ELSE task.exit = None
  /\ \A w \in Workers : KnowsTrue(w)
  /\ \A h \in Handles : TellsTrue(handle[h])

(* With a handle of its own a goroutine finds in it what it left there.    *)
OwnClient(w) ==
  /\ Mine(w).client \/ pc[w] \in (Copying \ {"copyClient"}) \cup {"restore", "giveBack"}
  /\ pc[w] \in {"get", "restore", "giveBack"} \cup Copying => saved[w]
  /\ result[w].err # "nilclient"

(* A status and the exit beside it are of one reply, but between copying   *)
(* the one and the other.                                                  *)
OwnReply(w) ==
  /\ reply[w].status = "stopped" => reply[w].exit = task.exit
  /\ IF pc[w] = "copyExit" THEN Mine(w).status = reply[w].status
     ELSE Mine(w).status = "stopped" => Mine(w).exit = task.exit

(* The flags are cleared one by one, then say no more than the status and  *)
(* the exit beside them, and at last say it all.                           *)
OwnFlags(w) == LET t == Mine(w) IN
  /\ t.failed => task.exit = "failed"
  /\ pc[w] \in {"copyRunning", "copyFailed", "copySuccessful"} => ~t.completed
  /\ pc[w] \in {"copyFailed", "copySuccessful"} => ~t.running
  /\ pc[w] = "copySuccessful" => ~t.failed
  /\ pc[w] \notin Copying \ {"copyClient", "copyStatus"} =>
       /\ t.completed => t.status = "stopped"
       /\ t.running => t.status # "stopped"
       /\ t.successful \/ t.failed => t.completed
  /\ pc[w] = "complete" => t.status = "stopped"
  /\ pc[w] = "run" => t.status # "stopped"
  /\ pc[w] \in {"exit", "succeed", "fail"} => t.completed
  /\ pc[w] = "fail" => task.exit = "failed"
  /\ pc[w] \notin Copying \cup {"restore", "giveBack", "judge", "complete", "exit", "succeed", "fail"} =>
       (t.status = "stopped" => t.completed)
  /\ pc[w] \notin Copying \cup Deriving => (t.completed => t.successful \/ t.failed)

OwnWait(w) ==
  plan[w].role = "Wait" =>
    /\ pc[w] # "status"
    /\ pc[w] = "done" /\ result[w].err = None => Mine(w).status # "running"

OwnPoll(w) ==
  plan[w].role = "WaitForCompleteStatus" =>
    /\ result[w].completed => pc[w] \in {"status", "done"} /\ Mine(w).completed
    /\ pc[w] = "status" => result[w].completed
    /\ pc[w] = "done" /\ result[w].completed => result[w].status = Mine(w).successful

Own(w) == OwnClient(w) /\ OwnReply(w) /\ OwnFlags(w) /\ OwnWait(w) /\ OwnPoll(w)

OwnInv == \A w \in Workers : Unshared(plan[w].handle) => Own(w)

(* What a watch from the first line has received or is about to.           *)
Watched(w) ==
  plan[w].role = "Watch" =>
    /\ site[w] = "first" => next[w] = 0 /\ page[w] = {} /\ delivered[w] = <<>>
    /\ page[w] # {} => pc[w] \in {"send", "done"}
    /\ Received(w) \cup page[w] = 0..(next[w] - 1)
    /\ Received(w) \cap page[w] = {}
    /\ next[w] = Len(delivered[w]) + Cardinality(page[w])

WatchInv == \A w \in Workers : Watched(w)

IndInv == TypeOK /\ TaskInv /\ OwnInv
=============================================================================
