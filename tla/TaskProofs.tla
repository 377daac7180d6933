----------------------------- MODULE TaskProofs -----------------------------
(***************************************************************************)
(* Theorems about Task, for any goroutines, handles, plans, page size and  *)
(* number of lines.  What needs a handle of one's own says so in the       *)
(* property; one theorem is of watches from the first line, which its      *)
(* ASSUME says.                                                            *)
(***************************************************************************)
EXTENDS Task, TLAPS, FiniteSetTheorems

(* Watches start from the first line.                                      *)
FromTheStart ==
  \A p \in Plans : \A w \in Workers : p[w].role = "Watch" => p[w].start = 0

-----------------------------------------------------------------------------
(* Types.                                                                  *)

(* The plan stays one of the plans.                                        *)
LEMMA PlanFields ==
  ASSUME TypeOK, NEW w \in Workers
  PROVE  /\ plan[w].handle \in Handles /\ plan[w].role \in Roles /\ plan[w].start \in Nat
         /\ plan[w].faults \subseteq {"error", "null"}
  BY PlansAssumption DEF TypeOK, Jobs

(* A page of the log is a finite run of its lines.                         *)
LEMMA PageOfLines ==
  ASSUME TypeOK, NEW from \in Nat
  PROVE  /\ Ahead(from) \subseteq 0..MaxLines
         /\ IsFiniteSet(Ahead(from)) /\ Cardinality(Ahead(from)) \in Nat
         /\ Ahead(from) = from..(from + Cardinality(Ahead(from)) - 1)
<1> DEFINE top == IF task.lines < from THEN from
                  ELSE IF task.lines < from + Page THEN task.lines ELSE from + Page
<1>1. task.lines \in 0..MaxLines /\ MaxLines \in Nat /\ Page \in Nat
  BY BoundsAssumption DEF TypeOK
<1>2. top \in Nat /\ from <= top
  BY <1>1
<1>3. Ahead(from) = from..(top - 1)
  BY <1>1 DEF Ahead
<1>4. IsFiniteSet(from..(top - 1)) /\ Cardinality(from..(top - 1)) = top - from
  <2>1. CASE top = from
    <3>1. from..(top - 1) = {}
      BY <2>1
    <3> QED BY <2>1, <3>1, FS_EmptySet
  <2>2. CASE top # from
    <3>1. from \in Int /\ top - 1 \in Int /\ ~ from > top - 1
      BY <1>2, <2>2
    <3>2. top - 1 - from + 1 = top - from
      BY <1>2
    <3> HIDE DEF top
    <3> QED BY <3>1, <3>2, FS_Interval
  <2> QED BY <2>1, <2>2
<1>5. Ahead(from) \subseteq 0..MaxLines
  BY <1>1, <1>3
<1> HIDE DEF top
<1> QED BY <1>2, <1>3, <1>4, <1>5

(* What a log request may be answered.                                     *)
LEMMA AnswerIsAPage ==
  ASSUME TypeOK, NEW w \in Workers, NEW a \in LogAnswers(w)
  PROVE  a.ok \in BOOLEAN /\ (a.rows = {} \/ a.rows = Ahead(next[w]))
  BY DEF LogAnswers

(* Every answer's rows are lines of the log.                               *)
LEMMA RowsAreLines ==
  ASSUME TypeOK, NEW w \in Workers, NEW a \in LogAnswers(w)
  PROVE  a.rows \in SUBSET (0..MaxLines) /\ Cardinality(a.rows) \in Nat
<1>1. next[w] \in Nat
  BY DEF TypeOK
<1>2. CASE a.rows = {}
  <2>1. Cardinality({}) = 0
    BY FS_EmptySet
  <2> QED BY <1>2, <2>1
<1>3. CASE a.rows = Ahead(next[w])
  BY <1>1, <1>3, PageOfLines
<1> QED BY <1>2, <1>3, AnswerIsAPage

(* At the start.                                                           *)
LEMMA InitType == Init => TypeOK
<1> SUFFICES ASSUME Init PROVE TypeOK OBVIOUS
<1>1. \A w \in Workers : plan[w] \in Jobs
  BY PlansAssumption DEF Init
<1>2. pc \in [Workers -> Places]
  BY <1>1 DEF Init, Begins, Places, Jobs
<1>3. next \in [Workers -> Nat]
  BY <1>1 DEF Init, Jobs
<1>4. handle \in [Handles -> TaskHandles]
  BY DEF Init, Fresh, TaskHandles, None, Exits
<1> QED BY <1>2, <1>3, <1>4, BoundsAssumption DEF Init, TypeOK, Replies, NoReply, NoneYet, Returns, Errors, Exits, None

(* Going somewhere, returning and failing keep the types.                  *)
LEMMA GotoType ==
  ASSUME TypeOK, NEW w \in Workers, NEW to \in Places, Goto(w, to)
  PROVE  pc' \in [Workers -> Places]
  BY DEF TypeOK, Goto

LEMMA ReturnType ==
  ASSUME TypeOK, NEW w \in Workers, NEW r \in Returns, Return(w, r)
  PROVE  pc' \in [Workers -> Places] /\ result' \in [Workers -> Returns]
  BY DEF TypeOK, Return, Goto, Places

LEMMA FailType ==
  ASSUME TypeOK, NEW w \in Workers, NEW e \in Errors, Fail(w, e)
  PROVE  pc' \in [Workers -> Places] /\ result' \in [Workers -> Returns]
<1>1. result[w] \in Returns
  BY DEF TypeOK
<1>2. [result[w] EXCEPT !.err = e] \in Returns
  BY <1>1 DEF Returns
<1> QED BY <1>2, ReturnType DEF Fail

(* So do one access of the handle and one look at it.                      *)
LEMMA SetType ==
  ASSUME TypeOK, NEW w \in Workers, NEW at, NEW new \in TaskHandles, NEW to \in Places,
         Set(w, at, new, to)
  PROVE  TypeOK'
<1>1. pc' \in [Workers -> Places]
  BY GotoType DEF Set
<1>2. handle' \in [Handles -> TaskHandles]
  BY PlanFields DEF Set, TypeOK
<1> QED BY <1>1, <1>2 DEF Set, TypeOK, env, watch

LEMMA CheckType ==
  ASSUME TypeOK, NEW w \in Workers, NEW at, NEW c, NEW yes \in Places, NEW no \in Places,
         Check(w, at, c, yes, no)
  PROVE  TypeOK'
<1>1. pc' \in [Workers -> Places]
  BY GotoType DEF Check
<1> QED BY <1>1 DEF Check, TypeOK, env, watch

(* A handle with one field set is a handle.                                *)
LEMMA HandleTypes ==
  ASSUME NEW t \in TaskHandles, NEW b \in BOOLEAN, NEW r \in Replies
  PROVE  /\ [t EXCEPT !.client = b] \in TaskHandles
         /\ [t EXCEPT !.status = r.status] \in TaskHandles
         /\ [t EXCEPT !.exit = r.exit] \in TaskHandles
         /\ [t EXCEPT !.completed = b] \in TaskHandles
         /\ [t EXCEPT !.running = b] \in TaskHandles
         /\ [t EXCEPT !.successful = b] \in TaskHandles
         /\ [t EXCEPT !.failed = b] \in TaskHandles
  BY DEF TaskHandles, Replies

(* A goroutine's own handle, and what it knows.                            *)
LEMMA MineTypes ==
  ASSUME TypeOK, NEW w \in Workers
  PROVE  /\ Mine(w) \in TaskHandles /\ Mine(w) = handle[plan[w].handle]
         /\ plan[w].handle \in Handles
         /\ reply[w] \in Replies /\ saved[w] \in BOOLEAN /\ result[w] \in Returns
  BY PlanFields DEF TypeOK, Mine

(* A ping keeps the types.                                                 *)
LEMMA PingType ==
  ASSUME TypeOK, NEW w \in Workers, Ping(w)
  PROVE  TypeOK'
<1>0. Mine(w) \in TaskHandles /\ reply[w] \in Replies /\ saved[w] \in BOOLEAN
  BY MineTypes
<1>1. CASE PingStart(w)
  <2>1. Mine(w).client \in BOOLEAN
    BY <1>0 DEF TaskHandles
  <2>2. saved' \in [Workers -> BOOLEAN]
    BY <1>1, <2>1, Zenon DEF PingStart, TypeOK
  <2>3. pc' \in [Workers -> Places]
    BY <1>1, GotoType DEF PingStart, Places
  <2> QED BY <1>1, <2>2, <2>3 DEF PingStart, TypeOK, env, watch
<1>2. CASE PingGet(w)
  <2>1. task.status \in {None, "running", "stopped"} /\ task.exit \in {None} \cup Exits
    BY DEF TypeOK
  <2>2. \A a \in plan[w].faults \cup {"status"} :
          (IF a = "status" THEN [answer |-> a, status |-> task.status, exit |-> task.exit]
                           ELSE [NoReply EXCEPT !.answer = a]) \in Replies
    BY <2>1, PlanFields DEF Replies, NoReply
  <2>3. reply' \in [Workers -> Replies]
    <3>1. CASE ~Mine(w).client
      BY <1>2, <3>1 DEF PingGet, TypeOK
    <3>2. CASE Mine(w).client
      <4>1. PICK r \in Replies : reply' = [reply EXCEPT ![w] = r]
        BY <1>2, <2>2, <3>2, Zenon DEF PingGet
      <4> QED BY <4>1 DEF TypeOK
    <3> QED BY <3>1, <3>2
  <2>4. pc' \in [Workers -> Places] /\ result' \in [Workers -> Returns]
    <3>1. CASE ~Mine(w).client
      BY <1>2, <3>1, FailType DEF PingGet, Errors
    <3>2. CASE Mine(w).client
      <4>1. Goto(w, "copyClient") \/ Goto(w, "restore") \/ Goto(w, "pinged")
        BY <1>2, <3>2, PlanFields DEF PingGet
      <4>2. result' = result
        BY <1>2, <3>2 DEF PingGet
      <4> QED BY <4>1, <4>2, GotoType DEF TypeOK, Places, Copying, Deriving
    <3> QED BY <3>1, <3>2
  <2> QED BY <1>2, <2>3, <2>4 DEF PingGet, TypeOK, env, watch
<1>3. CASE PingDecode(w) \/ PingRestore(w) \/ PingDerive(w)
  <2>1. /\ Copying \cup Deriving \cup {"pinged"} \subseteq Places
        /\ TRUE \in BOOLEAN /\ FALSE \in BOOLEAN
    BY DEF Places
  <2>2. /\ {"copyStatus", "copyExit", "copyCompleted", "copyRunning", "copyFailed", "copySuccessful"}
             \subseteq Copying
        /\ {"restore", "giveBack", "judge", "complete", "run", "ended", "exit", "succeed", "fail"}
             \subseteq Deriving
    BY DEF Copying, Deriving
  <2>3. CASE PingDecode(w)
    BY <1>0, <2>1, <2>2, <2>3, HandleTypes, SetType DEF PingDecode
  <2>4. CASE PingRestore(w)
    BY <1>0, <2>1, <2>2, <2>4, HandleTypes, SetType, CheckType DEF PingRestore, Restored
  <2>5. CASE PingDerive(w)
    BY <1>0, <2>1, <2>2, <2>5, HandleTypes, SetType, CheckType DEF PingDerive
  <2> QED BY <1>3, <2>3, <2>4, <2>5
<1> QED BY <1>1, <1>2, <1>3 DEF Ping

(* A panic keeps the types.                                                *)
LEMMA RemarkType ==
  ASSUME TypeOK, NEW w \in Workers, Remark(w)
  PROVE  TypeOK'
<1>1. pc' \in [Workers -> Places] /\ result' \in [Workers -> Returns]
  BY FailType DEF Remark, Errors
<1> QED BY <1>1 DEF Remark, TypeOK, env, watch

(* The steps of the two waits keep the types.                              *)
LEMMA WaitType ==
  ASSUME TypeOK, NEW w \in Workers,
         Timer(w) \/ WaitPinged(w) \/ PollPinged(w) \/ PollStatus(w)
  PROVE  TypeOK'
<1>0. Mine(w) \in TaskHandles /\ result[w] \in Returns
  BY PlanFields DEF TypeOK, Mine
<1>1. CASE Timer(w)
  <2>1. pc' \in [Workers -> Places] /\ result' \in [Workers -> Returns]
    BY <1>0, <1>1, FailType, GotoType, ReturnType DEF Timer, TypeOK, Places, Errors
  <2> QED BY <1>1, <2>1 DEF Timer, TypeOK, env, watch
<1>2. CASE WaitPinged(w)
  <2>1. pc' \in [Workers -> Places] /\ result' \in [Workers -> Returns]
    BY <1>0, <1>2, FailType, GotoType, ReturnType DEF WaitPinged, TypeOK, Places, Errors
  <2>2. site' \in [Workers -> {"first", "loop"}]
    BY <1>2 DEF WaitPinged, TypeOK
  <2> QED BY <1>2, <2>1, <2>2 DEF WaitPinged, TypeOK, env, watch
<1>3. CASE PollPinged(w)
  <2> DEFINE e == IF Erred(w) THEN "ping" ELSE None
             c == IF Erred(w) THEN result[w].completed ELSE Mine(w).completed
  <2>1. e \in Errors
    BY DEF Errors
  <2>2. c \in BOOLEAN
    BY <1>0 DEF TaskHandles, Returns
  <2>3. result' = [result EXCEPT ![w] = [@ EXCEPT !.err = e, !.completed = c]]
    BY <1>3 DEF PollPinged
  <2> HIDE DEF e, c
  <2>4. [result[w] EXCEPT !.err = e, !.completed = c] \in Returns
    BY <1>0, <2>1, <2>2 DEF Returns
  <2>5. result' \in [Workers -> Returns]
    BY <2>3, <2>4 DEF TypeOK
  <2>6. pc' \in [Workers -> Places]
    BY <1>3, GotoType DEF PollPinged, Places
  <2> QED BY <1>3, <2>5, <2>6 DEF PollPinged, TypeOK, env, watch
<1>4. CASE PollStatus(w)
  <2>1. Mine(w).successful \in BOOLEAN
    BY <1>0 DEF TaskHandles
  <2>2. [result[w] EXCEPT !.status = Mine(w).successful] \in Returns
    BY <1>0, <2>1 DEF Returns
  <2>3. pc' \in [Workers -> Places] /\ result' \in [Workers -> Returns]
    BY <1>4, <2>2, ReturnType DEF PollStatus
  <2> QED BY <1>4, <2>3 DEF PollStatus, TypeOK, env, watch
<1> QED BY <1>1, <1>2, <1>3, <1>4

(* The steps of a watch keep the types.                                    *)
LEMMA WatchType ==
  ASSUME TypeOK, NEW w \in Workers,
         WatchLog(w) \/ Deliver(w) \/ PageSent(w) \/ TailPinged(w) \/ TailLog(w)
  PROVE  TypeOK'
<1>0. \A a \in LogAnswers(w) :
        a.ok \in BOOLEAN /\ a.rows \in SUBSET (0..MaxLines) /\ Cardinality(a.rows) \in Nat
  BY AnswerIsAPage, RowsAreLines
<1>1. CASE WatchLog(w)
  <2>1. pc' \in [Workers -> Places] /\ result' \in [Workers -> Returns]
    BY <1>0, <1>1, FailType, GotoType DEF WatchLog, TypeOK, Places, Errors
  <2>2. site' \in [Workers -> {"first", "loop"}]
    <3>1. UNCHANGED site \/ site' = [site EXCEPT ![w] = "loop"]
      BY <1>0, <1>1 DEF WatchLog
    <3> QED BY <3>1 DEF TypeOK
  <2>3. page' \in [Workers -> SUBSET (0..MaxLines)] /\ next' \in [Workers -> Nat]
    <3>1. \/ page' = page /\ next' = next
          \/ \E a \in LogAnswers(w) : /\ page' = [page EXCEPT ![w] = a.rows]
                                       /\ next' = [next EXCEPT ![w] = TailFrom(a.rows)]
      BY <1>0, <1>1 DEF WatchLog, watch
    <3>2. \A a \in LogAnswers(w) : TailFrom(a.rows) \in Nat
      BY <1>0 DEF TailFrom
    <3>3. page \in [Workers -> SUBSET (0..MaxLines)] /\ next \in [Workers -> Nat]
      BY DEF TypeOK
    <3>4. CASE page' = page /\ next' = next
      BY <3>3, <3>4
    <3>5. ASSUME NEW a \in LogAnswers(w), page' = [page EXCEPT ![w] = a.rows],
                 next' = [next EXCEPT ![w] = TailFrom(a.rows)]
          PROVE  page' \in [Workers -> SUBSET (0..MaxLines)] /\ next' \in [Workers -> Nat]
      <4>1. a.rows \in SUBSET (0..MaxLines) /\ TailFrom(a.rows) \in Nat
        BY <1>0, <3>2
      <4>2. page' \in [Workers -> SUBSET (0..MaxLines)]
        BY <3>3, <3>5, <4>1
      <4>3. next' \in [Workers -> Nat]
        BY <3>3, <3>5, <4>1
      <4> QED BY <4>2, <4>3
    <3> QED BY <3>1, <3>4, <3>5
  <2>4. tries' \in [Workers -> 0..3] /\ delivered' = delivered
    BY <1>0, <1>1 DEF WatchLog, TypeOK, watch, AsksAgain
  <2> QED BY <1>1, <2>1, <2>2, <2>3, <2>4 DEF WatchLog, TypeOK, env
<1>2. CASE Deliver(w)
  <2>1. PICK n \in page[w] : /\ page' = [page EXCEPT ![w] = @ \ {n}]
                             /\ delivered' = [delivered EXCEPT ![w] = Append(@, n)]
    BY <1>2 DEF Deliver
  <2>2. n \in 0..MaxLines
    BY DEF TypeOK
  <2>3. delivered' \in [Workers -> Seq(0..MaxLines)]
    BY <2>1, <2>2 DEF TypeOK
  <2> QED BY <1>2, <2>1, <2>3 DEF Deliver, TypeOK, env, call
<1>3. CASE PageSent(w)
  <2>1. pc' \in [Workers -> Places]
    BY <1>3, GotoType DEF PageSent, Places
  <2> QED BY <1>3, <2>1 DEF PageSent, TypeOK, env, watch
<1>4. CASE TailPinged(w)
  <2>1. pc' \in [Workers -> Places] /\ result' \in [Workers -> Returns]
    BY <1>4, GotoType, ReturnType DEF TailPinged, TypeOK, Places
  <2> QED BY <1>4, <2>1 DEF TailPinged, TypeOK, env, watch
<1>5. CASE TailLog(w)
  <2>1. pc' \in [Workers -> Places] /\ result' \in [Workers -> Returns]
    BY <1>0, <1>5, FailType, GotoType DEF TailLog, TypeOK, Places, Errors
  <2>2. page' \in [Workers -> SUBSET (0..MaxLines)] /\ next' \in [Workers -> Nat]
    <3>1. \/ UNCHANGED <<page, next>>
          \/ \E a \in LogAnswers(w) : /\ page' = [page EXCEPT ![w] = a.rows]
                                      /\ next' = [next EXCEPT ![w] = @ + Cardinality(a.rows)]
      BY <1>5 DEF TailLog, watch, Advanced
    <3>2. next \in [Workers -> Nat] /\ page \in [Workers -> SUBSET (0..MaxLines)]
      BY DEF TypeOK
    <3>3. \A n \in Nat : next[w] + n \in Nat
      BY <3>2
    <3>4. next' \in [Workers -> Nat]
      BY <1>0, <3>1, <3>2, <3>3
    <3>5. page' \in [Workers -> SUBSET (0..MaxLines)]
      BY <1>0, <3>1, <3>2
    <3> QED BY <3>4, <3>5
  <2>3. tries' = tries /\ delivered' = delivered
    BY <1>0, <1>5 DEF TailLog, watch
  <2> QED BY <1>5, <2>1, <2>2, <2>3 DEF TailLog, TypeOK, env
<1> QED BY <1>1, <1>2, <1>3, <1>4, <1>5

(* So do the server, the timers, the contexts and the readers.             *)
LEMMA OutsideType ==
  ASSUME TypeOK,
         \/ TaskLogs \/ TaskStops
         \/ \E w \in Workers : Expire(w) \/ Cancel(w) \/ ReaderLeaves(w)
  PROVE  TypeOK'
<1>1. CASE TaskLogs
  <2>1. task.lines + 1 \in 0..MaxLines
    BY <1>1, BoundsAssumption DEF TaskLogs, LinesOfInterest, TypeOK
  <2> HIDE DEF TaskLogs
  <2> QED BY <1>1, <2>1 DEF TaskLogs, TypeOK, call, watch
<1>2. CASE TaskStops
  BY <1>2 DEF TaskStops, TypeOK, call, watch
<1>3. CASE \E w \in Workers : Expire(w) \/ Cancel(w) \/ ReaderLeaves(w)
  BY <1>3 DEF Expire, Cancel, ReaderLeaves, TypeOK, call, watch
<1> QED BY <1>1, <1>2, <1>3

(* Every step keeps the types.                                             *)
LEMMA NextType == TypeOK /\ [Next]_vars => TypeOK'
<1>1. TypeOK /\ UNCHANGED vars => TypeOK'
  BY DEF vars, env, call, watch, TypeOK
<1>2. \A w \in Workers : TypeOK /\ Step(w) => TypeOK'
  BY PingType, RemarkType, WaitType, WatchType DEF Step
<1> QED BY <1>1, <1>2, OutsideType DEF Next

(* The variables keep their types.                                         *)
THEOREM TypeCorrect == Spec => []TypeOK
  BY InitType, NextType, PTL DEF Spec

-----------------------------------------------------------------------------
(* What is said of the task, over handles shared or not.                   *)

(* What a step of w leaves of the others.                                  *)
LEMMA OthersAreUntouched ==
  ASSUME TypeOK, NEW w \in Workers,
         Step(w) \/ Expire(w) \/ Cancel(w) \/ ReaderLeaves(w)
  PROVE  /\ plan' = plan /\ task' = task
         /\ \A v \in Workers \ {w} :
              pc'[v] = pc[v] /\ result'[v] = result[v] /\ saved'[v] = saved[v] /\ reply'[v] = reply[v]
         /\ \A h \in Handles : h # plan[w].handle => handle'[h] = handle[h]
<1>1. CASE PingStart(w) \/ PingGet(w) \/ Remark(w)
  BY <1>1 DEF PingStart, PingGet, Remark, TypeOK, Goto, Fail, Return, env
<1>2. CASE PingDecode(w)
  BY <1>2 DEF PingDecode, Set, TypeOK, Goto, env
<1>3. CASE PingRestore(w) \/ PingDerive(w)
  BY <1>3 DEF PingRestore, PingDerive, Set, Check, TypeOK, Goto, env
<1>4. CASE \/ Timer(w) \/ WaitPinged(w) \/ PollPinged(w) \/ PollStatus(w)
           \/ PageSent(w) \/ TailPinged(w)
  BY <1>4 DEF Timer, WaitPinged, PollPinged, PollStatus, PageSent, TailPinged, TypeOK, Goto, Fail, Return, env
<1>5. CASE WatchLog(w) \/ TailLog(w)
  BY <1>5 DEF WatchLog, TailLog, TypeOK, Goto, Fail, Return, env
<1>6. CASE Deliver(w) \/ Expire(w) \/ Cancel(w) \/ ReaderLeaves(w)
  BY <1>6 DEF Deliver, Expire, Cancel, ReaderLeaves, call, env
<1> QED BY <1>1, <1>2, <1>3, <1>4, <1>5, <1>6 DEF Step, Ping

(* A step of w that keeps the truth of what w knows and of its handle      *)
(* keeps all.                                                              *)
LEMMA TruthIsLocal ==
  ASSUME TypeOK, TaskInv, NEW w \in Workers,
         Step(w) \/ Expire(w) \/ Cancel(w) \/ ReaderLeaves(w),
         KnowsTrue(w)', TellsTrue(handle'[plan[w].handle])
  PROVE  TaskInv'
<1>1. /\ task' = task
      /\ \A v \in Workers \ {w} : pc'[v] = pc[v] /\ result'[v] = result[v] /\ reply'[v] = reply[v]
      /\ \A h \in Handles : h # plan[w].handle => handle'[h] = handle[h]
  BY OthersAreUntouched
<1>2. \A v \in Workers : KnowsTrue(v)'
  BY <1>1 DEF TaskInv, KnowsTrue
<1>3. \A h \in Handles : TellsTrue(handle[h])'
  BY <1>1 DEF TaskInv, TellsTrue
<1> QED BY <1>1, <1>2, <1>3 DEF TaskInv

(* What one access of the handle does to its goroutine.                    *)
LEMMA SetGives ==
  ASSUME TypeOK, NEW w \in Workers, NEW at, NEW new, NEW to, Set(w, at, new, to)
  PROVE  /\ pc[w] = at /\ pc'[w] = to /\ handle'[plan[w].handle] = new
         /\ UNCHANGED <<plan, task, site, saved, reply, result>>
  BY MineTypes DEF Set, Goto, TypeOK, env

LEMMA CheckGives ==
  ASSUME TypeOK, NEW w \in Workers, NEW at, NEW c, NEW yes, NEW no, Check(w, at, c, yes, no)
  PROVE  /\ pc[w] = at /\ pc'[w] = IF c THEN yes ELSE no
         /\ UNCHANGED <<plan, task, handle, site, saved, reply, result>>
  BY DEF Check, Goto, TypeOK, env

(* A failing call is done, with that error and the verdict it had.         *)
LEMMA FailGives ==
  ASSUME TypeOK, NEW w \in Workers, NEW e \in Errors, Fail(w, e)
  PROVE  /\ pc'[w] = "done" /\ result'[w].err = e
         /\ result'[w].completed = result[w].completed /\ result'[w].status = result[w].status
  BY DEF TypeOK, Fail, Return, Goto, Returns

(* What deriving does, look by look and flag by flag.                      *)
LEMMA DeriveGives ==
  ASSUME TypeOK, NEW w \in Workers, PingDerive(w),
         NEW t, t = Mine(w), NEW u, u = handle'[plan[w].handle]
  PROVE  /\ UNCHANGED <<plan, task, saved, reply, result>>
         /\ \/ pc[w] = "judge" /\ pc'[w] = (IF t.status = "stopped" THEN "complete" ELSE "run") /\ u = t
            \/ pc[w] = "complete" /\ pc'[w] = "ended" /\ u = [t EXCEPT !.completed = TRUE]
            \/ pc[w] = "run" /\ pc'[w] = "ended" /\ u = [t EXCEPT !.running = TRUE]
            \/ pc[w] = "ended" /\ pc'[w] = (IF t.completed THEN "exit" ELSE "pinged") /\ u = t
            \/ pc[w] = "exit" /\ pc'[w] = (IF taskExitSucceeded(t.exit) THEN "succeed" ELSE "fail") /\ u = t
            \/ pc[w] = "succeed" /\ pc'[w] = "pinged" /\ u = [t EXCEPT !.successful = TRUE]
            \/ pc[w] = "fail" /\ pc'[w] = "pinged" /\ u = [t EXCEPT !.failed = TRUE]
<1>0. Mine(w) = handle[plan[w].handle]
  BY MineTypes
<1>1. CASE Check(w, "judge", Mine(w).status = "stopped", "complete", "run")
  BY <1>0, <1>1 DEF Check, Goto, TypeOK, env
<1>2. CASE Set(w, "complete", [Mine(w) EXCEPT !.completed = TRUE], "ended")
  BY <1>2, SetGives
<1>3. CASE Set(w, "run", [Mine(w) EXCEPT !.running = TRUE], "ended")
  BY <1>3, SetGives
<1>4. CASE Check(w, "ended", Mine(w).completed, "exit", "pinged")
  BY <1>0, <1>4 DEF Check, Goto, TypeOK, env
<1>5. CASE Check(w, "exit", taskExitSucceeded(Mine(w).exit), "succeed", "fail")
  BY <1>0, <1>5 DEF Check, Goto, TypeOK, env
<1>6. CASE Set(w, "succeed", [Mine(w) EXCEPT !.successful = TRUE], "pinged")
  BY <1>6, SetGives
<1>7. CASE Set(w, "fail", [Mine(w) EXCEPT !.failed = TRUE], "pinged")
  BY <1>7, SetGives
<1> QED BY <1>1, <1>2, <1>3, <1>4, <1>5, <1>6, <1>7 DEF PingDerive

(* A ping says of the task what a reply said.                              *)
LEMMA PingTells ==
  ASSUME TypeOK, TaskInv, NEW w \in Workers, Ping(w)
  PROVE  TaskInv'
<1> DEFINE h == plan[w].handle
<1>0. /\ h \in Handles /\ handle[h] \in TaskHandles /\ Mine(w) = handle[h]
      /\ KnowsTrue(w) /\ TellsTrue(handle[h]) /\ Step(w)
  BY MineTypes DEF TaskInv, Step
<1>1. CASE PingStart(w)
  <2>1. pc'[w] = "get" /\ UNCHANGED <<task, handle, reply, result>>
    BY <1>1 DEF PingStart, TypeOK, Goto, env
  <2> QED BY <1>0, <2>1, TruthIsLocal DEF KnowsTrue, TellsTrue
<1>2. CASE PingGet(w)
  <2>1. UNCHANGED <<task, handle>>
    BY <1>2 DEF PingGet, env
  <2>2. CASE ~Mine(w).client
    <3>1. Fail(w, "nilclient") /\ UNCHANGED reply
      BY <1>2, <2>2 DEF PingGet
    <3>2. pc'[w] = "done" /\ result'[w].completed = result[w].completed /\ result'[w].status = result[w].status
      BY <3>1, FailGives DEF Errors
    <3> QED BY <1>0, <2>1, <3>1, <3>2, TruthIsLocal DEF KnowsTrue, TellsTrue
  <2>3. CASE Mine(w).client
    <3>1. PICK a \in plan[w].faults \cup {"status"} :
            /\ reply' = [reply EXCEPT ![w] =
                 IF a = "status" THEN [answer |-> a, status |-> task.status, exit |-> task.exit]
                                 ELSE [NoReply EXCEPT !.answer = a]]
            /\ Goto(w, CASE a = "status" -> "copyClient" [] a = "null" -> "restore" [] OTHER -> "pinged")
      BY <1>2, <2>3, Zenon DEF PingGet
    <3>2. pc'[w] \in {"copyClient", "restore", "pinged"} /\ UNCHANGED result
      BY <1>2, <2>3, <3>1 DEF PingGet, Goto, TypeOK
    <3>3. \/ reply'[w].status = task.status /\ reply'[w].exit = task.exit
          \/ reply'[w].status = None /\ reply'[w].exit = None
      BY <3>1 DEF TypeOK, NoReply
    <3> QED BY <1>0, <2>1, <3>2, <3>3, TruthIsLocal DEF KnowsTrue, TellsTrue, None
  <2> QED BY <2>2, <2>3
<1>3. CASE PingDecode(w)
  <2>1. /\ UNCHANGED <<task, reply, result>>
        /\ pc'[w] \in {"copyStatus", "copyExit", "copyCompleted", "copyRunning", "copyFailed",
                        "copySuccessful", "restore"}
    BY <1>3, SetGives DEF PingDecode
  <2>2. TellsTrue(handle'[h])
    <3>1. \/ handle'[h] = [handle[h] EXCEPT !.client = FALSE]
          \/ handle'[h] = [handle[h] EXCEPT !.status = reply[w].status]
          \/ handle'[h] = [handle[h] EXCEPT !.exit = reply[w].exit]
          \/ handle'[h] = [handle[h] EXCEPT !.completed = FALSE]
          \/ handle'[h] = [handle[h] EXCEPT !.running = FALSE]
          \/ handle'[h] = [handle[h] EXCEPT !.failed = FALSE]
          \/ handle'[h] = [handle[h] EXCEPT !.successful = FALSE]
      BY <1>0, <1>3, SetGives DEF PingDecode
    <3> HIDE DEF h
    <3> QED BY <1>0, <3>1 DEF TellsTrue, KnowsTrue, TaskHandles
  <2> QED BY <1>0, <2>1, <2>2, TruthIsLocal DEF KnowsTrue
<1>4. CASE PingRestore(w)
  <2>1. UNCHANGED <<task, reply, result>> /\ pc'[w] \in {"judge", "giveBack"}
    BY <1>4, SetGives, CheckGives DEF PingRestore
  <2>2. handle'[h] = handle[h] \/ handle'[h] = Restored(handle[h], saved[w])
    BY <1>0, <1>4, SetGives, CheckGives DEF PingRestore
  <2>3. TellsTrue(handle'[h])
    BY <1>0, <2>2 DEF TellsTrue, Restored, TaskHandles
  <2> QED BY <1>0, <2>1, <2>3, TruthIsLocal DEF KnowsTrue
<1>5. CASE PingDerive(w)
  <2>1. UNCHANGED <<task, reply, result>>
    BY <1>5, DeriveGives
  <2>2. \/ /\ handle'[h] = handle[h]
           /\ \/ pc[w] = "judge" /\ pc'[w] = (IF handle[h].status = "stopped" THEN "complete" ELSE "run")
              \/ pc[w] = "ended" /\ pc'[w] = (IF handle[h].completed THEN "exit" ELSE "pinged")
              \/ pc[w] = "exit" /\ pc'[w] = (IF taskExitSucceeded(handle[h].exit) THEN "succeed" ELSE "fail")
        \/ pc[w] = "complete" /\ pc'[w] = "ended" /\ handle'[h] = [handle[h] EXCEPT !.completed = TRUE]
        \/ pc[w] = "run" /\ pc'[w] = "ended" /\ handle'[h] = [handle[h] EXCEPT !.running = TRUE]
        \/ pc[w] = "succeed" /\ pc'[w] = "pinged" /\ handle'[h] = [handle[h] EXCEPT !.successful = TRUE]
        \/ pc[w] = "fail" /\ pc'[w] = "pinged" /\ handle'[h] = [handle[h] EXCEPT !.failed = TRUE]
    <3> DEFINE t == Mine(w)
               u == handle'[plan[w].handle]
    <3>1. t = handle[h] /\ u = handle'[h]
      BY <1>0
    <3>2. \/ pc[w] = "judge" /\ pc'[w] = (IF t.status = "stopped" THEN "complete" ELSE "run") /\ u = t
          \/ pc[w] = "complete" /\ pc'[w] = "ended" /\ u = [t EXCEPT !.completed = TRUE]
          \/ pc[w] = "run" /\ pc'[w] = "ended" /\ u = [t EXCEPT !.running = TRUE]
          \/ pc[w] = "ended" /\ pc'[w] = (IF t.completed THEN "exit" ELSE "pinged") /\ u = t
          \/ pc[w] = "exit" /\ pc'[w] = (IF taskExitSucceeded(t.exit) THEN "succeed" ELSE "fail") /\ u = t
          \/ pc[w] = "succeed" /\ pc'[w] = "pinged" /\ u = [t EXCEPT !.successful = TRUE]
          \/ pc[w] = "fail" /\ pc'[w] = "pinged" /\ u = [t EXCEPT !.failed = TRUE]
      BY <1>0, <1>5, DeriveGives
    <3> HIDE DEF t, u
    <3> QED BY <3>1, <3>2
  <2> HIDE DEF h
  <2>3. TellsTrue(handle'[h])
    BY <1>0, <2>2 DEF TellsTrue, KnowsTrue, TaskHandles
  <2>4. taskExitSucceeded(handle[h].exit) => handle[h].exit = task.exit
    BY <1>0 DEF taskExitSucceeded, TellsTrue, None
  <2>5. KnowsTrue(w)'
    BY <1>0, <2>1, <2>2, <2>4 DEF KnowsTrue, TellsTrue
  <2> QED BY <1>0, <2>3, <2>5, TruthIsLocal DEF h
<1> QED BY <1>1, <1>2, <1>3, <1>4, <1>5 DEF Ping

(* What a goroutine returns of the task it has from its handle.            *)
LEMMA OtherStepsTell ==
  ASSUME TypeOK, TaskInv, NEW w \in Workers,
         \/ Remark(w) \/ Timer(w) \/ WaitPinged(w) \/ PollPinged(w) \/ PollStatus(w)
         \/ WatchLog(w) \/ Deliver(w) \/ PageSent(w) \/ TailPinged(w) \/ TailLog(w)
         \/ Expire(w) \/ Cancel(w) \/ ReaderLeaves(w)
  PROVE  TaskInv'
<1>0. /\ KnowsTrue(w) /\ TellsTrue(Mine(w)) /\ Mine(w) = handle[plan[w].handle]
      /\ Mine(w) \in TaskHandles /\ result[w] \in Returns
  BY MineTypes DEF TaskInv
<1>1. UNCHANGED <<plan, task, handle, reply>>
  BY DEF Remark, Timer, WaitPinged, PollPinged, PollStatus, WatchLog, Deliver, PageSent, TailPinged,
         TailLog, Expire, Cancel, ReaderLeaves, env, call
<1>2. \/ pc'[w] = pc[w] /\ result'[w] = result[w]
      \/ /\ pc'[w] \notin {"complete", "exit", "succeed", "fail"}
         /\ result'[w].completed \in {result[w].completed, Mine(w).completed}
         /\ result'[w].status \in {result[w].status, Mine(w).successful}
  <2>1. CASE Remark(w)
    BY <2>1, FailGives DEF Remark, Errors
  <2>2. CASE Timer(w)
    BY <2>2, FailGives DEF Timer, Errors, Return, Goto, TypeOK
  <2>3. CASE WaitPinged(w)
    BY <2>3, FailGives DEF WaitPinged, Errors, Return, Goto, TypeOK
  <2>4. CASE PollPinged(w)
    <3>1. pc'[w] \in {"status", "timer"}
      BY <2>4 DEF PollPinged, Goto, TypeOK
    <3>2. /\ result'[w].completed \in {result[w].completed, Mine(w).completed}
          /\ result'[w].status = result[w].status
      BY <1>0, <2>4 DEF PollPinged, TypeOK, Returns
    <3> QED BY <3>1, <3>2
  <2>5. CASE PollStatus(w)
    BY <1>0, <2>5 DEF PollStatus, Return, Goto, TypeOK, Returns
  <2>6. CASE WatchLog(w) \/ TailLog(w)
    <3>1. \/ Fail(w, "nilclient") \/ Fail(w, "log") \/ Fail(w, "nologs")
          \/ (Goto(w, "send") \/ UNCHANGED pc) /\ UNCHANGED result
      BY <2>6 DEF WatchLog, TailLog
    <3>2. CASE Fail(w, "nilclient") \/ Fail(w, "log") \/ Fail(w, "nologs")
      BY <3>2, FailGives DEF Errors
    <3>3. CASE (Goto(w, "send") \/ UNCHANGED pc) /\ UNCHANGED result
      BY <3>3 DEF Goto, TypeOK
    <3> QED BY <3>1, <3>2, <3>3
  <2>7. CASE PageSent(w) \/ TailPinged(w)
    BY <2>7 DEF PageSent, TailPinged, Return, Goto, TypeOK
  <2>8. CASE Deliver(w) \/ Expire(w) \/ Cancel(w) \/ ReaderLeaves(w)
    BY <2>8 DEF Deliver, Expire, Cancel, ReaderLeaves, call
  <2> QED BY <2>1, <2>2, <2>3, <2>4, <2>5, <2>6, <2>7, <2>8
<1>3. KnowsTrue(w)'
  BY <1>0, <1>1, <1>2 DEF KnowsTrue, TellsTrue
<1>4. TellsTrue(handle'[plan[w].handle])
  BY <1>0, <1>1
<1> QED BY <1>3, <1>4, TruthIsLocal DEF Step

(* The server's task goes on or stops: what was said of it stays true.     *)
LEMMA ServerTells ==
  ASSUME TypeOK, TaskInv, TaskLogs \/ TaskStops
  PROVE  TaskInv'
<1>1. /\ UNCHANGED <<plan, handle, reply, pc, result>>
      /\ task.status = "running" /\ task.exit = None
  BY DEF TaskLogs, TaskStops, call, TaskInv
<1>2. \/ task'.status = "running" /\ task'.exit = None
      \/ task'.status = "stopped" /\ task'.exit \in Exits
  BY <1>1 DEF TaskLogs, TaskStops, TypeOK
<1>3. ~taskExitSucceeded(None)
  BY DEF taskExitSucceeded, None
<1>4. \A w \in Workers : KnowsTrue(w)'
  BY <1>1, <1>3 DEF TaskInv, KnowsTrue
<1>5. \A h \in Handles : TellsTrue(handle[h])'
  BY <1>1, <1>3 DEF TaskInv, TellsTrue
<1> QED BY <1>2, <1>4, <1>5 DEF TaskInv

(* At the start nothing is said.                                           *)
LEMMA InitTells == Init => TaskInv
<1> SUFFICES ASSUME Init PROVE TaskInv OBVIOUS
<1>1. \A w \in Workers : KnowsTrue(w)
  <2> SUFFICES ASSUME NEW w \in Workers PROVE KnowsTrue(w) OBVIOUS
  <2>1. pc[w] \in {"ping", "timer", "log", "done"}
    BY DEF Init, Begins
  <2> QED BY <2>1 DEF Init, KnowsTrue, NoReply, NoneYet, None
<1>2. \A h \in Handles : TellsTrue(handle[h])
  BY DEF Init, Fresh, TellsTrue, None
<1> QED BY <1>1, <1>2 DEF Init, TaskInv

-----------------------------------------------------------------------------
(* A handle of one's own.                                                  *)

(* Who is untouched finds what it left.                                    *)
LEMMA UntouchedStays ==
  ASSUME NEW v \in Workers, Own(v), plan' = plan, task' = task, Mine(v)' = Mine(v),
         pc'[v] = pc[v], result'[v] = result[v], saved'[v] = saved[v], reply'[v] = reply[v]
  PROVE  Own(v)'
<1>1. OwnClient(v)' /\ OwnReply(v)' /\ OwnFlags(v)'
  BY DEF Own, OwnClient, OwnReply, OwnFlags
<1>2. OwnWait(v)' /\ OwnPoll(v)'
  BY DEF Own, OwnWait, OwnPoll
<1> QED BY <1>1, <1>2 DEF Own

(* While a goroutine pings, its wait has returned nothing.                 *)
LEMMA PingIsNoEnd ==
  ASSUME NEW w \in Workers, OwnWait(w), OwnPoll(w), pc[w] \notin {"status", "done"},
         plan' = plan, pc'[w] \notin {"status", "done"}, result'[w] = result[w]
  PROVE  OwnWait(w)' /\ OwnPoll(w)'
  BY DEF OwnWait, OwnPoll

(* A ping finds the client, and puts back the one it has saved; it clears  *)
(* the flags of the reply before and derives those of its own.             *)
LEMMA PingOwns ==
  ASSUME TypeOK, TaskInv, NEW w \in Workers, Own(w), Ping(w)
  PROVE  Own(w)'
<1> DEFINE t == Mine(w)
           u == Mine(w)'
<1>0. /\ t \in TaskHandles /\ t = handle[plan[w].handle] /\ reply[w] \in Replies /\ saved[w] \in BOOLEAN
      /\ OwnClient(w) /\ OwnReply(w) /\ OwnFlags(w) /\ OwnWait(w) /\ OwnPoll(w)
      /\ KnowsTrue(w) /\ TellsTrue(t)
  BY MineTypes DEF Own, TaskInv
<1>1. plan' = plan /\ task' = task /\ u = handle'[plan[w].handle]
  BY OthersAreUntouched DEF Step, Mine
<1>t. task.status = "stopped" => task.exit \in Exits
  BY DEF TaskInv
<1>2. CASE PingStart(w)
  <2>1. pc[w] = "ping" /\ pc'[w] = "get" /\ u = t /\ saved'[w] = t.client /\ UNCHANGED <<reply, result>>
    BY <1>0, <1>1, <1>2 DEF PingStart, TypeOK, Goto
  <2>2. OwnWait(w)' /\ OwnPoll(w)'
    BY <1>0, <1>1, <2>1, PingIsNoEnd
  <2> HIDE DEF t, u
  <2>3. OwnClient(w)'
    BY <1>0, <2>1 DEF OwnClient, Copying, t, u
  <2>4. OwnReply(w)' /\ OwnFlags(w)'
    BY <1>0, <1>1, <2>1 DEF OwnReply, OwnFlags, Copying, Deriving, t, u
  <2> QED BY <2>2, <2>3, <2>4 DEF Own
<1>3. CASE PingGet(w)
  <2>1. pc[w] = "get" /\ Mine(w).client /\ saved[w] /\ u = t /\ UNCHANGED saved
    BY <1>0, <1>1, <1>3 DEF PingGet, OwnClient, Copying
  <2>2. PICK a \in plan[w].faults \cup {"status"} :
          /\ reply' = [reply EXCEPT ![w] =
               IF a = "status" THEN [answer |-> a, status |-> task.status, exit |-> task.exit]
                               ELSE [NoReply EXCEPT !.answer = a]]
          /\ Goto(w, CASE a = "status" -> "copyClient" [] a = "null" -> "restore" [] OTHER -> "pinged")
    BY <1>3, <2>1, Zenon DEF PingGet
  <2>3. pc'[w] \in {"copyClient", "restore", "pinged"} /\ UNCHANGED result
    BY <1>3, <2>1, <2>2 DEF PingGet, Goto, TypeOK
  <2>4. reply'[w].status = "stopped" => reply'[w].exit = task.exit
    BY <2>2 DEF TypeOK, NoReply, None
  <2>5. OwnWait(w)' /\ OwnPoll(w)'
    BY <1>0, <1>1, <2>1, <2>3, PingIsNoEnd
  <2> HIDE DEF t, u
  <2>6. OwnClient(w)'
    BY <1>0, <2>1, <2>3 DEF OwnClient, Copying, t, u
  <2>7. OwnReply(w)' /\ OwnFlags(w)'
    BY <1>0, <1>1, <2>1, <2>3, <2>4 DEF OwnReply, OwnFlags, Copying, Deriving, t, u
  <2> QED BY <2>5, <2>6, <2>7 DEF Own
<1>4. CASE PingDecode(w)
  <2>1. UNCHANGED <<saved, reply, result>>
    BY <1>4, SetGives DEF PingDecode
  <2>2. \/ pc[w] = "copyClient" /\ pc'[w] = "copyStatus" /\ u = [t EXCEPT !.client = FALSE]
        \/ pc[w] = "copyStatus" /\ pc'[w] = "copyExit" /\ u = [t EXCEPT !.status = reply[w].status]
        \/ pc[w] = "copyExit" /\ pc'[w] = "copyCompleted" /\ u = [t EXCEPT !.exit = reply[w].exit]
        \/ pc[w] = "copyCompleted" /\ pc'[w] = "copyRunning" /\ u = [t EXCEPT !.completed = FALSE]
        \/ pc[w] = "copyRunning" /\ pc'[w] = "copyFailed" /\ u = [t EXCEPT !.running = FALSE]
        \/ pc[w] = "copyFailed" /\ pc'[w] = "copySuccessful" /\ u = [t EXCEPT !.failed = FALSE]
        \/ pc[w] = "copySuccessful" /\ pc'[w] = "restore" /\ u = [t EXCEPT !.successful = FALSE]
    BY <1>1, <1>4, SetGives DEF PingDecode
  <2>3. OwnWait(w)' /\ OwnPoll(w)'
    BY <1>0, <1>1, <2>1, <2>2, PingIsNoEnd
  <2> HIDE DEF t, u
  <2>4. OwnClient(w)'
    BY <1>0, <2>1, <2>2 DEF OwnClient, Copying, TaskHandles, t, u
  <2>5. OwnReply(w)'
    BY <1>0, <1>1, <2>1, <2>2 DEF OwnReply, TaskHandles, t, u
  <2>6. OwnFlags(w)'
    BY <1>0, <1>1, <2>1, <2>2 DEF OwnFlags, Copying, Deriving, TaskHandles, t, u
  <2> QED BY <2>3, <2>4, <2>5, <2>6 DEF Own
<1>5. CASE PingRestore(w)
  <2>1. UNCHANGED <<saved, reply, result>>
    BY <1>5, SetGives, CheckGives DEF PingRestore
  <2>2. \/ pc[w] = "restore" /\ pc'[w] = (IF t.client THEN "judge" ELSE "giveBack") /\ u = t
        \/ pc[w] = "giveBack" /\ pc'[w] = "judge" /\ u = [t EXCEPT !.client = saved[w]]
    BY <1>0, <1>1, <1>5, SetGives, CheckGives DEF PingRestore, Restored
  <2>3. OwnWait(w)' /\ OwnPoll(w)'
    BY <1>0, <1>1, <2>1, <2>2, PingIsNoEnd
  <2> HIDE DEF t, u
  <2>4. OwnClient(w)'
    BY <1>0, <2>1, <2>2 DEF OwnClient, Copying, TaskHandles, t, u
  <2>5. OwnReply(w)' /\ OwnFlags(w)'
    BY <1>0, <1>1, <2>1, <2>2 DEF OwnReply, OwnFlags, Copying, Deriving, TaskHandles, t, u
  <2> QED BY <2>3, <2>4, <2>5 DEF Own
<1>6. CASE PingDerive(w)
  <2>1. UNCHANGED <<saved, reply, result>>
    BY <1>6, DeriveGives
  <2>2. \/ pc[w] = "judge" /\ pc'[w] = (IF t.status = "stopped" THEN "complete" ELSE "run") /\ u = t
        \/ pc[w] = "complete" /\ pc'[w] = "ended" /\ u = [t EXCEPT !.completed = TRUE]
        \/ pc[w] = "run" /\ pc'[w] = "ended" /\ u = [t EXCEPT !.running = TRUE]
        \/ pc[w] = "ended" /\ pc'[w] = (IF t.completed THEN "exit" ELSE "pinged") /\ u = t
        \/ pc[w] = "exit" /\ pc'[w] = (IF taskExitSucceeded(t.exit) THEN "succeed" ELSE "fail") /\ u = t
        \/ pc[w] = "succeed" /\ pc'[w] = "pinged" /\ u = [t EXCEPT !.successful = TRUE]
        \/ pc[w] = "fail" /\ pc'[w] = "pinged" /\ u = [t EXCEPT !.failed = TRUE]
    BY <1>0, <1>1, <1>6, DeriveGives
  <2>3. OwnWait(w)' /\ OwnPoll(w)'
    BY <1>0, <1>1, <2>1, <2>2, PingIsNoEnd
  <2> HIDE DEF t, u
  <2>4. OwnClient(w)'
    BY <1>0, <2>1, <2>2 DEF OwnClient, Copying, TaskHandles, t, u
  <2>5. OwnReply(w)'
    BY <1>0, <1>1, <2>1, <2>2 DEF OwnReply, TaskHandles, t, u
  <2>6. pc'[w] = "fail" => task.exit = "failed"
    <3>1. pc'[w] = "fail" => pc[w] = "exit" /\ t.completed /\ ~taskExitSucceeded(t.exit)
      BY <1>0, <2>2 DEF OwnFlags, t
    <3>2. pc[w] = "exit" /\ t.completed => t.status = "stopped"
      BY <1>0 DEF OwnFlags, Copying, t
    <3>3. pc[w] = "exit" /\ t.status = "stopped" => t.exit = task.exit /\ task.status = "stopped"
      BY <1>0 DEF OwnReply, TellsTrue, t
    <3> QED BY <1>t, <3>1, <3>2, <3>3 DEF taskExitSucceeded, Exits
  <2>7. OwnFlags(w)'
    BY <1>0, <1>1, <2>1, <2>2, <2>6 DEF OwnFlags, Copying, Deriving, TaskHandles, t, u
  <2> QED BY <2>3, <2>4, <2>5, <2>7 DEF Own
<1> QED BY <1>2, <1>3, <1>4, <1>5, <1>6 DEF Ping

(* What does not write the handle keeps what is said of it, at rest.       *)
LEMMA RestKeeps ==
  ASSUME NEW w \in Workers, OwnClient(w), OwnReply(w), OwnFlags(w),
         plan' = plan, task' = task, Mine(w)' = Mine(w), saved'[w] = saved[w], reply'[w] = reply[w],
         pc[w] \in {"ping", "pinged", "timer", "status", "log", "send", "done"},
         pc'[w] \in {"ping", "pinged", "timer", "status", "log", "send", "done"},
         result'[w].err # "nilclient"
  PROVE  OwnClient(w)' /\ OwnReply(w)' /\ OwnFlags(w)'
<1>1. OwnClient(w)'
  BY DEF OwnClient, Copying
<1>2. OwnReply(w)'
  BY DEF OwnReply
<1>3. OwnFlags(w)'
  BY DEF OwnFlags, Copying, Deriving
<1> QED BY <1>1, <1>2, <1>3

(* The steps of the two waits, on the goroutine's own handle.              *)
LEMMA WaitOwns ==
  ASSUME TypeOK, NEW w \in Workers, Own(w),
         Timer(w) \/ WaitPinged(w) \/ PollPinged(w) \/ PollStatus(w)
  PROVE  Own(w)'
<1>0. /\ UNCHANGED <<plan, task, handle, saved, reply>> /\ Mine(w)' = Mine(w)
      /\ pc[w] \in {"timer", "pinged", "status"}
      /\ OwnClient(w) /\ OwnReply(w) /\ OwnFlags(w) /\ OwnWait(w) /\ OwnPoll(w)
      /\ result[w] \in Returns /\ result[w].err # "nilclient"
  BY DEF Timer, WaitPinged, PollPinged, PollStatus, Own, OwnClient, env, Mine, TypeOK
<1>1. /\ pc'[w] \in {"ping", "timer", "status", "done"} /\ result'[w].err # "nilclient"
      /\ OwnWait(w)' /\ OwnPoll(w)'
  <2>1. CASE Timer(w)
    <3>1. CASE ~TimedOut(w)
      <4>1. pc[w] = "timer" /\ pc'[w] = "ping" /\ UNCHANGED result
        BY <2>1, <3>1 DEF Timer, Goto, TypeOK
      <4> QED BY <1>0, <4>1 DEF OwnWait, OwnPoll
    <3>2. CASE TimedOut(w) /\ plan[w].role = "Wait"
      <4>1. Fail(w, "timeout")
        BY <2>1, <3>2 DEF Timer
      <4>2. pc'[w] = "done" /\ result'[w].err = "timeout"
        BY <4>1, FailGives DEF Errors
      <4> QED BY <1>0, <3>2, <4>2 DEF OwnWait, OwnPoll, None
    <3>3. CASE TimedOut(w) /\ plan[w].role # "Wait"
      <4>1. pc[w] = "timer" /\ pc'[w] = "done" /\ result'[w] = result[w]
        BY <2>1, <3>3 DEF Timer, Return, Goto, TypeOK
      <4> QED BY <1>0, <3>3, <4>1 DEF OwnWait, OwnPoll
    <3> QED BY <3>1, <3>2, <3>3
  <2>2. CASE WaitPinged(w)
    <3>0. plan[w].role = "Wait" /\ pc[w] = "pinged"
      BY <2>2 DEF WaitPinged
    <3>1. CASE Erred(w)
      <4>1. Fail(w, "ping")
        BY <2>2, <3>1 DEF WaitPinged
      <4>2. pc'[w] = "done" /\ result'[w].err = "ping"
        BY <4>1, FailGives DEF Errors
      <4> QED BY <1>0, <3>0, <4>2 DEF OwnWait, OwnPoll, None
    <3>2. CASE ~Erred(w) /\ site[w] = "loop" /\ Mine(w).status # "running"
      <4>1. pc'[w] = "done" /\ result'[w] = result[w]
        BY <2>2, <3>2 DEF WaitPinged, Return, Goto, TypeOK
      <4> QED BY <1>0, <3>0, <3>2, <4>1 DEF OwnWait, OwnPoll
    <3>3. CASE ~Erred(w) /\ ~(site[w] = "loop" /\ Mine(w).status # "running")
      <4>1. pc'[w] = "timer" /\ UNCHANGED result
        BY <2>2, <3>3 DEF WaitPinged, Goto, TypeOK
      <4> QED BY <1>0, <3>0, <4>1 DEF OwnWait, OwnPoll
    <3> QED BY <3>1, <3>2, <3>3
  <2>3. CASE PollPinged(w)
    <3>0. plan[w].role = "WaitForCompleteStatus" /\ pc[w] = "pinged" /\ ~result[w].completed
      BY <1>0, <2>3 DEF PollPinged, OwnPoll
    <3>1. result'[w].err # "nilclient"
      BY <1>0, <2>3 DEF PollPinged, TypeOK, Returns, None
    <3>2. CASE Erred(w)
      <4>1. pc'[w] = "timer" /\ result'[w].completed = result[w].completed
        BY <1>0, <2>3, <3>2 DEF PollPinged, Goto, TypeOK, Returns
      <4> QED BY <1>0, <3>0, <3>1, <4>1 DEF OwnWait, OwnPoll
    <3>3. CASE ~Erred(w)
      <4>1. result'[w].completed = Mine(w).completed
        BY <1>0, <2>3, <3>3 DEF PollPinged, TypeOK, Returns
      <4>2. pc'[w] = IF Mine(w).completed THEN "status" ELSE "timer"
        BY <2>3, <3>3 DEF PollPinged, Goto, TypeOK
      <4> QED BY <1>0, <3>0, <3>1, <4>1, <4>2 DEF OwnWait, OwnPoll
    <3> QED BY <3>2, <3>3
  <2>4. CASE PollStatus(w)
    <3>0. pc[w] = "status" /\ plan[w].role # "Wait"
      BY <1>0, <2>4 DEF PollStatus, OwnWait
    <3>1. /\ pc'[w] = "done" /\ result'[w].err = result[w].err
          /\ result'[w].completed = result[w].completed
          /\ result'[w].status = Mine(w).successful
      BY <1>0, <2>4 DEF PollStatus, Return, Goto, TypeOK, Returns
    <3> QED BY <1>0, <3>0, <3>1 DEF OwnWait, OwnPoll
  <2> QED BY <2>1, <2>2, <2>3, <2>4
<1>2. OwnClient(w)' /\ OwnReply(w)' /\ OwnFlags(w)'
  BY <1>0, <1>1, RestKeeps
<1> QED BY <1>1, <1>2 DEF Own

(* The steps of a watch, on the goroutine's own handle, which has its      *)
(* client when they need it.                                               *)
LEMMA WatchOwns ==
  ASSUME TypeOK, NEW w \in Workers, Own(w),
         \/ Remark(w) \/ WatchLog(w) \/ Deliver(w) \/ PageSent(w) \/ TailPinged(w) \/ TailLog(w)
         \/ Expire(w) \/ Cancel(w) \/ ReaderLeaves(w)
  PROVE  Own(w)'
<1>0. /\ UNCHANGED <<plan, task, handle, saved, reply>> /\ Mine(w)' = Mine(w)
      /\ OwnClient(w) /\ OwnReply(w) /\ OwnFlags(w) /\ OwnWait(w) /\ OwnPoll(w)
      /\ result[w].err # "nilclient"
  BY DEF Remark, WatchLog, Deliver, PageSent, TailPinged, TailLog, Expire, Cancel, ReaderLeaves,
         Own, OwnClient, Mine, env, call
<1>1. ~Remark(w)
  <2>1. Remarks(w) \subseteq {"pinged", "timer", "send", "ping"}
    BY DEF Remarks
  <2> QED BY <1>0, <2>1 DEF Remark, OwnClient, Copying
<1>2. CASE Deliver(w) \/ Expire(w) \/ Cancel(w) \/ ReaderLeaves(w)
  <2>1. pc' = pc /\ result' = result
    BY <1>2 DEF Deliver, Expire, Cancel, ReaderLeaves, call
  <2> QED BY <1>0, <2>1, UntouchedStays
<1>3. CASE WatchLog(w) \/ PageSent(w) \/ TailPinged(w) \/ TailLog(w)
  <2>1. pc[w] \in {"log", "send", "pinged"}
    BY <1>3 DEF WatchLog, PageSent, TailPinged, TailLog
  <2>2. Mine(w).client
    BY <1>0, <2>1 DEF OwnClient, Copying
  <2>3. /\ pc'[w] \in {"log", "send", "ping", "done"} /\ result'[w].err # "nilclient"
        /\ pc'[w] = "done" => result'[w].err # None \/ plan[w].role = "Watch"
        /\ result'[w].completed = result[w].completed
    <3>1. CASE WatchLog(w) \/ TailLog(w)
      <4>1. \/ Fail(w, "log") \/ Fail(w, "nologs")
            \/ (Goto(w, "send") \/ UNCHANGED pc) /\ UNCHANGED result
        BY <2>2, <3>1 DEF WatchLog, TailLog
      <4>2. CASE Fail(w, "log") \/ Fail(w, "nologs")
        BY <4>2, FailGives DEF Errors, None
      <4>3. CASE (Goto(w, "send") \/ UNCHANGED pc) /\ UNCHANGED result
        <5>1. pc[w] = "log"
          BY <3>1 DEF WatchLog, TailLog
        <5> QED BY <1>0, <4>3, <5>1 DEF Goto, TypeOK
      <4> QED BY <4>1, <4>2, <4>3
    <3>2. CASE PageSent(w) \/ TailPinged(w)
      BY <1>0, <3>2 DEF PageSent, TailPinged, Return, Goto, TypeOK
    <3> QED BY <1>3, <3>1, <3>2
  <2>4. OwnClient(w)' /\ OwnReply(w)' /\ OwnFlags(w)'
    BY <1>0, <2>1, <2>3, RestKeeps
  <2>5. OwnWait(w)' /\ OwnPoll(w)'
    BY <1>0, <2>1, <2>3 DEF OwnWait, OwnPoll
  <2> QED BY <2>4, <2>5 DEF Own
<1> QED BY <1>1, <1>2, <1>3

(* The server's task stops: what a goroutine has of it was not yet of its  *)
(* end.                                                                    *)
LEMMA ServerOwns ==
  ASSUME TypeOK, TaskInv, NEW w \in Workers, Own(w), TaskLogs \/ TaskStops
  PROVE  Own(w)'
<1>1. /\ UNCHANGED <<plan, handle, saved, reply, pc, result>> /\ Mine(w)' = Mine(w)
      /\ task.status = "running" /\ task.exit = None
  BY DEF TaskLogs, TaskStops, call, TaskInv, Mine
<1>2. /\ KnowsTrue(w) /\ TellsTrue(Mine(w))
      /\ OwnClient(w) /\ OwnReply(w) /\ OwnFlags(w) /\ OwnWait(w) /\ OwnPoll(w)
  BY MineTypes DEF TaskInv, Own
<1>3. OwnClient(w)' /\ OwnWait(w)' /\ OwnPoll(w)'
  BY <1>1, <1>2 DEF OwnClient, OwnWait, OwnPoll
<1>4. OwnReply(w)'
  BY <1>1, <1>2 DEF OwnReply, KnowsTrue, TellsTrue
<1>5. OwnFlags(w)'
  BY <1>1, <1>2 DEF OwnFlags, KnowsTrue, TellsTrue
<1> QED BY <1>3, <1>4, <1>5 DEF Own

(* At the start every goroutine has its client, and nothing is said.       *)
LEMMA InitOwns == Init => OwnInv
<1> SUFFICES ASSUME Init, NEW w \in Workers PROVE Own(w)
  BY DEF OwnInv
<1>1. pc[w] \in {"ping", "timer", "log", "done"} /\ (plan[w].role # "none" => pc[w] # "done")
  BY PlansAssumption DEF Init, Begins, Jobs, Roles
<1>2. Mine(w) = Fresh
  BY PlansAssumption DEF Init, Mine, Jobs
<1>3. reply[w] = NoReply /\ result[w] = NoneYet
  BY DEF Init
<1>4. OwnClient(w) /\ OwnReply(w)
  BY <1>1, <1>2, <1>3 DEF OwnClient, OwnReply, Fresh, NoReply, NoneYet, None, Copying
<1>5. OwnFlags(w)
  BY <1>1, <1>2 DEF OwnFlags, Fresh, None, Copying, Deriving
<1>6. OwnWait(w) /\ OwnPoll(w)
  BY <1>1, <1>3 DEF OwnWait, OwnPoll, NoneYet
<1> QED BY <1>4, <1>5, <1>6 DEF Own

-----------------------------------------------------------------------------
(* The invariant.                                                          *)

(* Every step keeps what is said of the task.                              *)
LEMMA NextTells == TypeOK /\ TaskInv /\ [Next]_vars => TaskInv'
<1> SUFFICES ASSUME TypeOK, TaskInv, [Next]_vars PROVE TaskInv' OBVIOUS
<1>1. CASE UNCHANGED vars
  BY <1>1 DEF vars, env, call, TaskInv, KnowsTrue, TellsTrue
<1>2. CASE Next
  BY <1>2, PingTells, OtherStepsTell, ServerTells DEF Next, Step
<1> QED BY <1>1, <1>2

(* Every step keeps what a goroutine has in a handle of its own.           *)
LEMMA NextOwns == TypeOK /\ TaskInv /\ OwnInv /\ [Next]_vars => OwnInv'
<1> SUFFICES ASSUME TypeOK, TaskInv, OwnInv, [Next]_vars, NEW v \in Workers, Unshared(plan[v].handle)'
             PROVE  Own(v)'
  BY DEF OwnInv
<1>0. plan' = plan
  BY OthersAreUntouched DEF Next, vars, env, TaskLogs, TaskStops
<1>1. Unshared(plan[v].handle) /\ Own(v)
  BY <1>0 DEF Unshared, OwnInv
<1>2. CASE UNCHANGED vars
  BY <1>1, <1>2, UntouchedStays DEF vars, env, call, Mine
<1>3. CASE TaskLogs \/ TaskStops
  BY <1>1, <1>3, ServerOwns
<1>4. ASSUME NEW w \in Workers, Step(w) \/ Expire(w) \/ Cancel(w) \/ ReaderLeaves(w)
      PROVE  Own(v)'
  <2>1. CASE v = w
    BY <1>1, <1>4, <2>1, PingOwns, WaitOwns, WatchOwns DEF Step
  <2>2. CASE v # w
    <3>1. plan[v].handle # plan[w].handle /\ plan[v].handle \in Handles
      BY <1>1, <2>2, MineTypes DEF Unshared
    <3>2. Mine(v)' = Mine(v)
      BY <1>0, <1>4, <3>1, OthersAreUntouched DEF Mine
    <3> QED BY <1>0, <1>1, <1>4, <2>2, <3>2, OthersAreUntouched, UntouchedStays
  <2> QED BY <2>1, <2>2
<1> QED BY <1>2, <1>3, <1>4 DEF Next

(* The invariant holds in every state. *)
THEOREM Inductive == Spec => []IndInv
<1>1. Init => IndInv
  BY InitType, InitTells, InitOwns DEF IndInv
<1>2. IndInv /\ [Next]_vars => IndInv'
  BY NextType, NextTells, NextOwns DEF IndInv
<1> QED BY <1>1, <1>2, PTL DEF Spec

(* Whatever a handle says of the end of its task is so, at every access of *)
(* every ping and however old the replies: with any goroutines sharing the *)
(* handle, but that a failure is sure only of a handle of one's own.       *)
THEOREM FlagsAreTrue == Spec => []FlagsTellTheEnd
<1>1. IndInv => FlagsTellTheEnd
  <2> SUFFICES ASSUME IndInv, NEW h \in Handles
               PROVE  LET t == handle[h] IN
                        /\ t.completed => task.status = "stopped"
                        /\ t.successful => task.exit \in {"OK", "WARNINGS"}
                        /\ t.failed => task.status = "stopped"
                        /\ t.failed /\ Unshared(h) => task.exit = "failed"
    BY DEF FlagsTellTheEnd
  <2>1. TellsTrue(handle[h])
    BY DEF IndInv, TaskInv
  <2>2. ASSUME Unshared(h), handle[h].failed PROVE task.exit = "failed"
    <3>1. PICK w \in Workers : plan[w].handle = h
      BY <2>2 DEF Unshared
    <3>2. OwnFlags(w) /\ Mine(w) = handle[h]
      BY <2>2, <3>1 DEF IndInv, OwnInv, Own, Mine
    <3> QED BY <2>2, <3>2 DEF OwnFlags
  <2> QED BY <2>1, <2>2 DEF TellsTrue, taskExitSucceeded
<1> QED BY Inductive, <1>1, PTL

(* Between pings the flags of a handle of one's own follow its status.     *)
THEOREM FlagsAreWhole == Spec => []FlagsFollowStatus
<1>1. IndInv => FlagsFollowStatus
  <2> SUFFICES ASSUME IndInv, NEW w \in Workers, Unshared(plan[w].handle),
                      pc[w] \notin Copying \cup Deriving
               PROVE  LET t == Mine(w) IN
                        /\ t.completed = (t.status = "stopped")
                        /\ t.running => ~t.completed
                        /\ t.completed = (t.successful \/ t.failed)
                        /\ ~(t.successful /\ t.failed)
    BY DEF FlagsFollowStatus
  <2>1. /\ Mine(w).completed \in BOOLEAN /\ Mine(w).running \in BOOLEAN
        /\ Mine(w).successful \in BOOLEAN /\ Mine(w).failed \in BOOLEAN
    BY MineTypes DEF IndInv, TaskHandles
  <2>2. OwnFlags(w) /\ TellsTrue(Mine(w))
    BY MineTypes DEF IndInv, OwnInv, Own, TaskInv
  <2>3. /\ Mine(w).completed <=> Mine(w).status = "stopped"
        /\ Mine(w).running => Mine(w).status # "stopped"
        /\ Mine(w).completed <=> Mine(w).successful \/ Mine(w).failed
    BY <2>2 DEF OwnFlags, Copying, Deriving
  <2>4. ~(Mine(w).successful /\ Mine(w).failed)
    BY <2>2 DEF OwnFlags, TellsTrue, taskExitSucceeded
  <2> QED BY <2>1, <2>3, <2>4
<1> QED BY Inductive, <1>1, PTL

(* No goroutine with a handle of its own meets a cleared client.           *)
THEOREM ClientsStay == Spec => []OwnClientKept
<1>1. IndInv => OwnClientKept
  BY DEF IndInv, OwnInv, Own, OwnClient, OwnClientKept
<1> QED BY Inductive, <1>1, PTL

(* Wait returns nil only when its task has stopped and the handle says so; *)
(* the verdict of WaitForCompleteStatus is the end of the task.            *)
THEOREM VerdictsAreTrue == Spec => []VerdictsHold
<1>1. IndInv => WaitMeansStopped
  <2> SUFFICES ASSUME IndInv, NEW w \in Workers, Unshared(plan[w].handle),
                      plan[w].role = "Wait", pc[w] = "done", result[w].err = None,
                      Mine(w).status # None
               PROVE  Mine(w).completed /\ task.status = "stopped"
    BY DEF WaitMeansStopped
  <2>1. Own(w) /\ TellsTrue(Mine(w)) /\ Mine(w) \in TaskHandles
    BY MineTypes DEF IndInv, OwnInv, TaskInv
  <2>2. Mine(w).status = "stopped"
    BY <2>1 DEF Own, OwnWait, TaskHandles
  <2>3. Mine(w).completed
    BY <2>1, <2>2 DEF Own, OwnFlags, Copying, Deriving
  <2> QED BY <2>1, <2>2, <2>3 DEF TellsTrue
<1>2. IndInv => StatusIsTheEnd
  <2> SUFFICES ASSUME IndInv, NEW w \in Workers,
                      plan[w].role = "WaitForCompleteStatus", pc[w] = "done", result[w].completed
               PROVE  /\ task.status = "stopped"
                      /\ result[w].status => task.exit \in {"OK", "WARNINGS"}
                      /\ ~result[w].status /\ Unshared(plan[w].handle) => task.exit = "failed"
    BY DEF StatusIsTheEnd
  <2>1. KnowsTrue(w)
    BY DEF IndInv, TaskInv
  <2>2. ASSUME ~result[w].status, Unshared(plan[w].handle) PROVE task.exit = "failed"
    <3>1. Own(w)
      BY <2>2 DEF IndInv, OwnInv
    <3>2. Mine(w).completed /\ ~Mine(w).successful
      BY <2>2, <3>1 DEF Own, OwnPoll
    <3>3. Mine(w).failed
      BY <3>1, <3>2 DEF Own, OwnFlags, Copying, Deriving
    <3> QED BY <3>1, <3>3 DEF Own, OwnFlags
  <2> QED BY <2>1, <2>2 DEF KnowsTrue, taskExitSucceeded
<1>3. WaitMeansStopped /\ StatusIsTheEnd => VerdictsHold
  BY DEF VerdictsHold
<1> QED BY Inductive, <1>1, <1>2, <1>3, PTL

-----------------------------------------------------------------------------
(* Watches from the first line, over any handles.                          *)

(* A step that leaves a watch's page and lines alone.                      *)
LEMMA WatchStays ==
  ASSUME NEW v \in Workers, Watched(v), plan' = plan, site'[v] = site[v],
         page'[v] = page[v], next'[v] = next[v], delivered'[v] = delivered[v],
         pc'[v] = pc[v] \/ pc'[v] = "done" \/ page[v] = {}
  PROVE  Watched(v)'
  BY DEF Watched, Received

(* What w does in its watch is nothing to the others.                      *)
LEMMA OthersWatchOn ==
  ASSUME TypeOK, NEW w \in Workers,
         Step(w) \/ Expire(w) \/ Cancel(w) \/ ReaderLeaves(w)
  PROVE  /\ plan' = plan
         /\ \A v \in Workers \ {w} :
              /\ site'[v] = site[v] /\ page'[v] = page[v] /\ next'[v] = next[v]
              /\ delivered'[v] = delivered[v] /\ pc'[v] = pc[v]
<1>1. CASE Ping(w) \/ Remark(w)
  <2>1. CASE PingStart(w) \/ PingGet(w) \/ Remark(w)
    BY <2>1 DEF PingStart, PingGet, Remark, TypeOK, Goto, Fail, Return, env, watch
  <2>2. CASE PingDecode(w)
    BY <2>2 DEF PingDecode, Set, TypeOK, Goto, env, watch
  <2>3. CASE PingRestore(w) \/ PingDerive(w)
    BY <2>3 DEF PingRestore, PingDerive, Set, Check, TypeOK, Goto, env, watch
  <2> QED BY <1>1, <2>1, <2>2, <2>3 DEF Ping
<1>2. CASE \/ Timer(w) \/ WaitPinged(w) \/ PollPinged(w) \/ PollStatus(w)
           \/ PageSent(w) \/ TailPinged(w)
  BY <1>2 DEF Timer, WaitPinged, PollPinged, PollStatus, PageSent, TailPinged, TypeOK, Goto, Fail, Return,
              env, watch
<1>3. CASE WatchLog(w)
  <2>1. plan' = plan /\ \A v \in Workers \ {w} : pc'[v] = pc[v]
    BY <1>3 DEF WatchLog, TypeOK, Goto, Fail, Return, env
  <2>2. \A v \in Workers \ {w} :
          /\ site'[v] = site[v] /\ page'[v] = page[v] /\ next'[v] = next[v]
          /\ delivered'[v] = delivered[v]
    BY <1>3 DEF WatchLog, TypeOK, watch
  <2> QED BY <2>1, <2>2
<1>4. CASE TailLog(w)
  <2>1. plan' = plan /\ site' = site /\ \A v \in Workers \ {w} : pc'[v] = pc[v]
    BY <1>4 DEF TailLog, TypeOK, Goto, Fail, Return, env
  <2>2. \A v \in Workers \ {w} :
          page'[v] = page[v] /\ next'[v] = next[v] /\ delivered'[v] = delivered[v]
    BY <1>4 DEF TailLog, TypeOK, watch
  <2> QED BY <2>1, <2>2
<1>5. CASE Deliver(w) \/ Expire(w) \/ Cancel(w) \/ ReaderLeaves(w)
  BY <1>5 DEF Deliver, Expire, Cancel, ReaderLeaves, TypeOK, call, env, watch
<1> QED BY <1>1, <1>2, <1>3, <1>4, <1>5 DEF Step

(* A page has a size.                                                      *)
LEMMA PageIsFinite ==
  ASSUME TypeOK, NEW w \in Workers
  PROVE  IsFiniteSet(page[w]) /\ Cardinality(page[w]) \in Nat
<1>1. page[w] \in SUBSET (0..MaxLines) /\ MaxLines \in Nat
  BY BoundsAssumption DEF TypeOK
<1>2. IsFiniteSet(0..MaxLines)
  BY <1>1, FS_Interval
<1> QED BY <1>1, <1>2, FS_Subset, FS_CardinalityType

(* The reader takes one line of the page.                                  *)
LEMMA DeliverKeepsWatch ==
  ASSUME TypeOK, NEW w \in Workers, Watched(w), IsFiniteSet(page[w]), Deliver(w)
  PROVE  Watched(w)'
<1>1. PICK n \in page[w] : /\ page' = [page EXCEPT ![w] = @ \ {n}]
                           /\ delivered' = [delivered EXCEPT ![w] = Append(@, n)]
  BY DEF Deliver
<1>2. /\ UNCHANGED <<plan, pc, site, next>> /\ pc[w] = "send"
      /\ page'[w] = page[w] \ {n} /\ delivered'[w] = Append(delivered[w], n)
  BY <1>1 DEF Deliver, TypeOK, env, call
<1>3. delivered[w] \in Seq(0..MaxLines) /\ n \in 0..MaxLines
  BY DEF TypeOK
<1>4. Len(delivered'[w]) = Len(delivered[w]) + 1
  BY <1>2, <1>3
<1>5. Received(w)' = Received(w) \cup {n}
  <2>1. DOMAIN delivered'[w] = DOMAIN delivered[w] \cup {Len(delivered[w]) + 1}
    BY <1>2, <1>3
  <2>2. \A i \in DOMAIN delivered[w] : delivered'[w][i] = delivered[w][i]
    BY <1>2, <1>3
  <2>3. delivered'[w][Len(delivered[w]) + 1] = n
    BY <1>2, <1>3
  <2> QED BY <2>1, <2>2, <2>3 DEF Received
<1>6. Cardinality(page'[w]) = Cardinality(page[w]) - 1
  BY <1>2, FS_RemoveElement
<1>7. Cardinality(page[w]) \in Nat /\ Len(delivered[w]) \in Nat
  BY <1>3, FS_CardinalityType
<1>8. Len(delivered'[w]) + Cardinality(page'[w]) = Len(delivered[w]) + Cardinality(page[w])
  BY <1>4, <1>6, <1>7
<1> QED BY <1>2, <1>5, <1>8 DEF Watched

(* The next page is the next lines, or none.                               *)
LEMMA PageKeepsWatch ==
  ASSUME TypeOK, NEW w \in Workers, Watched(w), plan[w].role = "Watch",
         page[w] = {}, NEW rows, rows = {} \/ rows = Ahead(next[w]), plan' = plan,
         site'[w] = "loop", page'[w] = rows, delivered'[w] = delivered[w],
         next'[w] = next[w] + Cardinality(rows), pc'[w] = "send"
  PROVE  Watched(w)'
<1>0. next[w] \in Nat /\ Cardinality({}) = 0
  BY FS_EmptySet DEF TypeOK
<1>1. Cardinality(rows) \in Nat /\ rows = next[w]..(next[w] + Cardinality(rows) - 1)
  <2>1. CASE rows = {}
    <3>1. {} = next[w]..(next[w] + 0 - 1)
      BY <1>0
    <3> QED BY <1>0, <2>1, <3>1
  <2>2. CASE rows = Ahead(next[w])
    BY <1>0, <2>2, PageOfLines
  <2> QED BY <2>1, <2>2
<1>2. Received(w) = 0..(next[w] - 1) /\ next[w] = Len(delivered[w])
  <2>1. Len(delivered[w]) \in Nat
    BY DEF TypeOK
  <2> QED BY <1>0, <2>1 DEF Watched
<1>3. Received(w)' = Received(w)
  BY DEF Received
<1>4. next'[w] = Len(delivered'[w]) + Cardinality(page'[w])
  BY <1>2
<1> DEFINE c == Cardinality(rows)
<1>5. c \in Nat /\ rows = next[w]..(next[w] + c - 1)
  BY <1>1
<1> HIDE DEF c
<1>6. /\ (0..(next[w] - 1)) \cup rows = 0..(next[w] + c - 1)
      /\ (0..(next[w] - 1)) \cap rows = {}
  BY <1>0, <1>5
<1>7. next'[w] = next[w] + c
  BY DEF c
<1>8. Received(w)' = 0..(next[w] - 1) /\ page'[w] = rows /\ next'[w] - 1 = next[w] + c - 1
  BY <1>0, <1>2, <1>3, <1>5, <1>7
<1>9. (Received(w) \cup page[w])' = 0..(next'[w] - 1) /\ (Received(w) \cap page[w])' = {}
  BY <1>6, <1>8, Zenon
<1> QED BY <1>4, <1>9 DEF Watched

(* A step of w keeps its own watch.                                        *)
LEMMA OwnWatchGoesOn ==
  ASSUME TypeOK, NEW w \in Workers, Watched(w), IsFiniteSet(page[w]),
         Step(w) \/ Expire(w) \/ Cancel(w) \/ ReaderLeaves(w)
  PROVE  Watched(w)'
<1>1. CASE \/ Ping(w) \/ Remark(w) \/ Timer(w) \/ PollPinged(w) \/ PollStatus(w)
           \/ PageSent(w) \/ TailPinged(w)
  <2>1. /\ UNCHANGED <<plan, site, page, next, delivered>>
        /\ pc[w] \notin {"send", "done"} \/ pc'[w] = "done" \/ page[w] = {}
    <3>1. CASE PingStart(w) \/ PingGet(w)
      BY <3>1 DEF PingStart, PingGet, env, watch
    <3>2. CASE PingDecode(w)
      BY <3>2 DEF PingDecode, Set, env, watch
    <3>3. CASE PingRestore(w) \/ PingDerive(w)
      BY <3>3 DEF PingRestore, PingDerive, Set, Check, env, watch
    <3>4. CASE Remark(w)
      BY <3>4, FailGives DEF Remark, Errors, env, watch
    <3>5. CASE Timer(w) \/ PollPinged(w) \/ PollStatus(w) \/ PageSent(w) \/ TailPinged(w)
      BY <3>5 DEF Timer, PollPinged, PollStatus, PageSent, TailPinged, env, watch
    <3> QED BY <1>1, <3>1, <3>2, <3>3, <3>4, <3>5 DEF Ping
  <2>2. CASE plan[w].role = "Watch" /\ pc[w] \in {"send", "done"}
    BY <2>1, <2>2, WatchStays
  <2>3. CASE plan[w].role = "Watch" /\ pc[w] \notin {"send", "done"}
    BY <2>1, <2>3, WatchStays DEF Watched
  <2>4. CASE plan[w].role # "Watch"
    BY <2>1, <2>4 DEF Watched
  <2> QED BY <2>2, <2>3, <2>4
<1>2. CASE WaitPinged(w)
  BY <1>2 DEF WaitPinged, Watched, env
<1>3. CASE Expire(w) \/ Cancel(w) \/ ReaderLeaves(w)
  BY <1>3, WatchStays DEF Expire, Cancel, ReaderLeaves, call, watch
<1>4. CASE Deliver(w)
  BY <1>4, DeliverKeepsWatch
<1>5. CASE WatchLog(w) \/ TailLog(w)
  <2>0. plan' = plan /\ pc[w] = "log"
    BY <1>5 DEF WatchLog, TailLog, env
  <2>1. CASE plan[w].role # "Watch"
    BY <2>0, <2>1 DEF Watched
  <2>2. CASE plan[w].role = "Watch"
    <3>0. page[w] = {} /\ next[w] \in Nat
      BY <2>0, <2>2 DEF Watched, TypeOK
    <3>1. CASE UNCHANGED <<site, page, next, delivered>>
      BY <2>0, <3>0, <3>1, WatchStays
    <3>2. CASE ~ UNCHANGED <<site, page, next, delivered>>
      <4>1. CASE WatchLog(w)
        <5>1. PICK a \in LogAnswers(w) :
                /\ page' = [page EXCEPT ![w] = a.rows]
                /\ next' = [next EXCEPT ![w] = TailFrom(a.rows)]
                /\ site' = [site EXCEPT ![w] = "loop"]
                /\ Goto(w, "send")
                /\ delivered' = delivered
          BY <3>2, <4>1 DEF WatchLog, watch
        <5>2. site[w] = "first" /\ next[w] = 0
          BY <2>2, <4>1 DEF WatchLog, Watched
        <5>3. a.rows = {} \/ a.rows = Ahead(next[w])
          BY AnswerIsAPage
        <5>4. Cardinality(a.rows) \in Nat
          BY RowsAreLines
        <5>5. /\ page'[w] = a.rows /\ next'[w] = next[w] + Cardinality(a.rows)
              /\ site'[w] = "loop" /\ pc'[w] = "send" /\ delivered'[w] = delivered[w]
          BY <5>1, <5>2, <5>4 DEF TypeOK, TailFrom, Goto
        <5> QED BY <2>0, <2>2, <3>0, <5>3, <5>5, PageKeepsWatch
      <4>2. CASE TailLog(w)
        <5>1. PICK a \in LogAnswers(w) :
                /\ page' = [page EXCEPT ![w] = a.rows]
                /\ next' = [next EXCEPT ![w] = Advanced(@, a.rows)]
                /\ Goto(w, "send")
                /\ delivered' = delivered
          BY <3>2, <4>2 DEF TailLog, watch
        <5>2. site'[w] = "loop"
          BY <4>2 DEF TailLog
        <5>3. a.rows = {} \/ a.rows = Ahead(next[w])
          BY AnswerIsAPage
        <5>4. /\ page'[w] = a.rows /\ next'[w] = next[w] + Cardinality(a.rows)
              /\ pc'[w] = "send" /\ delivered'[w] = delivered[w]
          BY <5>1 DEF TypeOK, Advanced, Goto
        <5> QED BY <2>0, <2>2, <3>0, <5>2, <5>3, <5>4, PageKeepsWatch
      <4> QED BY <1>5, <4>1, <4>2
    <3> QED BY <3>1, <3>2
  <2> QED BY <2>1, <2>2
<1> QED BY <1>1, <1>2, <1>3, <1>4, <1>5 DEF Step

(* At the start nothing has arrived.                                       *)
LEMMA InitWatch == FromTheStart /\ Init => WatchInv
<1> SUFFICES ASSUME FromTheStart, Init, NEW w \in Workers, plan[w].role = "Watch"
             PROVE  /\ next[w] = 0 /\ page[w] = {} /\ delivered[w] = <<>>
                    /\ Received(w) \cup page[w] = 0..(next[w] - 1)
                    /\ Received(w) \cap page[w] = {}
                    /\ next[w] = Len(delivered[w]) + Cardinality(page[w])
  BY DEF WatchInv, Watched
<1>1. next[w] = 0 /\ page[w] = {} /\ delivered[w] = <<>>
  BY DEF Init, FromTheStart
<1>2. Received(w) = {}
  BY <1>1 DEF Received
<1>3. Cardinality({}) = 0
  BY FS_EmptySet
<1> QED BY <1>1, <1>2, <1>3

(* Each line of the log reaches the reader of a watch from the first line  *)
(* once: none is skipped, none repeated, and no page overtakes another.    *)
THEOREM LinesArriveOnce ==
  ASSUME FromTheStart
  PROVE  Spec => []WatchedOnce
<1>1. IndInv /\ WatchInv /\ [Next]_vars => WatchInv'
  <2> SUFFICES ASSUME IndInv, WatchInv, [Next]_vars, NEW v \in Workers PROVE Watched(v)'
    BY DEF WatchInv
  <2>0. TypeOK /\ Watched(v)
    BY DEF IndInv, WatchInv
  <2>1. CASE UNCHANGED vars \/ TaskLogs \/ TaskStops
    BY <2>0, <2>1, WatchStays DEF vars, env, call, watch, TaskLogs, TaskStops
  <2>2. ASSUME NEW w \in Workers, Step(w) \/ Expire(w) \/ Cancel(w) \/ ReaderLeaves(w)
        PROVE  Watched(v)'
    <3>1. CASE v = w
      <4>1. IsFiniteSet(page[v])
        BY <2>0, PageIsFinite
      <4> QED BY <2>0, <2>2, <3>1, <4>1, OwnWatchGoesOn
    <3>2. CASE v # w
      BY <2>0, <2>2, <3>2, OthersWatchOn, WatchStays
    <3> QED BY <3>1, <3>2
  <2> QED BY <2>1, <2>2 DEF Next
<1>2. IndInv /\ WatchInv => WatchedOnce
  <2> SUFFICES ASSUME IndInv, WatchInv, NEW w \in Workers, plan[w].role = "Watch"
               PROVE  /\ Received(w) \cup page[w]
                           = plan[w].start..(plan[w].start + Len(delivered[w]) + Cardinality(page[w]) - 1)
                      /\ Received(w) \cap page[w] = {}
    BY DEF WatchedOnce
  <2>1. plan[w].start = 0
    BY DEF FromTheStart, IndInv, TypeOK
  <2>2. Watched(w) /\ Len(delivered[w]) \in Nat
    BY DEF WatchInv, IndInv, TypeOK
  <2>3. plan[w].start + Len(delivered[w]) + Cardinality(page[w]) = next[w]
    BY <2>1, <2>2 DEF Watched
  <2>4. /\ Received(w) \cup page[w] = 0..(next[w] - 1)
        /\ Received(w) \cap page[w] = {}
    BY <2>2 DEF Watched
  <2>5. plan[w].start + Len(delivered[w]) + Cardinality(page[w]) - 1 = next[w] - 1
    <3>1. Cardinality(page[w]) \in Nat /\ next[w] \in Nat
      BY PageIsFinite DEF IndInv, TypeOK
    <3> QED BY <2>1, <2>2, <2>3, <3>1
  <2> QED BY <2>1, <2>4, <2>5, Zenon
<1> QED BY <1>1, <1>2, InitWatch, Inductive, PTL DEF Spec
=============================================================================
