-------------------------- MODULE WebSocketProofs --------------------------
(***************************************************************************)
(* Theorems about WebSocket, for any choice of kinds, habits, outcomes and *)
(* endings and any bounds.  That closing is safe needs a receiver that     *)
(* drains and a server that falls silent in time, as its ASSUME says.      *)
(***************************************************************************)
EXTENDS WebSocket, TLAPS

-----------------------------------------------------------------------------
(* The types of the records, by name.                                      *)

ReaderPcs == {"off", "check", "read", "err", "deliver", "done"}
Readers   == [pc : ReaderPcs, msg : 0..MaxMessages]
WriterPcs == {"off", "select", "write", "report", "last", "done"}
Writers   == [pc : WriterPcs, frame : Frames, msg : 0..MaxPosts]
Servers   == [sent : 0..MaxMessages, ending : {"none", "going_away", "unexpected", "lost"}]

-----------------------------------------------------------------------------
(* The steps of closer.                                                    *)

(* A channel is closed only after closer has slept.                        *)
LEMMA ClosedAfterSleep ==
  ASSUME TypeOK, NEW ch \in {"send", "recv", "errs"}, Closed(ch)
  PROVE  AfterSleep
<1>1. PICK i \in 1..6, j \in 1..6 : CloserSteps[i] = ch /\ CloserSteps[j] = user /\ i < j
  BY DEF Closed, CloserSteps
<1>2. i # 1
  BY <1>1 DEF CloserSteps
<1>3. j \in {3, 4, 5, 6}
  BY <1>1, <1>2
<1> QED BY <1>1, <1>3 DEF CloserSteps, AfterSleep

(* closer leaves its sleep for good, and only the sending goroutine runs it. *)
LEMMA CloserAdvances ==
  ASSUME CloserStep
  PROVE  /\ user \in {"sleep", "send", "recv", "errs", "conn"}
         /\ user' \in {"send", "recv", "errs", "conn", "returned"}
         /\ user = "sleep" => Slept
<1>1. PICK i \in 1..6 : /\ user = CloserSteps[i] /\ user # "returned"
                        /\ user = "sleep" => Slept
                        /\ user' = CloserSteps[i + 1]
  BY DEF CloserStep, CloserSteps
<1>2. i \in {1, 2, 3, 4, 5}
  BY <1>1 DEF CloserSteps
<1> QED BY <1>1, <1>2 DEF CloserSteps

(* What a step of closer leaves alone.                                     *)
LEMMA CloserLeaves ==
  ASSUME CloserStep
  PROVE  /\ conn' = IF user = "conn" THEN "closed" ELSE conn
         /\ ticking' = IF user = "conn" THEN FALSE ELSE ticking
         /\ UNCHANGED <<peer, writeErr, buffered, wire, closeSent, input, writer, resizer,
                        posted, listening, received, told, panic>>
  BY DEF CloserStep

-----------------------------------------------------------------------------
(* The parts of the invariant, each with the variables it reads.           *)

(* The reader's parts survive a step that leaves the reader alone.         *)
LEMMA ReaderPartsKept ==
  ASSUME ReaderInv, ReadIsReceived, UNCHANGED <<input, received>>
  PROVE  ReaderInv' /\ ReadIsReceived'
  BY DEF ReaderInv, ReadIsReceived, input

(* The writer's parts survive a step of somebody else.                     *)
LEMMA WriterPartsKept ==
  ASSUME WriterInv, SentInOrder, UNCHANGED <<writer, writeErr, wire, closeSent, posted>>,
         AfterSleep' => AfterSleep, AfterSleep => listening' = listening, told => told'
  PROVE  WriterInv' /\ SentInOrder'
<1>1. WriterInv'
  BY DEF WriterInv
<1>2. SentInOrder'
  BY DEF SentInOrder
<1> QED BY <1>1, <1>2

-----------------------------------------------------------------------------
(* The initial states.                                                     *)
LEMMA InitHolds == Init => IndInv
<1> SUFFICES ASSUME Init PROVE IndInv
  OBVIOUS
<1> USE ChoicesAssumption, BoundsAssumption
<1>1. TypeOK
  <2>1. server = [sent |-> 0, ending |-> "none"] /\ read = 0 /\ rereads = 0 /\ posted = 0
    BY DEF Init
  <2>2. /\ server \in [sent : 0..MaxMessages, ending : {"none", "going_away", "unexpected", "lost"}]
        /\ rereads \in 0..(RereadLimit + 1) /\ read \in 0..server.sent /\ posted \in 0..MaxPosts
    BY <2>1
  <2>3. /\ reader \in [pc : {"off", "check", "read", "err", "deliver", "done"}, msg : 0..MaxMessages]
        /\ writer \in [pc : {"off", "select", "write", "report", "last", "done"}, frame : Frames,
                        msg : 0..MaxPosts]
    BY DEF Init, Frames
  <2>4. wire \in Seq(0..MaxPosts) /\ received \in Seq(1..MaxMessages)
    BY DEF Init
  <2>5. conn = "none" <=> opened \in {"no", "token", "dial"}
    BY DEF Init
  <2> QED BY <2>2, <2>3, <2>4, <2>5 DEF Init, TypeOK
<1>2. CallInv
  BY DEF Init, CallInv
<1>3. WriterInv
  BY DEF Init, WriterInv, AfterSleep
<1>4. ReaderInv
  BY DEF Init, ReaderInv
<1>5. SentInOrder
  BY DEF Init, SentInOrder
<1>6. ReadIsReceived
  BY DEF Init, ReadIsReceived
<1> QED BY <1>1, <1>2, <1>3, <1>4, <1>5, <1>6 DEF IndInv

-----------------------------------------------------------------------------
(* The caller's steps: opening, posting, closing.                          *)

(* Opening.                                                                *)
LEMMA OpenKeeps == ASSUME IndInv, panic = "none", Open PROVE IndInv'
<1> USE ChoicesAssumption, BoundsAssumption DEF IndInv
<1>1. PICK o \in Handshakes :
        /\ opened' = o /\ conn' = Leaves(o)
        /\ panic' = IF o = "refused" THEN "nil error" ELSE panic
        /\ IF o = "ok"
             THEN /\ reader' = [reader EXCEPT !.pc = "check"]
                  /\ writer' = [writer EXCEPT !.pc = "select"]
                  /\ resizer' = IF kind = "term" THEN "select" ELSE "off"
             ELSE UNCHANGED <<reader, writer, resizer>>
  BY DEF Open
<1>2. UNCHANGED <<kind, habit, server, writeErr, buffered, wire, closeSent, rereads, read,
                  ticking, posted, user, listening, received, told>> /\ opened = "no"
  BY DEF Open, caller
<1>3. user = "free" /\ ~AfterSleep /\ ~AfterSleep'
  BY <1>2 DEF CallInv, AfterSleep
<1>4. /\ reader' \in [pc : {"off", "check", "read", "err", "deliver", "done"}, msg : 0..MaxMessages]
      /\ writer' \in [pc : {"off", "select", "write", "report", "last", "done"}, frame : Frames,
                      msg : 0..MaxPosts]
      /\ resizer' \in {"off", "select", "offer", "done"}
  <2>1. CASE o = "ok"
    <3>1. /\ reader' = [reader EXCEPT !.pc = "check"] /\ writer' = [writer EXCEPT !.pc = "select"]
          /\ resizer' \in {"off", "select"}
      BY <1>1, <2>1
    <3> QED BY <3>1 DEF TypeOK
  <2>2. CASE o # "ok"
    BY <1>1, <2>2 DEF TypeOK
  <2> QED BY <2>1, <2>2
<1>5. TypeOK'
  <2>1. o \in Outcomes /\ o # "no"
    BY DEF Outcomes
  <2>2. conn' \in {"none", "open", "closed"} /\ (conn' = "none" <=> o \in {"no", "token", "dial"})
    <3>1. CASE o \in {"token", "dial"}
      BY <1>1, <3>1 DEF Leaves
    <3>2. CASE o \in {"ok", "greet", "reply", "refused", "size"}
      BY <1>1, <3>2 DEF Leaves
    <3> QED BY <2>1, <3>1, <3>2 DEF Outcomes
  <2>3. conn' = "none" <=> opened' \in {"no", "token", "dial"}
    BY <1>1, <2>2
  <2>4. panic' \in {"none", "nil error", "send on closed channel", "repeated read"}
    BY <1>1 DEF TypeOK
  <2>5. /\ rereads' \in 0..(RereadLimit + 1) /\ read' \in 0..server'.sent /\ posted' \in 0..MaxPosts
        /\ server' \in [sent : 0..MaxMessages, ending : {"none", "going_away", "unexpected", "lost"}]
    BY <1>2 DEF TypeOK
  <2>6. /\ ticking' \in BOOLEAN /\ writeErr' \in BOOLEAN /\ buffered' \in BOOLEAN
        /\ closeSent' \in BOOLEAN /\ listening' \in BOOLEAN /\ told' \in BOOLEAN
    BY <1>2 DEF TypeOK
  <2>7. /\ kind' \in Kinds /\ habit' \in Habits /\ opened' \in Handshakes \cup {"no"}
        /\ user' \in {"free", "posting", "sleep", "send", "recv", "errs", "conn", "returned"}
        /\ wire' \in Seq(0..MaxPosts) /\ received' \in Seq(1..MaxMessages)
    BY <1>1, <1>2 DEF TypeOK
  <2> QED BY <1>4, <2>2, <2>3, <2>4, <2>5, <2>6, <2>7 DEF TypeOK
<1>6. CallInv'
  <2>1. opened' # "no"
    BY <1>1 DEF Outcomes
  <2> QED BY <1>2, <1>3, <2>1 DEF CallInv
<1>7. WriterInv' /\ SentInOrder'
  BY <1>1, <1>2, <1>3 DEF WriterInv, SentInOrder, CallInv, TypeOK
<1>8. ReaderInv' /\ ReadIsReceived'
  BY <1>1, <1>2 DEF ReaderInv, ReadIsReceived, CallInv, TypeOK
<1> QED BY <1>5, <1>6, <1>7, <1>8

(* Posting.                                                                *)
LEMMA PostKeeps == ASSUME IndInv, panic = "none", Post PROVE IndInv'
<1> USE DEF IndInv
<1>1. /\ opened = "ok" /\ user = "free" /\ posted < MaxPosts /\ user' = "posting"
      /\ UNCHANGED <<kind, habit, opened, server, conn, writeErr, buffered, wire, closeSent,
                     reader, rereads, read, writer, resizer, ticking,
                     posted, listening, received, told, panic>>
  BY DEF Post, peer, net, input, output
<1>2. TypeOK'
  BY <1>1 DEF TypeOK
<1>3. CallInv'
  BY <1>1 DEF CallInv
<1>4. WriterInv' /\ SentInOrder'
  BY <1>1, WriterPartsKept DEF AfterSleep
<1>5. ReaderInv' /\ ReadIsReceived'
  BY <1>1, ReaderPartsKept DEF input
<1> QED BY <1>2, <1>3, <1>4, <1>5

(* Calling closer.                                                         *)
LEMMA CloseKeeps == ASSUME IndInv, panic = "none", Close PROVE IndInv'
<1> USE DEF IndInv
<1>1. /\ opened = "ok" /\ user = "free" /\ user' = "sleep"
      /\ UNCHANGED <<kind, habit, opened, server, conn, writeErr, buffered, wire, closeSent,
                     reader, rereads, read, writer, resizer, ticking,
                     posted, listening, received, told, panic>>
  BY DEF Close, peer, net, input, output
<1>2. TypeOK'
  BY <1>1 DEF TypeOK
<1>3. CallInv'
  BY <1>1 DEF CallInv
<1>4. WriterInv' /\ SentInOrder'
  BY <1>1, WriterPartsKept DEF AfterSleep
<1>5. ReaderInv' /\ ReadIsReceived'
  BY <1>1, ReaderPartsKept DEF input
<1> QED BY <1>2, <1>3, <1>4, <1>5

(* A step of closer: the writer is out of the way when it wakes.           *)
LEMMA CloserKeeps == ASSUME IndInv, panic = "none", CloserStep PROVE IndInv'
<1> USE DEF IndInv
<1>1. /\ user \in {"sleep", "send", "recv", "errs", "conn"}
      /\ user' \in {"send", "recv", "errs", "conn", "returned"}
      /\ user = "sleep" => Slept
  BY CloserAdvances
<1>2. UNCHANGED <<kind, habit, opened, server, writeErr, buffered, wire, closeSent,
                  reader, rereads, read, writer, resizer,
                  posted, listening, received, told, panic>>
  BY CloserLeaves DEF peer, input
<1>3. opened = "ok" /\ AfterSleep'
  BY <1>1 DEF CallInv, AfterSleep
<1>4. TypeOK'
  <2>1. conn # "none" /\ conn' # "none" /\ opened' = "ok" /\ conn' \in {"open", "closed"}
    BY <1>2, <1>3, CloserLeaves DEF TypeOK
  <2>2. conn' = "none" <=> opened' \in {"no", "token", "dial"}
    BY <2>1
  <2>3. ticking' \in BOOLEAN
    BY CloserLeaves DEF TypeOK
  <2> QED BY <1>1, <1>2, <2>1, <2>2, <2>3 DEF TypeOK
<1>5. CallInv'
  BY <1>1, <1>2, <1>3 DEF CallInv
<1>6. writer.pc = "done" \/ (writer.pc \in {"report", "last"} /\ ~listening)
  <2>1. CASE user = "sleep"
    BY <2>1, <1>1 DEF Slept, Settled
  <2>2. CASE user # "sleep"
    BY <2>2, <1>1 DEF AfterSleep, WriterInv
  <2> QED BY <2>1, <2>2
<1>7. WriterInv' /\ SentInOrder'
  BY <1>2, <1>3, <1>6 DEF WriterInv, SentInOrder
<1>8. ReaderInv' /\ ReadIsReceived'
  BY <1>2, ReaderPartsKept DEF input
<1> QED BY <1>4, <1>5, <1>7, <1>8

-----------------------------------------------------------------------------
(* The resizer, the ticker and the server touch no part but the types.     *)

(* The window and the ticker.                                              *)
LEMMA ResizerKeeps ==
  ASSUME IndInv, panic = "none", WindowChanges \/ ResizerEnds \/ Tick PROVE IndInv'
<1> USE DEF IndInv
<1>1. /\ UNCHANGED <<kind, habit, opened, server, conn, writeErr, buffered, wire, closeSent,
                     reader, rereads, read, writer, posted, user, listening, received, told, panic>>
      /\ resizer' \in {resizer, "offer", "done"}
  BY DEF WindowChanges, ResizerEnds, Tick, peer, net, input, caller
<1>2. ticking' \in BOOLEAN
  BY DEF WindowChanges, ResizerEnds, Tick, TypeOK
<1>3. TypeOK'
  BY <1>1, <1>2 DEF TypeOK
<1>4. CallInv'
  BY <1>1 DEF CallInv
<1>5. WriterInv' /\ SentInOrder'
  BY <1>1, WriterPartsKept DEF AfterSleep
<1>6. ReaderInv' /\ ReadIsReceived'
  BY <1>1, ReaderPartsKept DEF input
<1> QED BY <1>3, <1>4, <1>5, <1>6

(* The server.                                                             *)
LEMMA ServerKeeps ==
  ASSUME IndInv, panic = "none", ServerSends \/ ServerEnds PROVE IndInv'
<1> USE DEF IndInv
<1>1. UNCHANGED <<kind, habit, opened, conn, writeErr, buffered, wire, closeSent,
                  reader, rereads, read, writer, resizer, ticking,
                  posted, user, listening, received, told, panic>>
  BY DEF ServerSends, ServerEnds, net, input, output, caller
<1>2. server' \in Servers /\ server'.sent >= server.sent
  <2> server \in Servers /\ MaxMessages \in Nat
    BY BoundsAssumption DEF TypeOK, Servers
  <2>1. CASE ServerSends
    <3>1. server' = [server EXCEPT !.sent = @ + 1] /\ server.sent < MaxMessages
      BY <2>1 DEF ServerSends
    <3>2. server.sent \in 0..MaxMessages /\ server.sent + 1 \in 0..MaxMessages
      BY <3>1 DEF Servers
    <3> QED BY <3>1, <3>2 DEF Servers
  <2>2. CASE ServerEnds
    <3>1. PICK e \in Endings \cup {"unexpected"} : server' = [server EXCEPT !.ending = e]
      BY <2>2 DEF ServerEnds
    <3>2. e \in {"going_away", "unexpected", "lost"}
      BY ChoicesAssumption
    <3> QED BY <3>1, <3>2 DEF Servers
  <2> QED BY <2>1, <2>2
<1>3. read' \in 0..server'.sent
  <2>1. read \in 0..server.sent /\ server.sent \in Nat /\ server'.sent \in Nat
    BY <1>2, BoundsAssumption DEF TypeOK, Servers
  <2> QED BY <1>1, <1>2, <2>1
<1>4. TypeOK'
  BY <1>1, <1>2, <1>3 DEF TypeOK, Servers
<1>5. CallInv'
  BY <1>1 DEF CallInv
<1>6. WriterInv' /\ SentInOrder'
  BY <1>1, WriterPartsKept DEF AfterSleep
<1>7. ReaderInv' /\ ReadIsReceived'
  BY <1>1, ReaderPartsKept DEF input
<1> QED BY <1>4, <1>5, <1>6, <1>7

-----------------------------------------------------------------------------
(* The reader.                                                             *)

(* A reader that keeps its message keeps its types.                        *)
LEMMA ReaderGoes ==
  ASSUME TypeOK, NEW pc \in ReaderPcs
  PROVE  /\ [reader EXCEPT !.pc = pc] = [pc |-> pc, msg |-> reader.msg]
         /\ [reader EXCEPT !.pc = pc] \in Readers
<1>1. reader \in Readers
  BY DEF TypeOK, Readers, ReaderPcs
<1> QED BY <1>1 DEF Readers

(* Any reader of the type is one of the record's fields.                   *)
LEMMA ReaderIs ==
  ASSUME NEW pc \in ReaderPcs, NEW msg \in 0..MaxMessages
  PROVE  /\ [pc |-> pc, msg |-> msg] \in Readers
         /\ [pc |-> pc, msg |-> msg].pc = pc /\ [pc |-> pc, msg |-> msg].msg = msg
  BY DEF Readers

(* The look at done.                                                       *)
LEMMA CheckKeeps == ASSUME IndInv, panic = "none", ReaderCheck PROVE IndInv'
<1> USE DEF IndInv
<1>1. /\ reader.pc = "check"
      /\ reader' = [reader EXCEPT !.pc = IF Done THEN "done" ELSE "read"]
      /\ UNCHANGED <<kind, habit, opened, server, conn, writeErr, buffered, wire, closeSent,
                     rereads, read, writer, resizer, ticking,
                     posted, user, listening, received, told, panic>>
  BY DEF ReaderCheck, peer, net, output, caller
<1>2. PICK pc \in {"done", "read"} : reader' = [pc |-> pc, msg |-> reader.msg]
  BY <1>1, ReaderGoes DEF ReaderPcs
<1>3. TypeOK'
  <2>1. reader' \in Readers
    BY <1>1, ReaderGoes DEF ReaderPcs
  <2> QED BY <1>1, <2>1 DEF TypeOK, Readers, ReaderPcs
<1>4. CallInv'
  BY <1>1, <1>2 DEF CallInv
<1>5. WriterInv' /\ SentInOrder'
  BY <1>1, WriterPartsKept DEF AfterSleep
<1>6. reader.msg = 0
  BY <1>1 DEF ReaderInv
<1>7. ReaderInv' /\ ReadIsReceived'
  BY <1>1, <1>2, <1>6 DEF ReaderInv, ReadIsReceived
<1> QED BY <1>3, <1>4, <1>5, <1>7

(* A read: the connection is closed, a message arrives, or it has ended.   *)
LEMMA ReadKeeps == ASSUME IndInv, panic = "none", Read PROVE IndInv'
<1> USE BoundsAssumption DEF IndInv
<1>1. /\ reader.pc = "read"
      /\ UNCHANGED <<kind, habit, opened, server, conn, buffered, wire, closeSent,
                     writer, resizer, ticking, posted, user, listening, received, told>>
  BY DEF Read, peer, output, caller
<1>2. reader.msg = 0 /\ opened # "no"
  BY <1>1 DEF ReaderInv, CallInv
<1>3. rereads <= RereadLimit /\ rereads \in Nat /\ RereadLimit \in Nat
  BY DEF CallInv, TypeOK
<1>4. /\ \/ reader'.pc \in {"done", "err"} /\ reader'.msg = 0 /\ read' = read
         \/ reader' = [pc |-> "deliver", msg |-> read + 1] /\ read' = read + 1 /\ read < server.sent
      /\ reader' \in Readers
      /\ rereads' \in 0..(RereadLimit + 1)
      /\ panic' \in {"none", "repeated read"}
      /\ panic' = "none" => rereads' <= RereadLimit
      /\ writeErr' \in BOOLEAN /\ (writeErr => writeErr')
  <2>1. CASE /\ conn = "closed"
             /\ reader' = [reader EXCEPT !.pc = AfterClose]
             /\ UNCHANGED <<rereads, read, writeErr, panic>>
    <3>1. reader' = [pc |-> "done", msg |-> 0] /\ reader' \in Readers
      BY <2>1, <1>2, ReaderGoes DEF AfterClose, ReaderPcs
    <3>2. rereads' \in 0..(RereadLimit + 1) /\ rereads' <= RereadLimit /\ panic' = "none"
      BY <2>1 DEF TypeOK, CallInv
    <3> QED BY <2>1, <3>1, <3>2 DEF TypeOK
  <2>2. CASE /\ conn = "open" /\ read < server.sent
             /\ reader' = [pc |-> AfterMessage, msg |-> read + 1]
             /\ read' = read + 1
             /\ UNCHANGED <<rereads, writeErr, panic>>
    <3>1. read + 1 \in 0..MaxMessages
      BY <2>2 DEF TypeOK
    <3>2. reader' = [pc |-> "deliver", msg |-> read + 1] /\ reader' \in Readers
      BY <2>2, <3>1, ReaderIs DEF AfterMessage, ReaderPcs
    <3>3. rereads' \in 0..(RereadLimit + 1) /\ rereads' <= RereadLimit /\ panic' = "none"
      BY <2>2 DEF TypeOK, CallInv
    <3> QED BY <2>2, <3>2, <3>3 DEF TypeOK
  <2>3. CASE /\ conn = "open" /\ read = server.sent /\ server.ending # "none"
             /\ reader' = [pc |-> AfterEnding(server.ending), msg |-> 0]
             /\ rereads' = rereads + 1
             /\ panic' = IF rereads' > RereadLimit THEN "repeated read" ELSE panic
             /\ writeErr' = (writeErr \/ server.ending # "lost")
             /\ UNCHANGED read
    <3>1. AfterEnding(server.ending) \in {"done", "err"}
      BY DEF AfterEnding
    <3>2. rereads' = rereads + 1 /\ panic' = IF rereads' > RereadLimit THEN "repeated read" ELSE "none"
      BY <2>3
    <3>3. writeErr' \in BOOLEAN /\ (writeErr => writeErr')
      BY <2>3
    <3>4. reader'.pc \in {"done", "err"} /\ reader'.msg = 0
      BY <2>3, <3>1
    <3>5. reader' \in Readers
      <4>1. AfterEnding(server.ending) \in ReaderPcs /\ 0 \in 0..MaxMessages
        BY <3>1 DEF ReaderPcs
      <4>2. [pc |-> AfterEnding(server.ending), msg |-> 0] \in Readers
        BY <4>1, ReaderIs
      <4> QED BY <2>3, <4>2
    <3>6. /\ rereads' \in 0..(RereadLimit + 1) /\ panic' \in {"none", "repeated read"}
          /\ panic' = "none" => rereads' <= RereadLimit
      <4> DEFINE n == rereads + 1
      <4>1. rereads' = n
        BY <3>2
      <4>4. n \in 0..(RereadLimit + 1)
        BY <1>3
      <4>2. CASE rereads' > RereadLimit
        BY <3>2, <4>1, <4>2, <4>4
      <4>3. CASE ~(rereads' > RereadLimit)
        BY <3>2, <4>1, <4>3, <4>4, <1>3
      <4> QED BY <4>2, <4>3
    <3> QED BY <2>3, <3>3, <3>4, <3>5, <3>6
  <2> QED BY <2>1, <2>2, <2>3 DEF Read
<1>5. read' \in 0..server.sent /\ reader' \in Readers /\ rereads' \in 0..(RereadLimit + 1)
  <2>1. read \in 0..server.sent /\ server.sent \in Nat
    BY DEF TypeOK
  <2>2. read' = read \/ (read' = read + 1 /\ read < server.sent)
    BY <1>4
  <2>3. reader' \in Readers /\ rereads' \in 0..(RereadLimit + 1)
    BY <1>4
  <2> QED BY <2>1, <2>2, <2>3
<1>6. (writeErr => writeErr') /\ writeErr' \in BOOLEAN
  BY <1>4
<1>7. panic' \in {"none", "repeated read"} /\ (panic' = "none" => rereads' <= RereadLimit)
  BY <1>4
<1>8. TypeOK'
  <2>1. writeErr' \in BOOLEAN /\ panic' \in {"none", "repeated read"}
    BY <1>6, <1>7
  <2>2. read' \in 0..server'.sent /\ server' = server
    BY <1>1, <1>5
  <2>3. /\ reader' \in [pc : {"off", "check", "read", "err", "deliver", "done"}, msg : 0..MaxMessages]
        /\ rereads' \in 0..(RereadLimit + 1)
    BY <1>5 DEF Readers, ReaderPcs
  <2>4. TypeOK
    OBVIOUS
  <2>5. panic' \in {"none", "nil error", "send on closed channel", "repeated read"}
    BY <2>1
  <2> HIDE DEF IndInv
  <2>6. /\ kind' \in Kinds /\ habit' \in Habits
        /\ opened' \in Handshakes \cup {"no"} /\ conn' \in {"none", "open", "closed"}
        /\ conn' = "none" <=> opened' \in {"no", "token", "dial"}
        /\ resizer' \in {"off", "select", "offer", "done"}
        /\ wire' \in Seq(0..MaxPosts) /\ posted' \in 0..MaxPosts
        /\ user' \in {"free", "posting", "sleep", "send", "recv", "errs", "conn", "returned"}
        /\ received' \in Seq(1..MaxMessages)
    BY <1>1, <2>4 DEF TypeOK
  <2>7. /\ ticking' \in BOOLEAN /\ buffered' \in BOOLEAN
        /\ closeSent' \in BOOLEAN /\ listening' \in BOOLEAN /\ told' \in BOOLEAN
    BY <1>1, <2>4 DEF TypeOK
  <2>8. /\ server' \in [sent : 0..MaxMessages, ending : {"none", "going_away", "unexpected", "lost"}]
        /\ writer' \in [pc : {"off", "select", "write", "report", "last", "done"}, frame : Frames,
                        msg : 0..MaxPosts]
    BY <1>1, <2>4 DEF TypeOK
  <2> QED BY <2>1, <2>2, <2>3, <2>5, <2>6, <2>7, <2>8 DEF TypeOK
<1>9. CallInv'
  BY <1>1, <1>2, <1>7 DEF CallInv
<1>10. WriterInv' /\ SentInOrder'
  BY <1>1, <1>6 DEF WriterInv, SentInOrder, AfterSleep
<1>11. ReaderInv' /\ ReadIsReceived'
  <2>1. read \in Nat /\ received = [i \in 1..read |-> i]
    BY <1>1, <1>2 DEF ReadIsReceived, TypeOK
  <2>2. CASE reader'.pc \in {"done", "err"} /\ reader'.msg = 0 /\ read' = read
    BY <1>1, <2>1, <2>2 DEF ReaderInv, ReadIsReceived
  <2>3. CASE reader' = [pc |-> "deliver", msg |-> read + 1] /\ read' = read + 1
    BY <1>1, <2>1, <2>3 DEF ReaderInv, ReadIsReceived
  <2>4. \/ reader'.pc \in {"done", "err"} /\ reader'.msg = 0 /\ read' = read
        \/ reader' = [pc |-> "deliver", msg |-> read + 1] /\ read' = read + 1
    BY <1>4
  <2> QED BY <2>2, <2>3, <2>4
<1> QED BY <1>8, <1>9, <1>10, <1>11

(* The receiver takes an error: it may leave only with one in its hand.    *)
LEMMA TakenTypes ==
  ASSUME ErrsTaken PROVE listening /\ listening' \in BOOLEAN /\ told' = TRUE
  BY DEF ErrsTaken

(* A send on a closed channel ends the program and changes nothing else.   *)
LEMMA PanicKeeps ==
  ASSUME IndInv, panic' \in {panic, "send on closed channel"},
         UNCHANGED <<kind, habit, opened, server, conn, writeErr, buffered, wire, closeSent,
                     reader, rereads, read, writer, resizer, ticking,
                     posted, user, listening, received, told>>
  PROVE  IndInv'
<1> USE DEF IndInv
<1>1. TypeOK'
  <2>1. read' \in 0..server'.sent
    BY DEF TypeOK
  <2>2. /\ ticking' \in BOOLEAN /\ writeErr' \in BOOLEAN /\ buffered' \in BOOLEAN
        /\ closeSent' \in BOOLEAN /\ listening' \in BOOLEAN /\ told' \in BOOLEAN
    BY DEF TypeOK
  <2>3. /\ server' \in Servers /\ reader' \in Readers /\ writer' \in Writers
        /\ rereads' \in 0..(RereadLimit + 1)
    BY DEF TypeOK, Servers, Readers, ReaderPcs, Writers, WriterPcs
  <2>4. /\ kind' \in Kinds /\ habit' \in Habits /\ opened' \in Handshakes \cup {"no"}
        /\ conn' \in {"none", "open", "closed"} /\ (conn' = "none" <=> opened' \in {"no", "token", "dial"})
        /\ user' \in {"free", "posting", "sleep", "send", "recv", "errs", "conn", "returned"}
        /\ resizer' \in {"off", "select", "offer", "done"}
    BY DEF TypeOK
  <2>5. /\ wire' \in Seq(0..MaxPosts) /\ received' \in Seq(1..MaxMessages) /\ posted' \in 0..MaxPosts
        /\ panic' \in {"none", "nil error", "send on closed channel", "repeated read"}
    BY DEF TypeOK
  <2> QED BY <2>1, <2>2, <2>3, <2>4, <2>5
          DEF TypeOK, Servers, Readers, ReaderPcs, Writers, WriterPcs
<1>2. CallInv'
  BY DEF CallInv
<1>3. WriterInv' /\ SentInOrder'
  BY WriterPartsKept DEF AfterSleep
<1>4. ReaderInv' /\ ReadIsReceived'
  BY ReaderPartsKept DEF input
<1> QED BY <1>1, <1>2, <1>3, <1>4

(* The reader's report.                                                    *)
LEMMA ReaderReportsKeeps == ASSUME IndInv, panic = "none", ReaderReports PROVE IndInv'
<1> USE DEF IndInv
<1>1. /\ reader.pc = "err"
      /\ UNCHANGED <<kind, habit, opened, server, conn, writeErr, buffered, wire, closeSent,
                     rereads, read, writer, resizer, ticking, posted, user, received>>
  BY DEF ReaderReports, peer, net, output
<1>2. reader.msg = 0 /\ opened # "no"
  BY <1>1 DEF ReaderInv, CallInv
<1>3. CASE Closed("errs") /\ panic' = "send on closed channel" /\ UNCHANGED <<reader, listening, told>>
  BY <1>1, <1>3, PanicKeeps
<1>4. CASE ~Closed("errs") /\ ErrsTaken /\ reader' = [reader EXCEPT !.pc = "deliver"] /\ UNCHANGED panic
  <2>1. reader' = [pc |-> "deliver", msg |-> 0] /\ reader' \in Readers
    BY <1>2, <1>4, ReaderGoes DEF ReaderPcs
  <2>2. listening /\ listening' \in BOOLEAN /\ told' = TRUE
    BY <1>4, TakenTypes
  <2>3. TypeOK'
    BY <1>1, <1>4, <2>1, <2>2 DEF TypeOK, Readers, ReaderPcs
  <2>4. CallInv'
    BY <1>1, <1>2, <1>4 DEF CallInv
  <2>5. WriterInv' /\ SentInOrder'
    BY <1>1, <2>2 DEF WriterInv, SentInOrder, AfterSleep
  <2>6. ReaderInv' /\ ReadIsReceived'
    BY <1>1, <1>2, <2>1 DEF ReaderInv, ReadIsReceived
  <2> QED BY <2>3, <2>4, <2>5, <2>6
<1> QED BY <1>3, <1>4 DEF ReaderReports, Panics

(* The delivery: the message held is the next one of the messages read.    *)
LEMMA DeliversKeeps == ASSUME IndInv, panic = "none", ReaderDelivers PROVE IndInv'
<1> USE BoundsAssumption DEF IndInv
<1>1. /\ reader.pc = "deliver"
      /\ UNCHANGED <<kind, habit, opened, server, conn, writeErr, buffered, wire, closeSent,
                     rereads, read, writer, resizer, ticking, posted, user, listening, told>>
  BY DEF ReaderDelivers, peer, net, output
<1>2. opened # "no"
  BY <1>1 DEF CallInv
<1>3. WriterInv' /\ SentInOrder'
  BY <1>1, WriterPartsKept DEF AfterSleep
<1>4. CASE Closed("recv") /\ panic' = "send on closed channel" /\ UNCHANGED <<reader, received>>
  BY <1>1, <1>4, PanicKeeps
<1>5. CASE /\ ~Closed("recv") /\ listening
           /\ received' = IF reader.msg = 0 THEN received ELSE Append(received, reader.msg)
           /\ reader' = [pc |-> "check", msg |-> 0]
           /\ UNCHANGED panic
  <2>1. reader' \in Readers /\ reader'.pc = "check" /\ reader'.msg = 0
    BY <1>5, ReaderIs DEF ReaderPcs
  <2>2. read \in Nat /\ received \in Seq(1..MaxMessages) /\ read <= MaxMessages
    BY DEF TypeOK
  <2>3. received' = [i \in 1..read |-> i] /\ received' \in Seq(1..MaxMessages)
    <3>1. CASE reader.msg = 0
      BY <1>1, <1>5, <2>2, <3>1 DEF ReadIsReceived
    <3>2. CASE reader.msg # 0
      <4>1. reader.msg = read /\ read \in 1..MaxMessages
        BY <1>1, <2>2, <3>2 DEF ReaderInv
      <4>2. received = [i \in 1..(read - 1) |-> i]
        BY <1>1, <3>2 DEF ReadIsReceived
      <4>3. received' = Append(received, read)
        BY <1>5, <3>2, <4>1
      <4> QED BY <2>2, <4>1, <4>2, <4>3
    <3> QED BY <3>1, <3>2
  <2>4. TypeOK'
    BY <1>1, <1>5, <2>1, <2>3 DEF TypeOK, Readers, ReaderPcs
  <2>5. CallInv'
    BY <1>1, <1>2, <1>5 DEF CallInv
  <2>6. ReaderInv' /\ ReadIsReceived'
    BY <1>1, <2>1, <2>2, <2>3 DEF ReaderInv, ReadIsReceived
  <2> QED BY <1>3, <2>4, <2>5, <2>6
<1> QED BY <1>4, <1>5 DEF ReaderDelivers, Panics

-----------------------------------------------------------------------------
(* The writer.                                                             *)

(* Any writer of the type is one of the record's fields.                   *)
LEMMA WriterIs ==
  ASSUME NEW pc \in WriterPcs, NEW frame \in Frames, NEW msg \in 0..MaxPosts
  PROVE  /\ [pc |-> pc, frame |-> frame, msg |-> msg] \in Writers
         /\ [pc |-> pc, frame |-> frame, msg |-> msg].pc = pc
         /\ [pc |-> pc, frame |-> frame, msg |-> msg].frame = frame
         /\ [pc |-> pc, frame |-> frame, msg |-> msg].msg = msg
  BY DEF Writers

(* A writer that goes to another point keeps its frame and message.        *)
LEMMA WriterGoes ==
  ASSUME TypeOK, NEW pc \in WriterPcs, writer' = [writer EXCEPT !.pc = pc]
  PROVE  writer' \in Writers /\ writer'.pc = pc /\ writer'.frame = writer.frame
         /\ writer'.msg = writer.msg
<1>1. writer \in Writers
  BY DEF TypeOK, Writers, WriterPcs
<1> QED BY <1>1 DEF Writers

(* select takes a frame without a message, or the message handed over: no  *)
(* receive from a closed channel, since the writer does not select then.   *)
LEMMA SelectTakes ==
  ASSUME IndInv, WriterSelect
  PROVE  /\ writer.pc = "select" /\ opened # "no" /\ ~AfterSleep
         /\ UNCHANGED <<kind, habit, opened, server, conn, writeErr, buffered, wire, closeSent,
                        reader, rereads, read, listening, received, told, panic>>
         /\ ticking' \in BOOLEAN /\ resizer' \in {resizer, "select"}
         /\ \/ \E frame \in {"close", "alive", "size"} :
                 /\ writer' = [pc |-> "write", frame |-> frame, msg |-> 0]
                 /\ frame = "close" => Done
                 /\ UNCHANGED <<posted, user>>
            \/ /\ writer' = [pc |-> "write", frame |-> "data", msg |-> posted + 1]
               /\ user = "posting" /\ user' = "free" /\ posted' = posted + 1
<1> USE DEF IndInv
<1>1. /\ writer.pc = "select"
      /\ UNCHANGED <<kind, habit, opened, server, conn, writeErr, buffered, wire, closeSent,
                     reader, rereads, read, listening, received, told, panic>>
  BY DEF WriterSelect, peer, net, input
<1>2. opened # "no" /\ ~AfterSleep
  BY <1>1 DEF CallInv, WriterInv
<1>3. ~Closed("send")
  BY <1>2, ClosedAfterSleep
<1>4. ticking' \in BOOLEAN /\ resizer' \in {resizer, "select"}
  BY DEF WriterSelect, TypeOK
<1> QED BY <1>1, <1>2, <1>3, <1>4 DEF WriterSelect, Takes

(* select.                                                                 *)
LEMMA SelectKeeps == ASSUME IndInv, panic = "none", WriterSelect PROVE IndInv'
<1> USE BoundsAssumption DEF IndInv
<1>1. /\ writer.pc = "select" /\ opened # "no" /\ ~AfterSleep
      /\ UNCHANGED <<kind, habit, opened, server, conn, writeErr, buffered, wire, closeSent,
                     reader, rereads, read, listening, received, told, panic>>
      /\ ticking' \in BOOLEAN /\ resizer' \in {resizer, "select"}
  BY SelectTakes
<1>2. ReaderInv' /\ ReadIsReceived'
  BY <1>1, ReaderPartsKept DEF input
<1>3. CASE \E frame \in {"close", "alive", "size"} :
             /\ writer' = [pc |-> "write", frame |-> frame, msg |-> 0]
             /\ UNCHANGED <<posted, user>>
  <2>1. writer' \in Writers /\ writer'.pc = "write" /\ writer'.frame # "data"
    <3>1. PICK frame \in {"close", "alive", "size"} :
            writer' = [pc |-> "write", frame |-> frame, msg |-> 0]
      BY <1>3
    <3>2. frame \in Frames /\ 0 \in 0..MaxPosts
      BY DEF Frames
    <3> QED BY <3>1, <3>2, WriterIs DEF WriterPcs
  <2>2. UNCHANGED <<posted, user>>
    BY <1>3
  <2>3. TypeOK'
    BY <1>1, <2>1, <2>2 DEF TypeOK, Writers, WriterPcs
  <2>4. CallInv'
    BY <1>1, <2>2 DEF CallInv
  <2>5. WriterInv' /\ SentInOrder'
    BY <1>1, <2>1, <2>2 DEF WriterInv, SentInOrder, AfterSleep, TypeOK
  <2> QED BY <1>2, <2>3, <2>4, <2>5
<1>4. CASE /\ writer' = [pc |-> "write", frame |-> "data", msg |-> posted + 1]
           /\ user = "posting" /\ user' = "free" /\ posted' = posted + 1
  <2>1. posted + 1 \in 0..MaxPosts /\ posted \in Nat
    BY <1>4 DEF CallInv, TypeOK
  <2>2. writer' \in Writers /\ writer'.pc = "write" /\ writer'.frame = "data"
        /\ writer'.msg = posted + 1
    BY <1>4, <2>1, WriterIs DEF WriterPcs, Frames
  <2>3. TypeOK'
    BY <1>1, <1>4, <2>1, <2>2 DEF TypeOK, Writers, WriterPcs
  <2>4. CallInv'
    BY <1>1, <1>4 DEF CallInv
  <2>5. Len(wire) \in Nat
    BY DEF TypeOK
  <2>6. WriterInv' /\ SentInOrder'
    BY <1>1, <1>4, <2>1, <2>2, <2>5 DEF WriterInv, SentInOrder, AfterSleep
  <2> QED BY <1>2, <2>3, <2>4, <2>6
<1> QED BY <1>3, <1>4, SelectTakes

(* A write: what is accepted is the next message, or the last frame.       *)
LEMMA WritesKeeps == ASSUME IndInv, panic = "none", WriterWrites PROVE IndInv'
<1> USE BoundsAssumption DEF IndInv
<1>1. /\ writer.pc = "write"
      /\ UNCHANGED <<kind, habit, opened, server, conn, reader, rereads, read, resizer, ticking,
                     posted, user, listening, received, told, panic>>
  BY DEF WriterWrites, peer, input, caller
<1>2. PICK ok \in Accepted :
        /\ writer' = [writer EXCEPT !.pc = AfterWrite(ok)]
        /\ wire' = IF ok /\ writer.frame = "data" THEN Append(wire, writer.msg) ELSE wire
        /\ closeSent' = (closeSent \/ (ok /\ writer.frame = "close"))
        /\ writeErr' = (writeErr \/ ~ok \/ writer.frame = "close")
        /\ buffered' = (buffered \/ (ok /\ server.ending # "none"))
  BY DEF WriterWrites
<1>3. ok \in BOOLEAN /\ (writeErr => ok = FALSE)
  BY DEF Accepted
<1>4. opened # "no" /\ ~AfterSleep /\ ~AfterSleep' /\ closeSent = FALSE
  BY <1>1 DEF CallInv, WriterInv, SentInOrder, AfterSleep, TypeOK
<1>5. /\ writer' \in Writers /\ writer'.frame = writer.frame
      /\ ok = TRUE /\ writer.frame # "close" => writer'.pc = "select"
      /\ ok = TRUE /\ writer.frame = "close" => writer'.pc = "done"
      /\ ok = FALSE => writer'.pc \in {"report", "last"}
  <2>1. AfterWrite(ok) \in {"done", "last", "select", "report"}
    BY DEF AfterWrite
  <2>2. writer' \in Writers /\ writer'.pc = AfterWrite(ok) /\ writer'.frame = writer.frame
    BY <1>2, <2>1, WriterGoes DEF WriterPcs
  <2> QED BY <2>2 DEF AfterWrite
<1>6. /\ ok = FALSE => writeErr' = TRUE /\ wire' = wire /\ closeSent' = FALSE
      /\ ok = TRUE /\ writer.frame = "close" => wire' = wire /\ closeSent' = TRUE /\ writeErr' = TRUE
      /\ ok = TRUE /\ writer.frame = "data" =>
           wire' = Append(wire, writer.msg) /\ closeSent' = FALSE /\ writeErr' = writeErr
      /\ ok = TRUE /\ writer.frame \notin {"close", "data"} =>
           wire' = wire /\ closeSent' = FALSE /\ writeErr' = writeErr
      /\ writeErr' \in BOOLEAN /\ closeSent' \in BOOLEAN /\ buffered' \in BOOLEAN
  BY <1>2, <1>3, <1>4 DEF TypeOK
<1>7. /\ posted \in 0..MaxPosts /\ wire \in Seq(0..MaxPosts) /\ Len(wire) \in Nat
      /\ writer.frame \in Frames /\ writer.msg \in 0..MaxPosts
  BY DEF TypeOK
<1>8. WriterInv' /\ SentInOrder'
  <2>1. CASE ok = FALSE
    <3>1. writer'.pc \in {"report", "last"} /\ writeErr' = TRUE /\ wire' = wire /\ closeSent' = FALSE
      BY <1>5, <1>6, <2>1
    <3>2. WriterInv'
      BY <1>1, <1>4, <3>1 DEF WriterInv
    <3>3. SentInOrder'
      BY <1>1, <3>1 DEF SentInOrder
    <3> QED BY <3>2, <3>3
  <2>2. CASE ok = TRUE /\ writer.frame = "data"
    <3>1. writer'.pc = "select" /\ wire' = Append(wire, writer.msg) /\ closeSent' = FALSE
      BY <1>5, <1>6, <2>2
    <3>2. writer.msg = posted /\ Len(wire) = posted - 1
      BY <1>1, <1>3, <2>2, <1>7 DEF WriterInv, SentInOrder
    <3>3. Len(wire') = posted /\ \A i \in DOMAIN wire' : wire'[i] = i
      <4>1. \A i \in DOMAIN wire : wire[i] = i
        BY DEF SentInOrder
      <4> QED BY <1>7, <3>1, <3>2, <4>1
    <3>4. WriterInv'
      BY <1>1, <1>4, <1>7, <3>1, <3>3 DEF WriterInv
    <3>5. SentInOrder'
      BY <1>1, <1>7, <3>1, <3>3 DEF SentInOrder
    <3> QED BY <3>4, <3>5
  <2>3. CASE ok = TRUE /\ writer.frame # "data"
    <3>1. /\ writer'.pc \in {"select", "done"} /\ wire' = wire
          /\ closeSent' => writer'.pc = "done"
          /\ writeErr => writeErr'
      BY <1>3, <1>5, <1>6, <2>3
    <3>2. WriterInv'
      BY <1>1, <1>4, <3>1 DEF WriterInv
    <3>3. SentInOrder'
      BY <1>1, <2>3, <3>1 DEF SentInOrder
    <3> QED BY <3>2, <3>3
  <2> QED BY <1>3, <2>1, <2>2, <2>3
<1>9. TypeOK'
  <2>1. wire' \in Seq(0..MaxPosts)
    <3>1. wire' = wire \/ wire' = Append(wire, writer.msg)
      BY <1>2
    <3> QED BY <3>1, <1>7
  <2>2. writeErr' \in BOOLEAN /\ closeSent' \in BOOLEAN /\ buffered' \in BOOLEAN
    BY <1>6
  <2>3. writer' \in Writers
    BY <1>5
  <2> QED BY <1>1, <2>1, <2>2, <2>3 DEF TypeOK, Writers, WriterPcs
<1>10. CallInv'
  BY <1>1, <1>4 DEF CallInv
<1>11. ReaderInv' /\ ReadIsReceived'
  BY <1>1, ReaderPartsKept DEF input
<1> QED BY <1>8, <1>9, <1>10, <1>11

(* A report: the receiver is told, or the program ends.                    *)
LEMMA WriterReportsKeeps == ASSUME IndInv, panic = "none", WriterReports PROVE IndInv'
<1> USE DEF IndInv
<1>1. /\ writer.pc \in {"report", "last"}
      /\ UNCHANGED <<kind, habit, opened, server, conn, writeErr, buffered, wire, closeSent,
                     reader, rereads, read, resizer, ticking, posted, user, received>>
  BY DEF WriterReports, peer, net, input
<1>2. CASE Closed("errs") /\ panic' = "send on closed channel" /\ UNCHANGED <<writer, listening, told>>
  BY <1>1, <1>2, PanicKeeps
<1>3. CASE ~Closed("errs") /\ ErrsTaken /\ writer' = [writer EXCEPT !.pc = AfterReport] /\ UNCHANGED panic
  <2>1. AfterReport \in {"done", "select"} /\ (AfterReport = "done" <=> writer.pc = "last")
    BY DEF AfterReport
  <2>2. writer' \in Writers /\ writer'.pc \in {"done", "select"}
    BY <1>3, <2>1, WriterGoes DEF WriterPcs
  <2>3. listening /\ listening' \in BOOLEAN /\ told' = TRUE
    BY <1>3, TakenTypes
  <2>4. ~AfterSleep /\ ~AfterSleep' /\ ~closeSent /\ opened # "no"
    BY <1>1, <2>3 DEF WriterInv, AfterSleep, SentInOrder, CallInv
  <2>5. TypeOK'
    BY <1>1, <1>3, <2>2, <2>3 DEF TypeOK, Writers, WriterPcs
  <2>6. CallInv'
    BY <1>1, <1>3, <2>4 DEF CallInv
  <2>7. WriterInv' /\ SentInOrder'
    BY <1>1, <2>2, <2>3, <2>4 DEF WriterInv, SentInOrder
  <2>8. ReaderInv' /\ ReadIsReceived'
    BY <1>1, ReaderPartsKept DEF input
  <2> QED BY <2>5, <2>6, <2>7, <2>8
<1> QED BY <1>2, <1>3 DEF WriterReports, Panics

-----------------------------------------------------------------------------
(* The invariant.                                                          *)

(* Every step keeps it.                                                    *)
LEMMA StepKeeps == IndInv /\ [Next]_vars => IndInv'
<1> SUFFICES ASSUME IndInv, [Next]_vars PROVE IndInv'
  OBVIOUS
<1>1. CASE UNCHANGED vars
  <2>1. UNCHANGED <<kind, habit, opened, server, conn, writeErr, buffered, wire, closeSent,
                    reader, rereads, read, writer, resizer, ticking,
                    posted, user, listening, received, told, panic>>
    BY <1>1 DEF vars, peer, net, input, output, caller
  <2> QED BY <2>1, PanicKeeps
<1>2. CASE Next
  <2>1. panic = "none"
    BY <1>2 DEF Next
  <2>2. CASE Open
    BY <2>1, <2>2, OpenKeeps
  <2>3. CASE Close
    BY <2>1, <2>3, CloseKeeps
  <2>4. CASE CloserStep
    BY <2>1, <2>4, CloserKeeps
  <2>5. CASE Post
    BY <2>1, <2>5, PostKeeps
  <2>6. CASE Reader
    BY <2>1, <2>6, CheckKeeps, ReadKeeps, ReaderReportsKeeps, DeliversKeeps DEF Reader
  <2>7. CASE Writer
    BY <2>1, <2>7, SelectKeeps, WritesKeeps, WriterReportsKeeps DEF Writer
  <2>8. CASE ResizerEnds \/ WindowChanges \/ Tick
    BY <2>1, <2>8, ResizerKeeps
  <2>9. CASE ServerSends \/ ServerEnds
    BY <2>1, <2>9, ServerKeeps
  <2> QED BY <1>2, <2>2, <2>3, <2>4, <2>5, <2>6, <2>7, <2>8, <2>9 DEF Next
<1> QED BY <1>1, <1>2

(* It holds throughout.                                                    *)
THEOREM Inductive == Spec => []IndInv
<1>1. Init => IndInv
  BY InitHolds
<1>2. IndInv /\ [Next]_vars => IndInv'
  BY StepKeeps
<1> QED BY <1>1, <1>2, PTL DEF Spec

(* Every variable keeps its type, through every interleaving of the four   *)
(* goroutines, the caller and the server.                                  *)
THEOREM TypeCorrect == Spec => []TypeOK
<1>1. IndInv => TypeOK
  BY DEF IndInv
<1> QED BY <1>1, Inductive, PTL

(* What the caller posts goes out in order, none twice, none after the     *)
(* close frame, and none goes missing without the receiver being told,     *)
(* whatever the server does and whenever closer is called.                 *)
THEOREM OutputInOrder == Spec => []SentInOrder
<1>1. IndInv => SentInOrder
  BY DEF IndInv
<1> QED BY <1>1, Inductive, PTL

(* What the reader reads the receiver receives, in order, each once, but   *)
(* for the message in the reader's hand.                                   *)
THEOREM InputInOrder == Spec => []ReadIsReceived
<1>1. IndInv => ReadIsReceived
  BY DEF IndInv
<1> QED BY <1>1, Inductive, PTL

-----------------------------------------------------------------------------
(* Closing a session whose receiver drains.                                *)

(* A drained receiver never leaves.                                        *)
LEMMA DrainedStays ==
  ASSUME Drained, TypeOK, ErrsTaken PROVE listening'
  BY DEF Drained, TypeOK, ErrsTaken

(* Initially nothing is closed.                                            *)
LEMMA InitSafe == Init => SafeInv
  BY DEF Init, SafeInv, AfterSleep, ClosingIsSafe

(* The steps of the caller and of the server, and the window and ticker.   *)
LEMMA CallerSafe ==
  ASSUME Drained, IndInv, SafeInv, panic = "none",
         Open \/ Close \/ Post \/ ResizerEnds \/ WindowChanges \/ Tick
  PROVE  SafeInv'
<1>1. CASE Open
  <2>1. /\ UNCHANGED <<server, rereads, read, user, listening, closeSent>>
        /\ rereads = 0 \/ reader.pc = "done"
        /\ user = "free" /\ panic' \in {"nil error", "none"}
    BY <1>1 DEF Open, caller, IndInv, CallInv, SafeInv
  <2>2. writer'.frame = writer.frame
    BY <1>1 DEF Open, IndInv, TypeOK
  <2>3. rereads = 0
    BY <1>1 DEF Open, IndInv, CallInv, SafeInv
  <2> QED BY <2>1, <2>2, <2>3 DEF SafeInv, AfterSleep, ClosingIsSafe, Closing
<1>2. CASE Close \/ Post
  <2>1. /\ UNCHANGED <<server, reader, rereads, read, writer, listening, closeSent, panic>>
        /\ user = "free" /\ user' \in {"sleep", "posting"}
    BY <1>2 DEF Close, Post, peer, net, input, output
  <2> QED BY <2>1 DEF SafeInv, AfterSleep, ClosingIsSafe, Closing
<1>3. CASE ResizerEnds \/ WindowChanges \/ Tick
  <2>1. UNCHANGED <<server, reader, rereads, read, writer, listening, closeSent, panic, user>>
    BY <1>3 DEF ResizerEnds, WindowChanges, Tick, peer, net, input, caller
  <2> QED BY <2>1 DEF SafeInv, AfterSleep, ClosingIsSafe, Closing
<1> QED BY <1>1, <1>2, <1>3

(* The server: it is silent after the sleep, and its unexpected ending     *)
(* answers a close frame.                                                  *)
LEMMA ServerSafe ==
  ASSUME Drained, IndInv, SafeInv, panic = "none", ServerSends \/ ServerEnds
  PROVE  SafeInv'
<1>1. /\ UNCHANGED <<reader, rereads, read, writer, listening, closeSent, panic, user>>
      /\ ~AfterSleep
  BY DEF ServerSends, ServerEnds, ServerMay, net, input, output, caller, Drained, AfterSleep
<1>2. server'.ending = "unexpected" => closeSent
  <2>1. CASE ServerSends
    <3>1. server'.ending = server.ending
      BY <2>1 DEF ServerSends, IndInv, TypeOK
    <3> QED BY <3>1 DEF SafeInv
  <2>2. CASE ServerEnds
    <3>1. PICK e \in Endings \cup (IF closeSent THEN {"unexpected"} ELSE {}) :
            server' = [server EXCEPT !.ending = e]
      BY <2>2 DEF ServerEnds
    <3>2. server'.ending = e
      BY <3>1 DEF IndInv, TypeOK
    <3>3. CASE closeSent
      BY <3>3
    <3>4. CASE ~closeSent
      BY <3>1, <3>2, <3>4 DEF Drained
    <3> QED BY <3>3, <3>4
  <2> QED BY <2>1, <2>2
<1> QED BY <1>1, <1>2 DEF SafeInv, AfterSleep, ClosingIsSafe, Closing

(* closer wakes only when the reader has ended or waits for the server.    *)
LEMMA CloserSafe ==
  ASSUME Drained, IndInv, SafeInv, panic = "none", CloserStep
  PROVE  SafeInv'
<1>1. /\ UNCHANGED <<server, reader, rereads, read, writer, listening, closeSent, panic>>
      /\ user \in {"sleep", "send", "recv", "errs", "conn"}
      /\ user' \in {"send", "recv", "errs", "conn", "returned"}
      /\ user = "sleep" => Slept
  BY CloserLeaves, CloserAdvances DEF peer, input
<1>2. reader.pc = "done" \/ (reader.pc = "read" /\ read = server.sent /\ server.ending = "none")
  <2>1. CASE user = "sleep"
    BY <2>1, <1>1 DEF Slept, Settled, SafeInv
  <2>2. CASE user # "sleep"
    BY <2>2, <1>1 DEF SafeInv, AfterSleep
  <2> QED BY <2>1, <2>2
<1>3. Closing /\ Closing'
  BY <1>1 DEF Closing
<1> QED BY <1>1, <1>2, <1>3 DEF SafeInv, ClosingIsSafe

(* The reader fails to read once: it then finds done closed.  It is not    *)
(* about to send when the channels are closed.                             *)
LEMMA ReaderSafe ==
  ASSUME Drained, IndInv, SafeInv, panic = "none", Reader
  PROVE  SafeInv'
<1> USE DEF SafeInv, ClosingIsSafe
<1>1. CASE ReaderCheck
  <2>1. /\ UNCHANGED <<server, rereads, read, writer, listening, closeSent, panic, user>>
        /\ reader.pc = "check" /\ reader' = [reader EXCEPT !.pc = IF Done THEN "done" ELSE "read"]
    BY <1>1 DEF ReaderCheck, peer, net, output, caller
  <2>2. ~AfterSleep /\ ~AfterSleep'
    BY <2>1 DEF AfterSleep
  <2>3. rereads = 1 => reader'.pc = "done"
    BY <2>1, ReaderGoes DEF Done, IndInv, ReaderPcs
  <2> QED BY <2>1, <2>2, <2>3 DEF Closing
<1>2. CASE Read
  <2>1. /\ UNCHANGED <<server, writer, listening, closeSent, user>>
        /\ reader.pc = "read"
    BY <1>2 DEF Read, peer, output, caller
  <2>2. rereads = 0
    BY <2>1
  <2>3. CASE conn = "closed" /\ reader' = [reader EXCEPT !.pc = AfterClose] /\ UNCHANGED <<rereads, read, panic>>
    <3>1. reader'.pc = "done"
      BY <2>3, ReaderGoes DEF AfterClose, IndInv, ReaderPcs
    <3> QED BY <2>1, <2>2, <2>3, <3>1 DEF Closing
  <2>4. CASE read < server.sent /\ UNCHANGED <<rereads, panic>>
    <3>1. ~AfterSleep /\ ~AfterSleep'
      BY <2>1, <2>4 DEF AfterSleep, IndInv, TypeOK
    <3> QED BY <2>1, <2>2, <2>4, <3>1 DEF Closing
  <2>5. CASE /\ server.ending # "none" /\ reader' = [pc |-> AfterEnding(server.ending), msg |-> 0]
             /\ rereads' = rereads + 1
             /\ panic' = IF rereads' > RereadLimit THEN "repeated read" ELSE panic
    <3>1. ~AfterSleep /\ ~AfterSleep'
      BY <2>1, <2>5 DEF AfterSleep
    <3>2. rereads' = 1 /\ panic' = "none"
      <4>1. rereads' = rereads + 1
        BY <2>5
      <4>2. rereads' = 1 /\ ~(rereads' > RereadLimit)
        BY <2>2, <4>1, BoundsAssumption
      <4> QED BY <2>5, <4>2
    <3>3. reader'.pc = "done" \/ (reader'.pc = "err" /\ Closing)
      BY <2>5 DEF AfterEnding
    <3> QED BY <2>1, <3>1, <3>2, <3>3 DEF Closing
  <2> QED BY <1>2, <2>3, <2>4, <2>5 DEF Read
<1>3. CASE ReaderReports
  <2>1. /\ UNCHANGED <<server, rereads, read, writer, closeSent, user>>
        /\ reader.pc = "err"
    BY <1>3 DEF ReaderReports, peer, net, output
  <2>2. ~AfterSleep /\ ~AfterSleep'
    BY <2>1 DEF AfterSleep
  <2>3. ~Closed("errs")
    BY <2>2, ClosedAfterSleep DEF IndInv
  <2>4. ErrsTaken /\ reader' = [reader EXCEPT !.pc = "deliver"] /\ UNCHANGED panic
    BY <1>3, <2>3 DEF ReaderReports
  <2>5. listening' /\ reader'.pc = "deliver"
    BY <2>4, DrainedStays, ReaderGoes DEF IndInv, ReaderPcs
  <2> QED BY <2>1, <2>2, <2>4, <2>5 DEF Closing
<1>4. CASE ReaderDelivers
  <2>1. /\ UNCHANGED <<server, rereads, read, writer, closeSent, user, listening>>
        /\ reader.pc = "deliver"
    BY <1>4 DEF ReaderDelivers, peer, net, output
  <2>2. ~AfterSleep /\ ~AfterSleep'
    BY <2>1 DEF AfterSleep
  <2>3. ~Closed("recv")
    BY <2>2, ClosedAfterSleep DEF IndInv
  <2>4. reader'.pc = "check" /\ UNCHANGED panic
    <3>1. reader' = [pc |-> "check", msg |-> 0] /\ UNCHANGED panic
      BY <1>4, <2>3 DEF ReaderDelivers
    <3> QED BY <3>1
  <2> QED BY <2>1, <2>2, <2>4 DEF Closing
<1> QED BY <1>1, <1>2, <1>3, <1>4 DEF Reader

(* The writer takes its close frame from done, and reports before closer   *)
(* wakes or not at all.                                                    *)
LEMMA WriterSafe ==
  ASSUME Drained, IndInv, SafeInv, panic = "none", Writer
  PROVE  SafeInv'
<1> USE DEF SafeInv, ClosingIsSafe
<1>1. CASE WriterSelect
  <2>1. /\ UNCHANGED <<server, reader, rereads, read, listening, closeSent, panic>>
        /\ ~AfterSleep
    BY <1>1, SelectTakes
  <2>2. /\ writer'.frame = "close" => Closing'
        /\ Closing' <=> Closing
        /\ ~AfterSleep'
    BY <1>1, <2>1, SelectTakes DEF Done, Closing, AfterSleep
  <2> QED BY <2>1, <2>2
<1>2. CASE WriterWrites
  <2>1. /\ UNCHANGED <<server, reader, rereads, read, listening, panic, user>>
        /\ writer.pc = "write"
    BY <1>2 DEF WriterWrites, peer, input, caller
  <2>2. writer'.frame = writer.frame
    BY <1>2 DEF WriterWrites, IndInv, TypeOK
  <2>3. closeSent' => closeSent \/ writer.frame = "close"
    BY <1>2 DEF WriterWrites
  <2>4. closeSent => closeSent'
    BY <1>2 DEF WriterWrites
  <2> QED BY <2>1, <2>2, <2>3, <2>4 DEF Closing, AfterSleep
<1>3. CASE WriterReports
  <2>1. /\ UNCHANGED <<server, reader, rereads, read, closeSent, user>>
        /\ writer.pc \in {"report", "last"}
    BY <1>3 DEF WriterReports, peer, net, input
  <2>2. ~AfterSleep /\ ~AfterSleep'
    BY <2>1 DEF AfterSleep, IndInv, WriterInv
  <2>3. ~Closed("errs")
    BY <2>2, ClosedAfterSleep DEF IndInv
  <2>4. ErrsTaken /\ writer' = [writer EXCEPT !.pc = AfterReport] /\ UNCHANGED panic
    BY <1>3, <2>3 DEF WriterReports
  <2>5. listening' /\ writer'.frame = writer.frame
    BY <2>4, DrainedStays DEF IndInv, TypeOK
  <2> QED BY <2>1, <2>2, <2>4, <2>5 DEF Closing
<1> QED BY <1>1, <1>2, <1>3 DEF Writer

(* Every step keeps a drained session safe.                                *)
LEMMA StepSafe ==
  ASSUME Drained PROVE IndInv /\ SafeInv /\ [Next]_vars => SafeInv'
<1> SUFFICES ASSUME IndInv, SafeInv, [Next]_vars PROVE SafeInv'
  OBVIOUS
<1>1. CASE UNCHANGED vars
  BY <1>1 DEF vars, peer, net, input, output, caller, SafeInv, AfterSleep, Closing, ClosingIsSafe
<1>2. CASE Next
  BY <1>2, CallerSafe, ServerSafe, CloserSafe, ReaderSafe, WriterSafe DEF Next
<1> QED BY <1>1, <1>2

(* Three assumptions make closing safe, so that nobody sends on a channel   *)
(* that closer closed and nobody reads on from a failed connection until    *)
(* the library panics: the receiver drains both channels, the server is     *)
(* silent once closer has slept, and it ends a session that the caller has  *)
(* not closed only by going away or by losing the connection.  Without the  *)
(* last, the reader reads a connection again that has failed                *)
(* (proxmox.go:698-703).                                                    *)
THEOREM SafeWhenDrained ==
  ASSUME Drained PROVE Spec => []ClosingIsSafe
<1>1. Init => IndInv /\ SafeInv
  BY InitHolds, InitSafe
<1>2. IndInv /\ SafeInv /\ [Next]_vars => IndInv' /\ SafeInv'
  BY StepKeeps, StepSafe
<1>3. SafeInv => ClosingIsSafe
  BY DEF SafeInv
<1> QED BY <1>1, <1>2, <1>3, PTL DEF Spec
=============================================================================
