------------------------------ MODULE WebSocket ------------------------------
(***************************************************************************)
(* A terminal or VNC WebSocket (TermWebSocket and VNCWebSocket of          *)
(* proxmox.go).  The call dials and, for a terminal, exchanges a greeting; *)
(* it then leaves a reader, a writer and, for a terminal, a resizer        *)
(* running, which meet the caller on the unbuffered channels send, recv    *)
(* and errs.  The closer it returns closes done, sleeps for a second,      *)
(* closes the three channels and then the connection.                      *)
(*                                                                         *)
(* The caller is two goroutines, as in the integration tests: one receives *)
(* from recv and errs, the other sends and in the end calls closer, once.  *)
(***************************************************************************)
EXTENDS Naturals, Sequences

CONSTANTS
  Kinds,        \* what is opened: "term", "vnc"
  Habits,       \* how the receiver behaves: "drains", "first_error"
  Handshakes,   \* how opening may end
  Endings,      \* how the server may end a session that the caller has not closed
  Quiet,        \* the server is silent once closer has slept
  MaxMessages,  \* bound: messages of the server
  MaxPosts,     \* bound: messages of the caller
  RereadLimit   \* failed reads after which the library panics (1000)

Outcomes == {"ok", "token", "dial", "greet", "reply", "refused", "size"}

ASSUME ChoicesAssumption ==
  /\ Kinds \subseteq {"term", "vnc"} /\ Habits \subseteq {"drains", "first_error"}
  /\ Handshakes \subseteq Outcomes
  /\ Endings \subseteq {"going_away", "unexpected", "lost"} /\ Quiet \in BOOLEAN
ASSUME BoundsAssumption == MaxMessages \in Nat /\ MaxPosts \in Nat /\ RereadLimit \in Nat \ {0}

VARIABLES
  kind, habit,
  opened,     \* how the call ended, "no" before it does
  conn,       \* the connection: "none", "open", "closed"
  server,     \* messages it has sent, and how it has ended the connection
  reader,     \* the reader, and the message it holds (0 for none)
  rereads,    \* failed reads
  read,       \* messages read
  writer,     \* the writer, and the frame it is about to write
  resizer,
  ticking,    \* a keep-alive tick waits in the ticker
  writeErr,   \* writes fail from now on
  buffered,   \* a write has been accepted after the end
  wire,       \* the caller's messages that were written
  closeSent,  \* the close frame was written
  posted,     \* messages that the caller has handed over
  user,       \* the sending goroutine: "free", "posting", or in closer
  listening,  \* the receiving goroutine still receives
  received,   \* the messages it received
  told,       \* it received an error
  panic       \* what ended the program

peer   == <<kind, habit, opened, server>>
net    == <<conn, writeErr, buffered, wire, closeSent>>
input  == <<reader, rereads, read>>
output == <<writer, resizer, ticking>>
caller == <<posted, user, listening, received, told>>
vars   == <<peer, net, input, output, caller, panic>>

Frames == {"none", "close", "alive", "size"} \cup {"data"}

Init ==
  /\ kind \in Kinds /\ habit \in Habits
  /\ opened = "no" /\ conn = "none"
  /\ server = [sent |-> 0, ending |-> "none"]
  /\ reader = [pc |-> "off", msg |-> 0] /\ rereads = 0 /\ read = 0
  /\ writer = [pc |-> "off", frame |-> "none", msg |-> 0]
  /\ resizer = "off" /\ ticking = FALSE
  /\ writeErr = FALSE /\ buffered = FALSE /\ wire = <<>> /\ closeSent = FALSE
  /\ posted = 0 /\ user = "free" /\ listening = TRUE /\ received = <<>> /\ told = FALSE
  /\ panic = "none"

Panics(why) == panic' = why

-----------------------------------------------------------------------------
(* Opening.  A token is refused before dialling; a failed greeting or      *)
(* first size leaves the connection open; an answer other than OK is       *)
(* reported through an error that is nil.                                  *)
(* Mutant: a token is not refused.                                         *)
LeavesToken(outcome) ==
  CASE outcome = "dial" -> "none" [] outcome \in {"reply", "refused"} -> "closed" [] OTHER -> "open"

Leaves(outcome) ==
  CASE outcome \in {"token", "dial"} -> "none"
    [] outcome \in {"reply", "refused"} -> "closed"
    [] OTHER -> "open"

Open ==
  /\ opened = "no"
  /\ \E o \in Handshakes :
       /\ o \in {"greet", "reply", "refused", "size"} => kind = "term"
       /\ opened' = o
       /\ conn' = Leaves(o)
       /\ panic' = IF o = "refused" THEN "nil error" ELSE panic
       /\ IF o = "ok"
            THEN /\ reader' = [reader EXCEPT !.pc = "check"]
                 /\ writer' = [writer EXCEPT !.pc = "select"]
                 /\ resizer' = IF kind = "term" THEN "select" ELSE "off"
            ELSE UNCHANGED <<reader, writer, resizer>>
  /\ UNCHANGED <<kind, habit, server, writeErr, buffered, wire, closeSent, rereads, read, ticking, caller>>

-----------------------------------------------------------------------------
(* closer, in the sending goroutine: user says what it does next.          *)
CloserSteps == <<"sleep", "send", "recv", "errs", "conn", "returned">>

Closing == user \notin {"free", "posting"}

(* Channel ch has been closed.                                             *)
Closed(ch) ==
  \E i, j \in DOMAIN CloserSteps : CloserSteps[i] = ch /\ CloserSteps[j] = user /\ i < j

(* done is closed from the first step of closer on.                        *)
Done == Closing

(* A second is long enough for whatever can run: who has not ended waits   *)
(* for the server, or for a receiver that is gone.                         *)
Settled ==
  /\ \/ reader.pc = "done"
     \/ reader.pc = "read" /\ read = server.sent /\ server.ending = "none"
     \/ reader.pc \in {"err", "deliver"} /\ ~listening
  /\ writer.pc = "done" \/ (writer.pc \in {"report", "last"} /\ ~listening)
  /\ resizer # "select"

(* Mutant: closer does not sleep.                                          *)
SleptNot == TRUE

Slept == Settled

Close ==
  /\ opened = "ok" /\ user = "free"
  /\ user' = "sleep"
  /\ UNCHANGED <<peer, net, input, output, posted, listening, received, told, panic>>

CloserStep ==
  \E i \in DOMAIN CloserSteps :
    /\ user = CloserSteps[i] /\ user # "returned"
    /\ user = "sleep" => Slept
    /\ user' = CloserSteps[i + 1]
    /\ conn' = IF user = "conn" THEN "closed" ELSE conn
    /\ ticking' = IF user = "conn" THEN FALSE ELSE ticking
    /\ UNCHANGED <<peer, writeErr, buffered, wire, closeSent, input, writer, resizer,
                   posted, listening, received, told, panic>>

-----------------------------------------------------------------------------
(* The channels.  A send meets the receiver, or panics once the channel is *)
(* closed; a receiver with the habit of the tests leaves on its first      *)
(* error.                                                                  *)
ErrsTaken ==
  /\ listening
  /\ told' = TRUE
  /\ listening' = (habit = "drains")

-----------------------------------------------------------------------------
(* The reader.                                                             *)

ReaderCheck ==
  /\ reader.pc = "check"
  /\ reader' = [reader EXCEPT !.pc = IF Done THEN "done" ELSE "read"]
  /\ UNCHANGED <<peer, net, rereads, read, output, caller, panic>>

(* Mutant: the reader reports that its own side closed the connection.     *)
AfterCloseReported == "err"

AfterClose == "done"

(* Mutant: a message that arrives after done was closed is dropped.        *)
AfterMessageDrops == IF Done THEN "done" ELSE "deliver"

AfterMessage == "deliver"

(* IsUnexpectedCloseError holds of a close frame whose code is not one of  *)
(* two; going away, a lost connection and any other error are not one.     *)
AfterEnding(ending) == IF ending = "unexpected" THEN "err" ELSE "done"

(* A close frame is answered by the library, and no write succeeds after.  *)
Read ==
  /\ reader.pc = "read"
  /\ \/ /\ conn = "closed"
        /\ reader' = [reader EXCEPT !.pc = AfterClose]
        /\ UNCHANGED <<rereads, read, writeErr, panic>>
     \/ /\ conn = "open" /\ read < server.sent
        /\ reader' = [pc |-> AfterMessage, msg |-> read + 1]
        /\ read' = read + 1
        /\ UNCHANGED <<rereads, writeErr, panic>>
     \/ /\ conn = "open" /\ read = server.sent /\ server.ending # "none"
        /\ reader' = [pc |-> AfterEnding(server.ending), msg |-> 0]
        /\ rereads' = rereads + 1
        /\ panic' = IF rereads' > RereadLimit THEN "repeated read" ELSE panic
        /\ writeErr' = (writeErr \/ server.ending # "lost")
        /\ UNCHANGED read
  /\ UNCHANGED <<peer, conn, buffered, wire, closeSent, output, caller>>

(* errs <- err, and then recv <- msg with no message.                      *)
ReaderReports ==
  /\ reader.pc = "err"
  /\ \/ /\ Closed("errs") /\ Panics("send on closed channel")
        /\ UNCHANGED <<reader, listening, told>>
     \/ /\ ~Closed("errs") /\ ErrsTaken
        /\ reader' = [reader EXCEPT !.pc = "deliver"]
        /\ UNCHANGED panic
  /\ UNCHANGED <<peer, net, rereads, read, output, posted, user, received>>

ReaderDelivers ==
  /\ reader.pc = "deliver"
  /\ \/ /\ Closed("recv") /\ Panics("send on closed channel")
        /\ UNCHANGED <<reader, received>>
     \/ /\ ~Closed("recv") /\ listening
        /\ received' = IF reader.msg = 0 THEN received ELSE Append(received, reader.msg)
        /\ reader' = [pc |-> "check", msg |-> 0]
        /\ UNCHANGED panic
  /\ UNCHANGED <<peer, net, rereads, read, output, posted, user, listening, told>>

Reader == ReaderCheck \/ Read \/ ReaderReports \/ ReaderDelivers

-----------------------------------------------------------------------------
(* The writer.  select takes any case that is ready.                       *)

Takes(frame, msg) == writer' = [pc |-> "write", frame |-> frame, msg |-> msg]

WriterSelect ==
  /\ writer.pc = "select"
  /\ \/ Done /\ Takes("close", 0) /\ UNCHANGED <<ticking, resizer, posted, user>>
     \/ ticking /\ Takes("alive", 0) /\ ticking' = FALSE /\ UNCHANGED <<resizer, posted, user>>
     \/ resizer = "offer" /\ Takes("size", 0) /\ resizer' = "select"
        /\ UNCHANGED <<ticking, posted, user>>
     \/ user = "posting" /\ Takes("data", posted + 1)
        /\ posted' = posted + 1 /\ user' = "free" /\ UNCHANGED <<ticking, resizer>>
     \/ Closed("send") /\ Takes("data", 0) /\ UNCHANGED <<ticking, resizer, posted, user>>
  /\ UNCHANGED <<peer, net, input, listening, received, told, panic>>

(* After the end one write may still be accepted by the system.            *)
Accepted ==
  CASE writeErr \/ conn = "closed" -> {FALSE}
    [] ~writeErr /\ conn = "open" /\ server.ending = "none" -> {TRUE}
    [] OTHER -> IF buffered THEN {FALSE} ELSE BOOLEAN

(* Mutant: the writer goes on after the close frame.                       *)
AfterWriteGoesOn(ok) == IF ok THEN "select" ELSE IF writer.frame = "close" THEN "last" ELSE "report"

(* Mutant: a keep-alive that fails is not reported.                        *)
AfterWriteSilent(ok) ==
  IF writer.frame = "close" THEN (IF ok THEN "done" ELSE "last")
  ELSE IF ok \/ writer.frame = "alive" THEN "select" ELSE "report"

AfterWrite(ok) ==
  IF writer.frame = "close" THEN (IF ok THEN "done" ELSE "last")
                            ELSE (IF ok THEN "select" ELSE "report")

WriterWrites ==
  /\ writer.pc = "write"
  /\ \E ok \in Accepted :
       /\ writer' = [writer EXCEPT !.pc = AfterWrite(ok)]
       /\ wire' = IF ok /\ writer.frame = "data" THEN Append(wire, writer.msg) ELSE wire
       /\ closeSent' = (closeSent \/ (ok /\ writer.frame = "close"))
       /\ writeErr' = (writeErr \/ ~ok \/ writer.frame = "close")
       /\ buffered' = (buffered \/ (ok /\ server.ending # "none"))
  /\ UNCHANGED <<peer, conn, input, resizer, ticking, caller, panic>>

(* Mutant: the writer ends on its first error.                             *)
AfterReportEnds == "done"

AfterReport == IF writer.pc = "last" THEN "done" ELSE "select"

WriterReports ==
  /\ writer.pc \in {"report", "last"}
  /\ \/ /\ Closed("errs") /\ Panics("send on closed channel")
        /\ UNCHANGED <<writer, listening, told>>
     \/ /\ ~Closed("errs") /\ ErrsTaken
        /\ writer' = [writer EXCEPT !.pc = AfterReport]
        /\ UNCHANGED panic
  /\ UNCHANGED <<peer, net, input, resizer, ticking, posted, user, received>>

Writer == WriterSelect \/ WriterWrites \/ WriterReports

-----------------------------------------------------------------------------
(* The resizer: resize <- resized does not look at done.                   *)
WindowChanges ==
  /\ resizer = "select"
  /\ resizer' = "offer"
  /\ UNCHANGED <<peer, net, input, writer, ticking, caller, panic>>

ResizerEnds ==
  /\ resizer = "select" /\ Done
  /\ resizer' = "done"
  /\ UNCHANGED <<peer, net, input, writer, ticking, caller, panic>>

(* The keep-alive ticker of a terminal holds at most one tick.             *)
Tick ==
  /\ opened = "ok" /\ kind = "term" /\ user # "returned" /\ ~ticking
  /\ ticking' = TRUE
  /\ UNCHANGED <<peer, net, input, writer, resizer, caller, panic>>

-----------------------------------------------------------------------------
(* The caller and the server.                                              *)
Post ==
  /\ opened = "ok" /\ user = "free" /\ posted < MaxPosts
  /\ user' = "posting"
  /\ UNCHANGED <<peer, net, input, output, posted, listening, received, told, panic>>

ServerMay ==
  /\ conn = "open" /\ opened = "ok" /\ server.ending = "none"
  /\ Quiet => user \in {"free", "posting", "sleep"}

ServerSends ==
  /\ ServerMay /\ server.sent < MaxMessages
  /\ server' = [server EXCEPT !.sent = @ + 1]
  /\ UNCHANGED <<kind, habit, opened, net, input, output, caller, panic>>

(* The answer to a close frame without a code has no code either, which    *)
(* is not one of the two expected ones.                                    *)
ServerEnds ==
  /\ ServerMay
  /\ \E e \in Endings \cup (IF closeSent THEN {"unexpected"} ELSE {}) :
       server' = [server EXCEPT !.ending = e]
  /\ UNCHANGED <<kind, habit, opened, net, input, output, caller, panic>>

Next ==
  /\ panic = "none"
  /\ \/ Open \/ Close \/ CloserStep \/ Post
     \/ Reader \/ Writer \/ ResizerEnds
     \/ WindowChanges \/ Tick \/ ServerSends \/ ServerEnds

Spec == Init /\ [][Next]_vars

Alive(A) == panic = "none" /\ A

(* Every goroutine of the library runs, and so do closer once called and   *)
(* the ticker.  Nothing says that the server speaks or the caller closes.  *)
(* A select whose cases stay ready takes each of them in the end.          *)
FairSpec ==
  /\ Spec
  /\ WF_vars(Alive(Reader)) /\ WF_vars(Alive(Writer)) /\ WF_vars(Alive(ResizerEnds))
  /\ WF_vars(Alive(CloserStep)) /\ WF_vars(Alive(Tick))
  /\ SF_vars(Alive(WriterSelect /\ user = "posting" /\ user' = "free"))
  /\ SF_vars(Alive(WriterSelect /\ Done /\ writer'.frame = "close"))
  /\ SF_vars(Alive(WriterSelect /\ ticking /\ ~ticking'))

-----------------------------------------------------------------------------
(* Properties.                                                             *)

TypeOK ==
  /\ kind \in Kinds /\ habit \in Habits
  /\ opened \in Handshakes \cup {"no"} /\ conn \in {"none", "open", "closed"}
  /\ conn = "none" <=> opened \in {"no", "token", "dial"}
  /\ server \in [sent : 0..MaxMessages, ending : {"none", "going_away", "unexpected", "lost"}]
  /\ reader \in [pc : {"off", "check", "read", "err", "deliver", "done"}, msg : 0..MaxMessages]
  /\ rereads \in 0..(RereadLimit + 1) /\ read \in 0..server.sent
  /\ writer \in [pc : {"off", "select", "write", "report", "last", "done"}, frame : Frames,
                 msg : 0..MaxPosts]
  /\ resizer \in {"off", "select", "offer", "done"}
  /\ ticking \in BOOLEAN /\ writeErr \in BOOLEAN /\ buffered \in BOOLEAN
  /\ closeSent \in BOOLEAN /\ listening \in BOOLEAN /\ told \in BOOLEAN
  /\ wire \in Seq(0..MaxPosts) /\ posted \in 0..MaxPosts
  /\ user \in {"free", "posting", "sleep", "send", "recv", "errs", "conn", "returned"}
  /\ received \in Seq(1..MaxMessages)
  /\ panic \in {"none", "nil error", "send on closed channel", "repeated read"}

(* A session that was opened never ends the program, also when it is       *)
(* closed: nobody sends on a channel that closer has closed, and nobody    *)
(* goes on reading a connection that has failed until the library panics.  *)
(* It holds of sessions that are Drained, below.  A server that ends one   *)
(* with any other close frame, a normal closure included, breaks it: the   *)
(* reader reports that close and reads on (proxmox.go:698-703).            *)
ClosingIsSafe == panic \notin {"send on closed channel", "repeated read"}

(* The caller's messages go out in the order they were handed over, none   *)
(* twice, none invented, and before the close frame; one is missing only   *)
(* when it is the one in hand or when writing has failed, and then the     *)
(* receiver has been told or is being told.                                *)
SentInOrder ==
  /\ \A i \in DOMAIN wire : wire[i] = i
  /\ Len(wire) < posted =>
       \/ writer.pc = "write" /\ writer.frame = "data" /\ writer.msg = posted
          /\ Len(wire) = posted - 1
       \/ writeErr /\ (told \/ writer.pc \in {"report", "last"})
  /\ closeSent => writer.pc = "done"

(* Every message read is received, in order, also one that arrives while   *)
(* the session closes.                                                     *)
ReadIsReceived ==
  LET held == IF reader.pc = "deliver" /\ reader.msg # 0 THEN 1 ELSE 0
  IN  received = [i \in 1..(read - held) |-> i]

(* A message that the caller is sending is taken, whatever has become of   *)
(* the connection.                                                         *)
PostIsTaken == user = "posting" ~> user # "posting"

(* After closer was called it returns and the reader and the writer end.   *)
(* The resizer ends too, unless the window changed as the session closed.  *)
ClosedEnds ==
  Closing ~> /\ user = "returned"
             /\ reader.pc = "done" /\ writer.pc = "done"
             /\ resizer \in {"off", "done", "offer"}

(* The receiver of a terminal learns that the connection has ended though  *)
(* the reader ends without a word: the next keep-alive fails.              *)
EndIsReported ==
  kind = "term" /\ server.ending # "none" ~> told \/ Closing
-----------------------------------------------------------------------------
(* The inductive invariants of WebSocketProofs.                            *)

AfterSleep == user \in {"send", "recv", "errs", "conn", "returned"}

(* The caller uses what was opened, within the bounds; nobody runs before. *)
CallInv ==
  /\ opened = "no" => reader.pc = "off" /\ writer.pc = "off"
  /\ user # "free" => opened = "ok"
  /\ user = "posting" => posted < MaxPosts
  /\ panic = "none" => rereads <= RereadLimit

(* The writer writes the message that was handed over last, reports only   *)
(* failures, and is out of the way when closer closes the channels.        *)
WriterInv ==
  /\ writer.pc \in {"report", "last"} => writeErr
  /\ writer.pc = "write" /\ writer.frame = "data" => writer.msg = posted /\ Len(wire) < posted
  /\ Len(wire) <= posted
  /\ AfterSleep => writer.pc = "done" \/ (writer.pc \in {"report", "last"} /\ ~listening)

(* The reader holds the message that it read last, until it delivers it.   *)
ReaderInv == reader.msg # 0 => reader.pc = "deliver" /\ reader.msg = read

IndInv == TypeOK /\ CallInv /\ WriterInv /\ ReaderInv /\ SentInOrder /\ ReadIsReceived

(* The receiver drains both channels; the server is silent once closer has *)
(* slept; and it closes a session that the caller has not closed by going  *)
(* away, or the connection is lost: a close frame of another code comes    *)
(* only in answer to closer's.                                             *)
Drained == Habits = {"drains"} /\ Quiet /\ "unexpected" \notin Endings

(* A read then fails once, after which the reader finds done closed, and   *)
(* when closer closes the channels the reader too is out of the way.       *)
SafeInv ==
  /\ listening
  /\ writer.frame = "close" => Closing
  /\ closeSent => Closing
  /\ server.ending = "unexpected" => closeSent
  /\ \/ rereads = 0
     \/ rereads = 1 /\ (reader.pc = "done" \/ (reader.pc \in {"err", "deliver", "check"} /\ Closing))
  /\ AfterSleep =>
       reader.pc = "done" \/ (reader.pc = "read" /\ read = server.sent /\ server.ending = "none")
  /\ ClosingIsSafe
=============================================================================
