# go-proxmox in TLA+

Formal models of [go-proxmox](../src/README.md), a Go client library for the
Proxmox VE API: what is modelled, what TLC checks, what TLAPS proves, and what
is left. File and line references are to the repository's source.

## 1. Inventory

The library is one `Client` over an `http.Client`, and a large set of typed
handles (`Node`, `VirtualMachine`, `Container`, `Storage`, `Task`, ...) whose
methods each send one or a few requests through it. There is no server here
and nothing is persisted. What is hard is in a few places where the library
keeps state across requests or goroutines.

| Component | State | Operations | Interacts with | What must be right |
|---|---|---|---|---|
| Session and authentication (`access.go`, `proxmox.go`) | `session`, `sessionExpiresAt`, `otp`, `token`, `sessionMux` | `CreateSession`, `RefreshTicket`, `Login`, `Ticket`, `Session`, `APIToken`; the 401 branch of `Req`; `authHeaders` | every request reads the session; a 401 calls `CreateSession`, which posts through `Req` again | one session, replaced whole; a one-time code is sent once; no deadlock, no endless resend; a refused first request is retried |
| Retry transport (`retry.go`) | attempt, body, response, context, per request | `RoundTrip`, `snapshotBody`, `computeBackoff`, `contextSleep`; the policy options | wraps the transport below every request | bounded attempts; nothing repeated that may not be; whole bodies; no leaked response; bounded delays; cancellation |
| Tasks (`tasks.go`, `types.go`) | the `*Task` handle, its flags; the watch's position in the log | `Ping`, `Wait`, `WaitFor`, `WaitForCompleteStatus`, `Watch`, `Log`, `Stop` | polls through the Client; Watch runs a goroutine on the caller's handle | flags tell the task's end; a wait ends; each log line arrives once; the channel is closed |
| Request core (`proxmox.go`) | none | `Req`, the verbs, `UploadReader`, `handleResponse` | session, transport, decoders | every failure is an error |
| Options (`options.go`) | a `Client` under construction; http.Clients, transports and pools that clients share | `NewClient`, `With...`, `finalizeOptions` | builds the transport, may open a session | a client gets what it asked for and nothing another did; no change to package globals |
| WebSockets (`proxmox.go:583`) | four channels, three goroutines, a connection | `TermWebSocket`, `VNCWebSocket`, closer | reader, writer, resizer and application share the channels | one writer on the connection; goroutines end; no send on a closed channel |
| Virtual machines, containers | cached configuration and tags | lifecycle, tags, `CloudInit`, `Delete`, `UnmountCloudInitISO`, `Clone`, agent polls | several requests and task waits in a row | a guest is not deleted while its ISO may be there; a success is one; one guest per clone; polls end |
| Nodes, storage, cluster, SDN, Ceph, firewall, access control, pools, notifications | handles with a client and names | one request per method; getters and lists that make handles | the Client | each request is about the handle's own object; every handle reaches the server; empty names do no harm |
| Types and decoders (`types.go`, `shape.go`) | none | `UnmarshalJSON`, numbers that may be strings | every response | no panic on an unexpected shape |

Hard behaviours: goroutines that share a Client, a handle or a channel;
requests that fail, are refused or lose their reply; sessions that expire or
are revoked; timeouts and contexts racing answers; operations of several
requests that stop half way. `PROJECT.json` lists each under `hazards`, at the
line where it bites.

## 2. Modules

| Module | Models |
|---|---|
| `TicketCell` | abstract: the session as a cell that is always replaced by the newest ticket |
| `Session` | the session of a `Client` shared by goroutines; refines `TicketCell` |
| `SessionInvariant`, `SessionProofs` | its inductive invariant; the theorems |
| `MCSession` | instances for TLC |
| `RoundTrip` | abstract: what WithRetry promises of one request |
| `RetryTransport` | `retryRoundTripper.RoundTrip`; refines `RoundTrip`; ends with its inductive invariant |
| `RetryProofs`, `MCRetry` | the theorems; instances for TLC |
| `Task` | `Ping`, `Wait`, `WaitForCompleteStatus` and `Watch` over a task of the server |
| `TaskProofs`, `MCTask` | the theorems; instances for TLC |
| `WebSocket` | a terminal or VNC session: opening, reader, writer, resizer, keep-alive, closer and the caller |
| `WebSocketProofs`, `MCWebSocket` | the theorems; instances for TLC |
| `Options` | `NewClient`, the options and `finalizeOptions` over shared http.Clients |
| `OptionsProofs`, `MCOptions` | the theorems, with the inductive invariant; an instance for TLC |
| `ApiTable` | the vocabulary of the request tables |
| `ApiAccess`, `ApiCluster`, `ApiNode`, `ApiGuest` | the tables: one row for each method that sends a request or makes a handle |
| `Api`, `MCApi` | a program that calls the methods of the tables on the handles it comes by; an instance |
| `ApiProofs` | the theorems, with the inductive invariant and what they need of each row |
| `ApiNamesProofs` | the theorem about requests without a name, with what it needs of each row |
| `Guest` | the operations of a guest that take several requests, and the polling of its agent |
| `GuestProofs`, `MCGuest` | the theorems; instances for TLC |

### Session

A caller is a goroutine with a place `pc` in one call at a time. Places are the
points between which another goroutine can interleave: before and between the
two unlocked reads of `authHeaders` (`headers`, `csrf`), the request on the
wire (`sent`), `sessionMux.Lock()` (`lock`), and the steps of CreateSession and
refreshTicketLocked (`check`, `renew`, `creds`, `clear`, `post`, `reply`,
`decode`, `posted`). CreateSession and RefreshTicket are not separate threads
but the same places with another `op`, because `Req` runs CreateSession in the
caller's goroutine. `json.Unmarshal` into `&c.session` is a step that allocates
the struct and one step per field. Go gives a racing read of a string no
meaning, so a reader of a field that is still to be written may see a torn
string: 0, a ticket the server does not know.

Tickets are serial numbers; the server (`issued`, `dead`, `otpUsed`) accepts a
live ticket, or a correct password with an unused one-time code. `fresh` is
`time.Now().Before(sessionExpiresAt)`; `HourPasses` makes it false.

### RetryTransport

One RoundTrip, from its context check to its return. The loop's turn is
`attempt`, `inflight`, `judge`, `sleep`. A time.Duration wraps around at
`Half`, in units of which `Second` make a second: seconds times time.Second
overflows in the model as in Go. A header is its form and value. `Cancel` may
come at any moment; the select of contextSleep may take either side.

### Task

A worker runs one of the three calls over a handle, as its job says: which call,
over which handle, and what may go wrong. A `*Task` has no lock, so each access of
it by a ping is a step (`Set`, `Check`) that another's may come between: read the
client and send; copy the reply over the handle, the client first (which clears
it), then status, exit status and the four flags, in the order of copier.Copy;
put the client back (`PingRestore`); derive the flags (`PingDerive`). The order is
that of the library's version in `go.mod`; copier also writes the exported fields
it has still to copy while it clears the client, which is left out, and a string is
read whole. The debug lines between the steps dereference the client too
(`Remark`). Two workers may share a handle. The server's task logs lines and stops at
any moment, and `Stop` is one of the reasons it does. A page of log lines is a set,
because the code iterates over a map. The reader of the channel may leave.

What can be said of a handle depends on who pings it. `FlagsTellTheEnd` is of all
handles, but that failed means a failure holds only of one that a single
goroutine pings: two pings of one handle can judge a status that is copied beside an
exit status that is not yet. `FlagsFollowStatus`, `OwnClientKept` and `Wait`'s half
of `VerdictsHold` are of unshared handles altogether.

### WebSocket

The reader, the writer and the resizer are the goroutines that TermWebSocket
leaves running (VNCWebSocket has no resizer and no keep-alive). `user` is the
caller's sending goroutine and, once it has called closer, the place in closer
(`sleep`, then the channel or connection to close next); the receiving one is
`listening`, with the habit to drain both channels or to leave on its first
error. An unbuffered send and its receive are one step; a send on a channel
that was closed is a `panic`, after which nothing happens. The sleep of closer
ends when whoever can run has run (`Settled`): the scheduler gives every
goroutine its turn within a second. The connection is gorilla's: an error when
writing is final, a close frame that is read is answered and ends writing, and
reading after an error panics after `RereadLimit` attempts. `Endings` says how the
server may end a session that the caller has not closed: by going away, by losing
the connection, or unexpectedly, which is any close frame with another code, a
normal closure included. After the end one write may still be accepted. A write that neither fails nor ends (a stalled
peer) is left out.

### Options

The program builds clients one after another; an action `WithX` evaluates one
option, and `FinalizeOptions` is the whole of finalizeOptions in its order: TLS,
timeout, proxy, retry. The heap has http.Clients, transports and certificate
pools: the program's, Go's defaults, and the fresh ones, named after the client
they were made for. `EnsureOwnHTTPClient`, `EnsureTransport` and
`InstallRetryWrapper` are the functions of those names. Cloning a transport
copies its settings and shares its pool, as http.Transport.Clone does. An
http.Client that is wrapped lists its wrappers in `retries`. The program may
hand out a transport or a pool twice, give http.DefaultTransport a pool, or
replace it. `BuiltAsAsked` is about clients that share nothing with one built
before or after them; what clients that do share get is in section 5. It states what
a client trusts as the code has it, in the order of its options: the last pool
given with the files given after it, or else its files, in an empty pool if none
holds a certificate. `OthersLeftAlone` names the one object of Go's that building a client
may change, the pool of http.DefaultTransport, and what happens to it. Where the
comments of the code promise more, section 5 says so. That eager authentication
comes last is `Session`'s matter.

### Api and its tables

Some 730 methods send one request and turn the reply into data, a task or
handles. Each is a row: the kind of handle, the verb and path (a `.field` of
the handle, an `<argument>`, or a literal), the names it insists on before
sending, and what it makes of the reply: which handles, which of their fields
the code fills in and from where, whether they get the client, and what
becomes of null data. A method that creates an object may make a handle of the
caller's argument (`Created`): `NewFirewallRule` of nodes, virtual machines and
containers, and `Node.NewNetwork`, which has a second row for the task of its
reload. `Api` gives the rows their meaning: a program holds a
handle, calls any method with any arguments, and may go on with a handle
it got. `meant` records which object the handle was asked for; what is sent
must name it. The handle of a new rule keeps the position that the caller left in
it, wherever the server has put the rule, so that what it sends may differ from
`meant` there (`KeepThePosition`), and nowhere else.

Of the server the tables assume: it drops empty path elements; a list names
its items by the last name of their path (tasks, fabric nodes, route-map
entries and subnets by all names); the reply for a single object names it only
for VNets, guests, backups and cluster storages; and the reply for a node's
service has its name in both of its fields. Methods of two requests
(`Node.VirtualMachine`, `VirtualMachine.Ping`, `NodeNetwork.Delete`) are one step.
The properties name the methods that break them, so that a new one would show:
handles without a client come from `Node.VzTmpls`, `Node.VzTmpl` and
`Cluster.SDNSubnets`; nil ones from `Node.Network`, `Cluster.SDNVNet` and
`Node.FirewallGetRule`, and from a method whose task has an empty UPID; null
data panics `Client.Domain`, `Group`, `User` and `ClusterStorage`,
`Node.VirtualMachine` and `Container`, and `VirtualMachine.Ping`; an empty
entry name makes an IP set's request one for the whole set; and starting, stopping
or restarting the service `ceph` through a handle with no node name is read as the
same of Ceph on a node named `services` (`CephOfServices`).

### Guest

A program makes one call at a time on one handle, which it may fetch again or
take from a list. Each request is a step that may fail before or after the
server has acted, or be answered with null; a task it starts ends well, fails
or drags on, and an administrator enables and disables storages in between.
`CloudInit` and `AddTag` panic on a handle without a config, and a null reply to
`Upload`, `ISO.Delete` or `Config` gives a nil task whose `WaitFor` panics; the
model does so too. `Delete` reads a null list of storages as an empty one and
goes on. Only the tag `cloud-init` is modelled. `Clone` and `Node.NewContainer`
ask for an ID first; other programs take IDs. WaitForAgent's timer and its
polls race in a select.

## 3. Runs

| Run | Instance | Shows |
|---|---|---|
| `session_safety` | two callers, one call each of the seven calls that lock, four configurations, an hour, revocations | `OtpPostedOnce`, `SessionWhole`, `ResendBound`, `OtpSessionRenewed` and the refinement of `TicketCell` |
| `session_liveness` | two callers, one call each, `Ticket` and `APIToken` too, three configurations | every call returns: in particular a 401 of `POST /access/ticket` does not deadlock on sessionMux |
| `session_first_request` | two first requests | *violation*: one is refused although the other has just made a session |
| `retry` | five kinds of request, seven policies, eleven headers, at most four attempts | body, leaks, delays, cancellation, and the refinement of `RoundTrip` |
| `task` | one worker with each call, four log lines in pages of two, failures and empty replies; Wait and WaitForCompleteStatus at once, over one handle and over two | the flags, the verdicts, the clients, the log's lines, and that waits and watches end |
| `task_shared` | Wait and Watch on one handle | *violation*: one dereferences a client the other has cleared |
| `websocket` | a terminal and a VNC session, two messages each way, a receiver that drains | with such a server as **Fairness** describes, closing is safe, messages arrive once and in order, the goroutines end, a terminal learns of the end |
| `websocket_test_usage` | the receiver of the integration tests | *violation*: closing panics the reader |
| `options` | two clients, three options between them, two http.Clients, a transport, a pool, a file with and one without certificates | a client gets what it asked for, whatever is built around it, and trusts what the order of its options has it trust; of the rest only the pool of http.DefaultTransport is touched |
| `api` | every method, two names that are words of the API's paths, and the empty one | requests are about their handle's object, nothing panics, empty names do no harm, but for the methods named |
| `guest` | two storages for ISOs and one that takes none, two IDs; two programs | what `Delete`, `CloudInit` and `Clone` promise; every call returns |
| `guest_listed` | CloudInit and Delete | *violation*: Delete on a handle from a list leaves the ISO |

A merged property (`VerdictsHold`, `InitialisedMeansDone`, `NothingPanics`) is
the conjunction of two that are stated before it.

Deadlock checking is off: clients that are built, callers that have made their calls, a round trip that
has returned and calls that are done rightly stop.

**Bounds.** Two callers are enough for the races of a session, which is one
cell under one mutex: what a third does a second can do in turn, and a caller
between its steps is itself an interleaving of server and environment. One call
each still reaches renewals, since a configuration may begin with a session and
an hour may pass inside a call; `MaxHours = 1` is where a resend can happen once
more than twice. Retry's four attempts pass the point where the window meets
the cap; ten bits of Duration overflow as sixty-four do. Four log lines in
pages of two make three pages, one of them partial; three empty log replies
happen before the first line. Two messages each way are enough for an order and for
one message in flight while the session closes. `MaxCalls`, `MaxHours`, `MaxLines`,
`MaxMessages` and `MaxPosts` bound only the
environment, never what the code does in answer. Two names are enough for
`Api`: a request is about the wrong object when one name stands where the
other should, and every path and handle has at most a few names. They are words of
the paths themselves, `services` and `ceph`, so that a name can be taken for one. Two storages for
ISOs give Delete one that it has passed and one to come; two IDs let another
program take the first. The programs of `guest` are two sets of operations, ISOs
with tags and the rest, which share no state. Two clients and three options
are where sharing begins to matter; the order of three TLS options shows every
overwriting of one by another.

**Fairness.** `Session!FairSpec` and `Task!FairSpec` assume weak fairness of
each goroutine's steps: the Go scheduler runs it, and each request is answered
or fails. The second half needs a timeout, a context or a connection that
breaks: http.DefaultClient has no timeout (`options.go:75-77`), and without one
a silent server holds sessionMux and every goroutine behind it. `Task` assumes
that timers fire. Nothing is assumed of calls, time, revocations, of a task's
end or of readers: `EveryWaitReturns` holds of tasks that never stop.
`WebSocket!FairSpec` adds strong fairness of three cases of the writer's
select, because select chooses at random among the cases that are ready; that
the server speaks or the caller closes is not assumed. Its passing run assumes
of the environment that the receiver drains, that the server ends a session
the caller has not closed only by going away or by losing the connection (any other
close sends the reader back to a failed connection, `proxmox.go:698`), and that
it is silent once closer has slept; each is needed, and the hazards say where.
`Guest` assumes
weak fairness of the program's steps and strong fairness of the timeouts,
which compete in a select with ticks that are ready again and again.
`WatchCloses` excepts a reader that has left and polls answered with no data,
which the code does go on repeating.

## 4. Proofs

`SessionProofs`, `RetryProofs`, `TaskProofs`, `WebSocketProofs`, `GuestProofs`,
`OptionsProofs`, `ApiProofs` and `ApiNamesProofs` are checked by TLAPS for every
value of the constants; of these they assume only what the ASSUMEs say.

*Session.* `TypeOK` is inductive by itself. The safety properties are not:
that the session is whole while the mutex is free depends on what the holder of
the mutex is doing. `IndInv` says who holds it (`Mutual`), how far the session
is written at each place of the holder (`SessionInv`, `Decoding`), that no
ticket means nothing fresh (`FreshInv`), that a code taken from `c.otp` is not
cleared yet (`OtpInv`), and that a caller past CreateSession's check still finds
the session stale, which pays for its resend (`ResendInv`). `RenewInv` is about
the one-time code while nothing fails: once it is spent there is, or is being
written, a session that knows its user (`Renewable`), so that CreateSession
comes to the credentials only with the code in hand and what it posts is
accepted (`Prepared`). From it follow `OtpOnce`, `OtpSessionKept`,
`WholeWhenFree`, `ResendsBounded` and `Refinement`. These five assume
that the exported `Ticket` is not among the calls: it writes the session without
the lock, and with it they are false.

*Retry.* `IndInv` adds to the properties that the loop goes on only below the
maximum, with the last response drained (`LoopInv`), and that an attempt begun
with the context done ends it (`ContextInv`). It gives `TypeCorrect`,
`BodiesIntact`, `NothingLeaks`, `DelaysCapped`, `CancelEnds` and `Refinement`,
with no further assumption.

*Task.* `IndInv` is the type invariant, `TaskInv` (a reply or a handle may be
old but is never wrong about the task's end, field by field, since a task that has
stopped stays so; it holds of shared handles too) and `OwnInv`: a worker whose
handle no other pings finds in it, at each step of its ping, the client, the
reply and the flags that it left there (`OwnClient`, `OwnReply`, `OwnFlags`), and
its call has returned what they say (`OwnWait`, `OwnPoll`). `FlagsAreTrue`,
`FlagsAreWhole`, `ClientsStay` and `VerdictsAreTrue` follow with no assumption; the
conditions on sharing are in the properties themselves. With `FromTheStart`,
watches from the first line, `WatchInv` says that what a watch has received and
what it is about to send are the first lines of the log, each once;
`LinesArriveOnce` follows. From another start it is false.

*WebSocket.* `SentInOrder` and `ReadIsReceived` need to know where the writer and
the reader are: the writer writes the message handed over last, reports only
failures, and is out of the way once closer has slept (`WriterInv`); the reader
holds the message it read last (`ReaderInv`). That needs nothing of the server
or the receiver, and gives `TypeCorrect`, `OutputInOrder` and `InputInOrder`.
`SafeWhenDrained` assumes `Drained`, the three things that the passing run assumes of
the receiver and the server; `SafeInv`
adds that a read fails once, after which the reader finds done closed, and that
the reader too is out of the way when closer closes the channels.

*Guest.* `IndInv` is the type invariant with what the type of a call needs (the
storage at hand is one of those being looked at), and one part for each
property: `ScanInv` (storages that Delete has passed hold no ISO, or had a
task running on them when it began), `TagInv` and `UploadInv` (where CloudInit
is, the guest is tagged and the ISO there, unless the cache was wrong or a task
failed) and `CloneInv` (guests made have the ID kept in the options). It gives
`NothingIsLeftBehind`, `InitialisedIsDone` and `OneGuest`.

*Options.* Only NewClient and FinalizeOptions matter to the heap, and the proof
has two parts. The first says what `FinalizeOptions` does (`Finalized`), stage by
stage: `Staged` relates the heap between two stages to the heap before them by
what has been asked for so far, and there is a lemma for each stage. For the list
of TLS changes that takes an induction over its length. The library's induction
theorems take an operator, which no prover here can instantiate; `Least` gets the
least element of a set of numbers from the well-founded strict subset ordering of
the finite sets instead, `UpTo` is induction over a set, and `AfterRuns` uses it
to show that the recursive function in `Modified` has its defining equation. `TLSOf`
then says what any list of changes amounts to.

The second part is `IndInv`. Clients are built one at a time (`BuildInv`); what a
client has made is found only behind its own http.Client (`MadeInv`); the
program's objects are as it made them until a client uses them (`Untouched`); and
a client that shares neither http.Client nor transport finds its settings there
(`HTTPInv`, `BareInv`, `ConfigInv`). For the pools, which clones and options pass
around, `RootsInv` says by whose option a transport came to point to a pool, and
`PoolInv` by whose option a file's certificate came into one. `Sole` is weaker
than `Alone` of the property: pools may be shared, so that a client built
next cannot make it true of one that it was false of. It gives `InvariantHolds`,
`TypeCorrect`, `BuiltAsAskedHolds` and `OthersAreLeftAlone`.

*Api.* `HandInv` says that a handle which has its client, or is nil, has in its
own fields the names of the object it was asked for (`meant`), and that a handle
without its client is of one of three kinds, from which no method makes another
(`Loose`), and is of the listed methods if its own methods send. That is
preserved if the row of the method is sound (`RowOK`): each field of the new
handle is either filled in with the very element of the request's path that
stands in its place in the handle's own path, all before it agreeing (`Fills`),
or named by a reply the method cannot do without (`SureNames`); only a rule that
was just created has a field that is neither, its position
(`FilledButForPosition`). `KnowsItsObject` and `KnowsAllButThePosition`
are the argument; a lemma for each of the 93 tables shows its rows sound, those
that make handles one by one. A row added to a table in the wrong way has no
proof. It gives `InvariantHolds`, `TypeCorrect`, `NothingPanicsHolds` and
`RequestsNameTheirObjectHolds`, for any names.

*Missing names.* `NamelessChangesNothingElse` sets each changing request against
every other of its verb, some 300 of them, for any names, words of the paths
included. The proof avoids the pairs. `Legible` says, in a dozen clauses about the
length and a few words of a path, what is true of the path of every changing
request (no names in second place below `cluster`, only rules and aliases
below a guest's firewall are put, and so on). `Told` says of one row that what is left of
its path when elements are missing is read as no legible path at all: either a
word then stands where all legible paths of that length have another (`Clash`), or nothing can be
missing (`Sealed`). Both are shown row by row (`RowTold`), in a lemma for each table.

Which elements can be missing is the other half (`Shut`, `ThereWhenSent`): not words
and numbers, not what the method insists on, and not a field which the handle is
sure to have. `NamesInv` is the inductive invariant for the last: a server
that understood a request was sent no empty name, so handles from replies have all
their names; only a handle made without a request may lack one, and only one of
those in `MayLack`, since each method that makes such a handle fills it from its own
arguments and from fields which are themselves there (`FillsIn`). It
gives `NamesInvHolds` and `NamelessChangesNothingElseHolds`.

Only model-checked: all liveness, as fairness is out of the prover's reach. What
the recursive `Window` computes is used in the proofs only through its bound by the
cap. Every invariant and every safety property that a passing run checks is also
proved.

## 5. Findings

1. `proxmox.go:307`: of two simultaneous first requests one fails with
   ErrNotAuthorized (`session_first_request`).
2. `tasks.go:44`: a `*Task` cannot be waited for and watched at once, as the
   integration test does (`task_shared`).
3. `proxmox.go:680`: closing a session panics when its receiver has left on an
   error, as the integration tests' receivers do (`websocket_test_usage`).
4. `virtual_machine.go:114`: Delete on a handle from `Node.VirtualMachines`
   leaves the cloud-init ISO (`guest_listed`).

Other disagreements met while modelling, which the models have and no run shows
as a violation; where a property states what happens instead, it is named:

- `retry.go:290`: a Retry-After of centuries overflows and is taken as no delay.
- `retry.go:250`: Retry-After counts on 502 and 504 too, against the comments.
- `retry.go:163`: WithRetry replaces the transport of the program's http.Client. A
  second client over it multiplies the attempts if it retries too, and loses its
  TLS options and its proxy, which `options.go:185` says compose.
- `options.go:104`: WithRootCAs after WithRootCAFile loses the file, though
  `options.go:88`, `options.go:100` and `proxmox.go:204` say that the options compose
  and that their order does not matter (`BuiltAsAsked` states what happens).
- `options.go:127`: WithRootCAFile with a file that has no certificate leaves an
  empty pool, so that no server is trusted; `options.go:114` says it is a no-op
  (`BuiltAsAsked`).
- `options.go:267`: when http.DefaultTransport has a pool, its clone shares it and
  WithRootCAFile adds to it, though `options.go:240` and `proxmox.go:207` say that
  the globals are not mutated (`OthersLeftAlone`).
- `proxmox.go:698`: a server that closes a session with any code but going away, a
  normal closure included, makes the reader read the failed connection again, after
  an error and an empty message each time, until closer is called or the library panics.
- `types.go:1604`, `tasks.go:52`: two pings of one `*Task` can leave IsFailed on a task
  that succeeded, and other mixtures (`FlagsTellTheEnd`, `FlagsFollowStatus`).
- `nodes.go:337`, `virtual_machine.go:900`, `containers.go:370`: the handle of a new
  firewall rule has the caller's position, not the rule's, so that its Update and
  Delete may be about another rule; the comments say that they route correctly.

## 6. Not modelled

- Formatting, logging, request bodies and the text of errors; the realm merged
  into a user name; handleResponse's table of statuses.
- The decoders of `types.go`, but for a task's and a log's: data that no other
  property is about. UploadReader's multipart body and its hash.
- The user agent, the logger and the request interceptors of the options, and
  which TLS settings a WebSocket dials with.
- A crash on a torn string header: the race is modelled by the value it yields.
- A ticket reply of `{"data":null}`. The result is decoded through a pointer to the
  pointer `c.session`, so the session becomes nil, and CreateSession and RefreshTicket
  still return no error and set an expiry: requests go out without a session, and the
  next 401 logs in anew. A server that answers so each time, and refuses what is sent
  without a session, keeps Req calling itself (`proxmox.go:312`): `ResendBound` is of
  servers that answer a login with a ticket or an error.
- `VirtualMachine.New`, which makes a handle of any node and number with no request.
- A GetBody that fails for a replay, after which an empty body is sent
  (`retry.go:332`): requests of this library always have bodies in memory.
- Methods that send the whole cached handle (`Update`), and the position of a
  firewall rule that other changes have moved.
- RemoveTag panics when a tag is there twice: only one tag is modelled.
- Developer tooling, examples, and tests.

## 7. Plan

In order; each with a run and mutants, then proofs where they are named.

1. `ClientStack`: `Session` over `RetryTransport`. The retry of
   `POST /access/ticket` sends a one-time code again.
2. `Decoders`: the number-or-string and number-or-bool decoders as pure
   operators against a reference definition.
3. The refinement of a watch by a reader of a prefix of the log.
