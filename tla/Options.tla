------------------------------- MODULE Options -------------------------------
(* NewClient and its options (options.go, proxmox.go:181-249, retry.go:154). *)
(* A program builds one client after another. What it hands to the options   *)
(* may be shared: http.Clients, transports and certificate pools are objects *)
(* of a heap, which finalizeOptions reads, writes and points at. A fresh     *)
(* object has the name of the client that it was made for; a setting, the    *)
(* name of the client that asked for it.                                     *)
EXTENDS Naturals, Sequences, FiniteSets, SequencesExt

CONSTANTS
  Clients,         \* the clients that the program builds
  HTTPClients,     \* the http.Clients of the program
  OwnTransports,   \* its *http.Transports
  OwnPools,        \* its certificate pools, each with a certificate of its own
  Files,           \* readable PEM files, each with a certificate of its own
  EmptyFiles,      \* those of Files that hold no valid certificate
  MaxOptions,      \* bound: options given to all clients together
  None

Default == "default"   \* http.DefaultClient, http.DefaultTransport, and the pool it may have
Custom  == "custom"    \* a RoundTripper that is not an *http.Transport

(* Each object has its own name; a file with no certificate is a file.      *)
ASSUME ObjectsAssumption ==
  /\ EmptyFiles \subseteq Files
  /\ None \notin {Default, Custom}
  /\ {None, Default, Custom} \cap (Clients \cup HTTPClients \cup OwnTransports \cup OwnPools \cup Files) = {}
  /\ Clients \cap (HTTPClients \cup OwnTransports \cup OwnPools) = {}
  /\ OwnPools \cap Files = {}

VARIABLES
  client,     \* the fields of each Client that its options set
  building,   \* the client whose options are being evaluated, or None
  http,       \* http.Clients: RoundTripper, the retry wrappers around it, Timeout
  transport,  \* *http.Transports: Proxy and TLSClientConfig
  pool,       \* certificate pools: whose certificates they hold
  replaced    \* the program has put a RoundTripper of its own in http.DefaultTransport

vars == <<client, building, http, transport, pool, replaced>>

Transports == OwnTransports \cup Clients \cup {Default}
PoolIds    == OwnPools \cup Clients \cup {Default}
Mods       == [kind : {"insecure", "certificate"}, of : {None}]
              \cup [kind : {"roots"}, of : OwnPools] \cup [kind : {"file"}, of : Files]

Absent == [ stage |-> "absent", httpClient |-> None, tlsMods |-> <<>>,
            timeout |-> FALSE, proxyFunc |-> FALSE, retryPolicy |-> FALSE ]
Plain  == [proxy |-> None, insecure |-> FALSE, certificates |-> {}, rootCAs |-> None]
Zero   == [transport |-> None, retries |-> <<>>, timeout |-> None]

Init ==
  /\ client = [c \in Clients |-> Absent]
  /\ building = None
  /\ \E given \in [HTTPClients -> OwnTransports \cup {None, Default, Custom}] :
        http = [h \in HTTPClients \cup Clients \cup {Default} |->
                  IF h \in HTTPClients THEN [Zero EXCEPT !.transport = given[h]] ELSE Zero]
  /\ \E roots \in {None, Default} :
        transport = [[t \in Transports |-> Plain] EXCEPT ![Default].rootCAs = roots]
  /\ pool = [p \in PoolIds |-> IF p \in Clients THEN {} ELSE {p}]
  /\ replaced \in BOOLEAN
  /\ replaced => \A h \in HTTPClients : http[h].transport # Default
-----------------------------------------------------------------------------
(* NewClient begins, and evaluates its options in turn.                     *)
NewClient(c) ==
  /\ building = None /\ client[c].stage = "absent"
  /\ building' = c
  /\ client' = [client EXCEPT ![c].stage = "options"]
  /\ UNCHANGED <<http, transport, pool, replaced>>

Given(c) ==
  Len(client[c].tlsMods) + Cardinality({f \in {"timeout", "proxyFunc", "retryPolicy"} : client[c][f]})

AllGiven == FoldSet(LAMBDA d, n : n + Given(d), 0, Clients)

Option(c, o) ==
  /\ building = c
  /\ client' = [client EXCEPT ![c] = o]
  /\ AllGiven' <= MaxOptions
  /\ UNCHANGED <<building, http, transport, pool, replaced>>

WithHTTPClient(c) ==
  \E h \in HTTPClients \cup {Default} : Option(c, [client[c] EXCEPT !.httpClient = h])
WithTimeout(c) == Option(c, [client[c] EXCEPT !.timeout = TRUE])
WithProxy(c)   == Option(c, [client[c] EXCEPT !.proxyFunc = TRUE])
WithRetry(c)   == Option(c, [client[c] EXCEPT !.retryPolicy = TRUE])

(* The TLS options, put off to finalizeOptions. A file that cannot be read *)
(* adds none.                                                              *)
WithTLS(c) ==
  \E m \in Mods : Option(c, [client[c] EXCEPT !.tlsMods = Append(@, m)])
-----------------------------------------------------------------------------
(* finalizeOptions, as steps on s: the client's httpClient and the heap.    *)

(* Mutant: http.DefaultClient is taken for the client's own.               *)
EnsureOwnHTTPClientUnlessNil(c, s) ==
  IF s.own = None THEN [s EXCEPT !.own = c, !.http[c] = Zero] ELSE s

EnsureOwnHTTPClient(c, s) ==
  IF s.own \in {None, Default} THEN [s EXCEPT !.own = c, !.http[c] = Zero] ELSE s

(* A missing transport becomes a clone of http.DefaultTransport, whose     *)
(* TLSClientConfig is cloned with it, but not the pool that it points to.  *)
EnsureTransport(c, s) ==
  LET t == EnsureOwnHTTPClient(c, s)
  IN  IF t.http[t.own].transport # None \/ replaced THEN t
      ELSE [t EXCEPT !.http[t.own].transport = c, !.transport[c] = t.transport[Default]]

(* The type assertion: not with a custom RoundTripper, nor when WithRetry   *)
(* has wrapped the transport already.                                      *)
IsTransport(s) == s.http[s.own].transport \in Transports /\ s.http[s.own].retries = <<>>

Mod(c, s, m) ==
  LET t == s.http[s.own].transport
      certs == IF m.of \in EmptyFiles THEN {} ELSE {m.of}
      p == IF s.transport[t].rootCAs = None THEN c ELSE s.transport[t].rootCAs
  IN  CASE m.kind = "insecure"    -> [s EXCEPT !.transport[t].insecure = TRUE]
        [] m.kind = "certificate" -> [s EXCEPT !.transport[t].certificates = @ \cup {c}]
        [] m.kind = "roots"       -> [s EXCEPT !.transport[t].rootCAs = m.of]
        [] m.kind = "file"        -> [s EXCEPT !.transport[t].rootCAs = p, !.pool[p] = @ \cup certs]

(* tlsMods, in the order in which the options were given.                  *)
Modified(c, s) ==
  LET mods == client[c].tlsMods
      after[n \in 0..Len(mods)] == IF n = 0 THEN s ELSE Mod(c, after[n - 1], mods[n])
  IN  after[Len(mods)]

ApplyTLS(c, s) ==
  LET t == EnsureTransport(c, s)
  IN  IF client[c].tlsMods = <<>> THEN s
      ELSE IF IsTransport(t) THEN Modified(c, t) ELSE t

ApplyTimeout(c, s) ==
  LET t == EnsureOwnHTTPClient(c, s)
  IN  IF client[c].timeout THEN [t EXCEPT !.http[t.own].timeout = c] ELSE s

ApplyProxy(c, s) ==
  LET t == EnsureTransport(c, s)
  IN  IF ~client[c].proxyFunc THEN s
      ELSE IF IsTransport(t) THEN [t EXCEPT !.transport[t.http[t.own].transport].proxy = c]
      ELSE t

(* What carries the requests of an http.Client without a RoundTripper.      *)
DefaultTransport == IF replaced THEN Custom ELSE Default
Carrier(h) == IF h.transport = None THEN DefaultTransport ELSE h.transport

(* Mutant: the wrapper of a missing transport wraps nothing.               *)
InstallRetryWrapperBare(c, s) ==
  LET t == EnsureOwnHTTPClient(c, s)
  IN  IF ~client[c].retryPolicy THEN s
      ELSE [t EXCEPT !.http[t.own].retries = <<c>> \o @]

InstallRetryWrapper(c, s) ==
  LET t == EnsureOwnHTTPClient(c, s)
  IN  IF ~client[c].retryPolicy THEN s
      ELSE [t EXCEPT !.http[t.own].transport = Carrier(t.http[t.own]),
                     !.http[t.own].retries = <<c>> \o @]

Settled(c) == IF client[c].httpClient = None THEN Default ELSE client[c].httpClient

(* Mutant: the transport is wrapped before TLS and proxy get to it.        *)
FinalizeOptionsRetryFirst(c) ==
  LET s == [own |-> Settled(c), http |-> http, transport |-> transport, pool |-> pool]
      t == ApplyProxy(c, ApplyTimeout(c, ApplyTLS(c, InstallRetryWrapper(c, s))))
  IN  /\ building = c
      /\ client' = [client EXCEPT ![c].stage = "built", ![c].httpClient = t.own]
      /\ building' = None
      /\ http' = t.http /\ transport' = t.transport /\ pool' = t.pool
      /\ UNCHANGED replaced

FinalizeOptions(c) ==
  LET s == [own |-> Settled(c), http |-> http, transport |-> transport, pool |-> pool]
      t == InstallRetryWrapper(c, ApplyProxy(c, ApplyTimeout(c, ApplyTLS(c, s))))
  IN  /\ building = c
      /\ client' = [client EXCEPT ![c].stage = "built", ![c].httpClient = t.own]
      /\ building' = None
      /\ http' = t.http /\ transport' = t.transport /\ pool' = t.pool
      /\ UNCHANGED replaced

Next ==
  \E c \in Clients :
    \/ NewClient(c) \/ WithHTTPClient(c) \/ WithTimeout(c) \/ WithProxy(c) \/ WithRetry(c)
    \/ WithTLS(c) \/ FinalizeOptions(c)

Spec == Init /\ [][Next]_vars
-----------------------------------------------------------------------------
Built(c) == client[c].stage = "built"
ModsOf(c) == {client[c].tlsMods[i] : i \in DOMAIN client[c].tlsMods}
PoolsOf(c) == {m.of : m \in {n \in ModsOf(c) : n.kind = "roots"}}
FilesOf(c) == {m.of : m \in {n \in ModsOf(c) : n.kind = "file"}} \ EmptyFiles
Asked(c, kind) == \E m \in ModsOf(c) : m.kind = kind

(* The last pool that c was given, and the files that it was given after    *)
(* its ith TLS option.                                                     *)
LastPool(c, i) ==
  /\ client[c].tlsMods[i].kind = "roots"
  /\ \A j \in DOMAIN client[c].tlsMods : j > i => client[c].tlsMods[j].kind # "roots"
FilesAfter(c, i) ==
  {client[c].tlsMods[j].of : j \in {k \in DOMAIN client[c].tlsMods :
                                     k > i /\ client[c].tlsMods[k].kind = "file"}} \ EmptyFiles

Mine(c)  == http[client[c].httpClient]
Sends(c) == Carrier(Mine(c))
Config(c) == transport[Sends(c)]

(* The certificates that a client takes for a server's: those of its pool,  *)
(* or the system's when it has none.                                       *)
Trusted(c) == IF Config(c).rootCAs = None THEN {} ELSE pool[Config(c).rootCAs]

(* The program gives c and d nothing that they share, nor any client        *)
(* http.DefaultTransport to write to.                                      *)
Alone(c) ==
  /\ transport[Default] \in {Plain, [Plain EXCEPT !.rootCAs = Default]}
  /\ \A d \in Clients \ {c} : Built(d) =>
       /\ client[d].httpClient # client[c].httpClient
       /\ Sends(d) = Sends(c) => Sends(c) \in {Default, Custom}
       /\ PoolsOf(c) \cap PoolsOf(d) = {}

(* Each object keeps its type; a wrapper has something to wrap, and an      *)
(* object of a client exists only once the client is built.                *)
TypeOK ==
  /\ client \in [Clients -> [ stage : {"absent", "options", "built"},
                              httpClient : HTTPClients \cup Clients \cup {None, Default},
                              tlsMods : Seq(Mods), timeout : BOOLEAN, proxyFunc : BOOLEAN,
                              retryPolicy : BOOLEAN ]]
  /\ building \in Clients \cup {None}
  /\ http \in [HTTPClients \cup Clients \cup {Default} ->
                 [ transport : Transports \cup {None, Custom}, retries : Seq(Clients),
                   timeout : Clients \cup {None} ]]
  /\ transport \in [Transports -> [ proxy : Clients \cup {None}, insecure : BOOLEAN,
                                    certificates : SUBSET Clients,
                                    rootCAs : PoolIds \cup {None} ]]
  /\ pool \in [PoolIds -> SUBSET (OwnPools \cup Files \cup {Default})]
  /\ \A h \in DOMAIN http : http[h].retries # <<>> => http[h].transport # None
  /\ \A c \in Clients : ~Built(c) => http[c] = Zero /\ transport[c] = Plain /\ pool[c] = {}

(* Whatever clients were built before and after it, a client that shares    *)
(* nothing has the timeout, the retries, the proxy, the verification and    *)
(* the client certificates that it asked for, in whatever order it asked,   *)
(* and nothing that another asked for. The certificates that it trusts do   *)
(* depend on the order, although proxmox.go:204 and options.go:88-89 say it *)
(* does not matter: the last pool given is the pool, with the files given   *)
(* after it, and a file given before it is lost with the pool that it was   *)
(* read into, which options.go:100 calls composing. With no pool given, it  *)
(* trusts every file given; a file that holds no certificate is no no-op    *)
(* either (options.go:113-115): it leaves a pool of its own, empty, in the  *)
(* place of the system's. Trusting a file that it did not ask for is        *)
(* possible only through the pool of http.DefaultTransport.                 *)
BuiltAsAsked ==
  \A c \in Clients : Built(c) /\ Alone(c) =>
    /\ Mine(c).timeout = IF client[c].timeout THEN c ELSE None
    /\ Mine(c).retries = IF client[c].retryPolicy THEN <<c>> ELSE <<>>
    /\ Sends(c) # Custom =>
         /\ Config(c).proxy = IF client[c].proxyFunc THEN c ELSE None
         /\ Config(c).insecure = Asked(c, "insecure")
         /\ Config(c).certificates = IF Asked(c, "certificate") THEN {c} ELSE {}
         /\ Config(c).rootCAs = Default \/ Trusted(c) \cap Files \subseteq FilesOf(c)
         /\ \A i \in DOMAIN client[c].tlsMods : LastPool(c, i) =>
              /\ Config(c).rootCAs = client[c].tlsMods[i].of
              /\ FilesAfter(c, i) \subseteq Trusted(c)
         /\ PoolsOf(c) = {} =>
              /\ Config(c).rootCAs \in IF Asked(c, "file") THEN {c, Default} ELSE {None, Default}
              /\ FilesOf(c) \subseteq Trusted(c)

(* Building a client changes no object but those it makes and those that    *)
(* its options were given: never http.DefaultClient, and                   *)
(* http.DefaultTransport only when the program has put it in an http.Client *)
(* of its own. One thing of Go's it does change, although proxmox.go:207    *)
(* and options.go:240-242 say that it does not: the pool that               *)
(* http.DefaultTransport points to, which a clone of that transport shares. *)
(* What happens to it is that the client's own files are added.            *)
OthersLeftAlone ==
  [][ /\ http'[Default] = http[Default]
      /\ \A h \in DOMAIN http : http'[h] # http[h] => h \in {building, client[building].httpClient}
      /\ \A t \in Transports : transport'[t] # transport[t] =>
           \/ t = building
           \/ client[building].httpClient # None /\ t = http[client[building].httpClient].transport
      /\ \A p \in PoolIds : pool'[p] # pool[p] =>
           /\ \/ p = building \/ p \in PoolsOf(building)
              \/ \E t \in Transports : t \in {Default, http[Settled(building)].transport}
                                       /\ p = transport[t].rootCAs
           /\ pool[p] \subseteq pool'[p] /\ pool'[p] \subseteq pool[p] \cup FilesOf(building) ]_vars
=============================================================================
