---------------------------- MODULE OptionsProofs ----------------------------
(***************************************************************************)
(* Theorems about Options, for any clients, objects and options of a       *)
(* program.                                                                *)
(***************************************************************************)
EXTENDS Options, FiniteSetTheorems, TLAPS

(* The types, as TypeOK has them.                                          *)
ClientRecords == [ stage : {"absent", "options", "built"},
                   httpClient : HTTPClients \cup Clients \cup {None, Default},
                   tlsMods : Seq(Mods), timeout : BOOLEAN, proxyFunc : BOOLEAN,
                   retryPolicy : BOOLEAN ]
HTTPIds     == HTTPClients \cup Clients \cup {Default}
Trippers    == Transports \cup {None, Custom}
HTTPRecords == [ transport : Trippers, retries : Seq(Clients), timeout : Clients \cup {None} ]
Configs     == [ proxy : Clients \cup {None}, insecure : BOOLEAN,
                 certificates : SUBSET Clients, rootCAs : PoolIds \cup {None} ]
Certs       == OwnPools \cup Files \cup {Default}

(* Clients are built one at a time, and only http.Clients of the program    *)
(* and the client's own are used; http.DefaultClient by those that asked    *)
(* for nothing.                                                            *)
BuildInv ==
  /\ \A c \in Clients : client[c].stage = "options" <=> building = c
  /\ \A c \in Clients : client[c].stage = "absent" => client[c] = Absent
  /\ \A c \in Clients : ~Built(c) => client[c].httpClient \in HTTPClients \cup {None, Default}
  /\ \A c \in Clients : Built(c) =>
       /\ client[c].httpClient \in HTTPClients \cup {c, Default}
       /\ client[c].httpClient = Default =>
            /\ client[c].tlsMods = <<>> /\ ~client[c].timeout
            /\ ~client[c].proxyFunc /\ ~client[c].retryPolicy
  /\ http[Default] = Zero

(* What a client has made is found only behind its own http.Client, and     *)
(* only once it is built.                                                  *)
MadeInv ==
  /\ \A h \in HTTPIds, c \in Clients :
       http[h].transport = c => Built(c) /\ client[c].httpClient = h
  /\ \A t \in Transports, c \in Clients : transport[t].rootCAs = c => Built(c)

(* The program's objects are as it made them until a client uses them.      *)
Untouched ==
  /\ \A h \in HTTPClients : (\A d \in Clients : Built(d) => client[d].httpClient # h) =>
       /\ http[h].retries = <<>> /\ http[h].timeout = None
       /\ http[h].transport \in OwnTransports \cup {None, Default, Custom}
  /\ \A t \in OwnTransports :
       (\A d \in Clients : Built(d) => http[client[d].httpClient].transport # t) =>
         transport[t] = Plain

Tripper(c) == http[client[c].httpClient].transport
Private    == Clients \cup OwnTransports
Bare       == transport[Default] \in {Plain, [Plain EXCEPT !.rootCAs = Default]}

(* No other client has c's http.Client or its transport.                    *)
Sole(c) ==
  \A d \in Clients \ {c} : Built(d) =>
    /\ client[d].httpClient # client[c].httpClient
    /\ Tripper(d) = Tripper(c) => Tripper(c) \notin Private

(* The pool that c's transport had before its options.                      *)
BaseRoots(c) == IF Tripper(c) = c THEN transport[Default].rootCAs ELSE None

(* What a client alone with its objects finds there.                        *)
HTTPInv ==
  \A c \in Clients : Built(c) /\ Sole(c) =>
    /\ Mine(c).timeout = IF client[c].timeout THEN c ELSE None
    /\ Mine(c).retries = IF client[c].retryPolicy THEN <<c>> ELSE <<>>

AsksNothing(c) ==
  /\ ~client[c].proxyFunc /\ ~Asked(c, "insecure") /\ ~Asked(c, "certificate")
  /\ ~Asked(c, "roots")

BareInv ==
  \A c \in Clients : Built(c) /\ Bare /\ Sole(c) =>
    /\ Tripper(c) = None /\ ~replaced => client[c].tlsMods = <<>> /\ ~client[c].proxyFunc
    /\ Tripper(c) = Default =>
         /\ AsksNothing(c)
         /\ Asked(c, "file") => transport[Default].rootCAs = Default /\ FilesOf(c) \subseteq pool[Default]

(* The last pool among the first n of mods is roots, and has in pools every *)
(* certificate of the files after it.                                      *)
LastOf(mods, n, i) ==
  mods[i].kind = "roots" /\ \A j \in 1..n : j > i => mods[j].kind # "roots"
Since(mods, n, i) ==
  {mods[j].of : j \in {k \in 1..n : k > i /\ mods[k].kind = "file"}} \ EmptyFiles
PoolStays(mods, n, roots, pools) ==
  \A i \in 1..n : LastOf(mods, n, i) => roots = mods[i].of /\ Since(mods, n, i) \subseteq pools[roots]
AllStays(mods, roots, pools) == PoolStays(mods, Len(mods), roots, pools)

Configured(c, t) ==
  /\ transport[t].proxy = IF client[c].proxyFunc THEN c ELSE None
  /\ transport[t].insecure <=> Asked(c, "insecure")
  /\ transport[t].certificates = IF Asked(c, "certificate") THEN {c} ELSE {}
  /\ Asked(c, "roots") => transport[t].rootCAs \in PoolsOf(c)
  /\ AllStays(client[c].tlsMods, transport[t].rootCAs, pool)
  /\ ~Asked(c, "roots") =>
       /\ transport[t].rootCAs =
            IF BaseRoots(c) # None THEN Default ELSE IF Asked(c, "file") THEN c ELSE None
       /\ Asked(c, "file") => FilesOf(c) \subseteq pool[transport[t].rootCAs]

ConfigInv ==
  \A c \in Clients : Built(c) /\ Bare /\ Sole(c) /\ Tripper(c) \in Private =>
    Configured(c, Tripper(c))

(* Whose pool a transport points to, and who put a certificate in a pool.   *)
RootsInv ==
  Bare => \A t \in Transports :
    /\ \A c \in Clients : transport[t].rootCAs = c => Tripper(c) = t
    /\ \A p \in OwnPools : transport[t].rootCAs = p =>
         \E c \in Clients : Built(c) /\ p \in PoolsOf(c) /\ Tripper(c) = t

PoolInv ==
  Bare =>
    /\ \A c \in Clients : Built(c) /\ Sole(c) => pool[c] \subseteq FilesOf(c)
    /\ \A p \in OwnPools : \A f \in pool[p] \cap Files : \E d \in Clients :
         /\ Built(d) /\ f \in FilesOf(d)
         /\ \/ p \in PoolsOf(d)
            \/ \E e \in Clients : /\ Built(e) /\ p \in PoolsOf(e)
                                  /\ Tripper(e) = Tripper(d) /\ Tripper(d) \in Private

IndInv ==
  /\ TypeOK /\ BuildInv /\ MadeInv /\ Untouched
  /\ HTTPInv /\ BareInv /\ ConfigInv /\ RootsInv /\ PoolInv
-----------------------------------------------------------------------------
(* Induction. A set of numbers that is not empty has a least one, because a *)
(* set of finite intervals has a smallest interval.                        *)
LEMMA Least ==
  ASSUME NEW T, T \subseteq Nat, T # {}
  PROVE  \E x \in T : \A y \in T : x <= y
<1> DEFINE Below(x) == 0..(x - 1)
           B == {Below(x) : x \in T}
           R == StrictSubsetOrdering(Nat)
<1>1. B \subseteq FiniteSubsetsOf(Nat) /\ B # {}
  <2>1. \A x \in T : Below(x) \in SUBSET Nat /\ IsFiniteSet(Below(x))
    <3> TAKE x \in T
    <3>1. x \in Nat /\ 0 \in Int /\ x - 1 \in Int
      OBVIOUS
    <3> QED BY <3>1, FS_Interval
  <2> QED BY <2>1 DEF FiniteSubsetsOf
<1>2. IsWellFoundedOn(R, FiniteSubsetsOf(Nat))
  BY FS_StrictSubsetOrderingWellFounded
<1> HIDE DEF R
<1>3. \E b \in B : \A y \in B : ~ (<<y, b>> \in R)
  <2> HIDE DEF B
  <2> QED BY <1>1, <1>2, WFMin
<1>4. PICK x \in T : \A y \in T : ~ (<<Below(y), Below(x)>> \in R)
  BY <1>3
<1>5. ASSUME NEW y \in T, y < x PROVE FALSE
  <2>1. Below(y) \in SUBSET Nat /\ Below(x) \in SUBSET Nat
    OBVIOUS
  <2>2. Below(y) \subseteq Below(x) /\ y \in Below(x) /\ y \notin Below(y)
    BY <1>5
  <2> HIDE DEF Below
  <2>3. <<Below(y), Below(x)>> \in R
    BY <2>1, <2>2 DEF R, StrictSubsetOrdering
  <2> QED BY <1>4, <2>3
<1> QED BY <1>4, <1>5

(* What holds of 0, and of n + 1 when it holds of n, holds up to any k.     *)
LEMMA UpTo ==
  ASSUME NEW S, 0 \in S, NEW k \in Nat, \A n \in Nat : n \in S /\ n < k => n + 1 \in S
  PROVE  \A n \in 0..k : n \in S
<1> SUFFICES ASSUME (0..k) \ S # {} PROVE FALSE
  OBVIOUS
<1> DEFINE T == (0..k) \ S
<1>1. T \subseteq Nat /\ T # {}
  OBVIOUS
<1>2. PICK x \in T : \A y \in T : x <= y
  <2> HIDE DEF T
  <2> QED BY <1>1, Least
<1>3. x - 1 \in 0..k /\ x - 1 \in S
  BY <1>2
<1> QED BY <1>2, <1>3

-----------------------------------------------------------------------------
(* The recursion over tlsMods has a solution, and after is it.             *)
After(c, s) ==
  CHOOSE after : after = [n \in 0..Len(client[c].tlsMods) |->
                            IF n = 0 THEN s ELSE Mod(c, after[n - 1], client[c].tlsMods[n])]

Run(c, s, g, k) == g = [n \in 0..k |-> IF n = 0 THEN s ELSE Mod(c, g[n - 1], client[c].tlsMods[n])]

LEMMA AfterRuns ==
  ASSUME NEW c, NEW s, Len(client[c].tlsMods) \in Nat
  PROVE  Run(c, s, After(c, s), Len(client[c].tlsMods))
<1> DEFINE L == Len(client[c].tlsMods)
           S == {k \in 0..L : \E g : Run(c, s, g, k)}
<1>1. 0 \in S
  <2>1. Run(c, s, [n \in 0..0 |-> s], 0)
    BY DEF Run
  <2> QED BY <2>1
<1>2. ASSUME NEW k \in Nat, k \in S, k < L PROVE k + 1 \in S
  <2>1. PICK g : Run(c, s, g, k)
    BY <1>2
  <2> DEFINE h == [n \in 0..(k+1) |-> IF n <= k THEN g[n] ELSE Mod(c, g[k], client[c].tlsMods[k + 1])]
  <2>2. Run(c, s, h, k + 1)
    <3>1. \A n \in 0..(k+1) : h[n] = IF n = 0 THEN s ELSE Mod(c, h[n - 1], client[c].tlsMods[n])
      BY <2>1 DEF Run
    <3> QED BY <3>1 DEF Run
  <2> HIDE DEF h
  <2> QED BY <2>2, <1>2
<1>3. \E g : Run(c, s, g, L)
  <2>1. L \in Nat /\ 0 \in S
    BY <1>1
  <2>2. \A n \in Nat : n \in S /\ n < L => n + 1 \in S
    BY <1>2
  <2> HIDE DEF S
  <2>3. \A n \in 0..L : n \in S
    BY <2>1, <2>2, UpTo
  <2>4. L \in S
    BY <2>1, <2>3
  <2> QED BY <2>4 DEF S
<1> QED BY <1>3 DEF After, Run

LEMMA ModifiedIsAfter ==
  ASSUME NEW c, NEW s, Len(client[c].tlsMods) \in Nat
  PROVE  /\ Modified(c, s) = After(c, s)[Len(client[c].tlsMods)]
         /\ After(c, s)[0] = s
         /\ \A n \in 0..(Len(client[c].tlsMods) - 1) :
              After(c, s)[n + 1] = Mod(c, After(c, s)[n], client[c].tlsMods[n + 1])
<1>1. Modified(c, s) = After(c, s)[Len(client[c].tlsMods)]
  BY DEF Modified, After
<1>2. Run(c, s, After(c, s), Len(client[c].tlsMods))
  BY AfterRuns
<1> HIDE DEF After
<1> QED BY <1>1, <1>2 DEF Run

-----------------------------------------------------------------------------
(* The heap that finalizeOptions works on.                                  *)
Heaps == [ own : HTTPClients \cup Clients \cup {Default}, http : [HTTPIds -> HTTPRecords],
           transport : [Transports -> Configs], pool : [PoolIds -> SUBSET Certs] ]

LEMMA ObjectsApart ==
  /\ Default # Custom /\ None # Default /\ None # Custom /\ Default \notin Files
  /\ \A c \in Clients : /\ c \notin HTTPClients /\ c \notin OwnTransports /\ c \notin OwnPools
                        /\ c # Default /\ c # Custom /\ c # None
  /\ \A h \in HTTPClients : h # Default /\ h # Custom /\ h # None
  /\ \A t \in OwnTransports : t # Default /\ t # Custom /\ t # None
  /\ \A p \in OwnPools : p # Default /\ p # None /\ p \notin Files
  /\ EmptyFiles \subseteq Files
BY ObjectsAssumption DEF Default, Custom

LEMMA HeapFields ==
  ASSUME NEW s \in Heaps
  PROVE  /\ s.own \in HTTPIds /\ s.http \in [HTTPIds -> HTTPRecords]
         /\ s.transport \in [Transports -> Configs] /\ s.pool \in [PoolIds -> SUBSET Certs]
BY DEF Heaps, HTTPIds

LEMMA HeapIs ==
  ASSUME NEW o \in HTTPIds, NEW h \in [HTTPIds -> HTTPRecords],
         NEW t \in [Transports -> Configs], NEW p \in [PoolIds -> SUBSET Certs], NEW s,
         s = [own |-> o, http |-> h, transport |-> t, pool |-> p]
  PROVE  s \in Heaps /\ s.own = o /\ s.http = h /\ s.transport = t /\ s.pool = p
BY DEF Heaps, HTTPIds

LEMMA ModTypes ==
  ASSUME NEW m \in Mods
  PROVE  /\ m.kind \in {"insecure", "certificate", "roots", "file"}
         /\ m.kind = "roots" => m.of \in OwnPools
         /\ m.kind = "file" => m.of \in Files
BY DEF Mods

(* One modification changes the configuration of the transport that it is   *)
(* for, and a file the pool there, which is the client's when there is none. *)
ModEffect(c, s, m, u) ==
  LET t == s.http[s.own].transport
      p == IF s.transport[t].rootCAs = None THEN c ELSE s.transport[t].rootCAs
  IN  /\ u \in Heaps /\ u.own = s.own /\ u.http = s.http
      /\ \A x \in Transports : x # t => u.transport[x] = s.transport[x]
      /\ u.transport[t].proxy = s.transport[t].proxy
      /\ u.transport[t].insecure = (s.transport[t].insecure \/ m.kind = "insecure")
      /\ u.transport[t].certificates =
           s.transport[t].certificates \cup IF m.kind = "certificate" THEN {c} ELSE {}
      /\ u.transport[t].rootCAs = IF m.kind = "roots" THEN m.of
                                  ELSE IF m.kind = "file" THEN p ELSE s.transport[t].rootCAs
      /\ p \in PoolIds
      /\ \A x \in PoolIds : x # p => u.pool[x] = s.pool[x]
      /\ u.pool[p] = s.pool[p] \cup IF m.kind = "file" /\ m.of \notin EmptyFiles
                                    THEN {m.of} ELSE {}

LEMMA ModIs ==
  ASSUME NEW c \in Clients, NEW s \in Heaps, NEW m \in Mods, s.http[s.own].transport \in Transports
  PROVE  ModEffect(c, s, m, Mod(c, s, m))
<1>0. PICK t, p, u :
        /\ t \in Transports /\ t = s.http[s.own].transport
        /\ p = IF s.transport[t].rootCAs = None THEN c ELSE s.transport[t].rootCAs
        /\ u = Mod(c, s, m)
  OBVIOUS
<1> DEFINE Effect ==
      /\ u \in Heaps /\ u.own = s.own /\ u.http = s.http
      /\ \A x \in Transports : x # t => u.transport[x] = s.transport[x]
      /\ u.transport[t].proxy = s.transport[t].proxy
      /\ u.transport[t].insecure = (s.transport[t].insecure \/ m.kind = "insecure")
      /\ u.transport[t].certificates =
           s.transport[t].certificates \cup IF m.kind = "certificate" THEN {c} ELSE {}
      /\ u.transport[t].rootCAs = IF m.kind = "roots" THEN m.of
                                  ELSE IF m.kind = "file" THEN p ELSE s.transport[t].rootCAs
      /\ p \in PoolIds
      /\ \A x \in PoolIds : x # p => u.pool[x] = s.pool[x]
      /\ u.pool[p] = s.pool[p] \cup IF m.kind = "file" /\ m.of \notin EmptyFiles
                                    THEN {m.of} ELSE {}
<1> SUFFICES Effect
  BY <1>0 DEF ModEffect
<1>1. /\ s.transport[t] \in Configs /\ s.transport \in [Transports -> Configs]
      /\ s.pool \in [PoolIds -> SUBSET Certs]
      /\ s = [own |-> s.own, http |-> s.http, transport |-> s.transport, pool |-> s.pool]
  BY <1>0 DEF Heaps
<1>2. p \in PoolIds /\ c \in PoolIds /\ s.pool[p] \in SUBSET Certs
  BY <1>0, <1>1 DEF Configs, PoolIds
<1>3. CASE m.kind = "insecure"
  <2>1. PICK cfg : cfg = [s.transport[t] EXCEPT !.insecure = TRUE]
    OBVIOUS
  <2>2. u = [s EXCEPT !.transport = [s.transport EXCEPT ![t] = cfg]]
    BY <1>0, <1>3, <2>1 DEF Mod
  <2>3. /\ cfg \in Configs /\ cfg.proxy = s.transport[t].proxy /\ cfg.insecure = TRUE
        /\ cfg.certificates = s.transport[t].certificates /\ cfg.rootCAs = s.transport[t].rootCAs
    BY <1>1, <2>1 DEF Configs
  <2>4. u \in Heaps /\ u.own = s.own /\ u.http = s.http /\ u.pool = s.pool
        /\ u.transport = [s.transport EXCEPT ![t] = cfg]
    BY <1>1, <2>2, <2>3 DEF Heaps
  <2>5. u.transport[t] = cfg /\ \A x \in Transports : x # t => u.transport[x] = s.transport[x]
    BY <1>0, <1>1, <2>4
  <2>6. cfg.insecure = (s.transport[t].insecure \/ m.kind = "insecure")
    BY <1>3, <2>3
  <2>7. s.transport[t].certificates = s.transport[t].certificates \cup {}
    OBVIOUS
  <2> QED BY <1>2, <1>3, <2>3, <2>4, <2>5, <2>6, <2>7
<1>4. CASE m.kind = "certificate"
  <2>1. PICK cfg : cfg = [s.transport[t] EXCEPT !.certificates = @ \cup {c}]
    OBVIOUS
  <2>2. u = [s EXCEPT !.transport = [s.transport EXCEPT ![t] = cfg]]
    BY <1>0, <1>4, <2>1 DEF Mod
  <2>3. /\ cfg \in Configs /\ cfg.proxy = s.transport[t].proxy
        /\ cfg.insecure = s.transport[t].insecure /\ cfg.insecure \in BOOLEAN
        /\ cfg.certificates = s.transport[t].certificates \cup {c}
        /\ cfg.rootCAs = s.transport[t].rootCAs
    BY <1>1, <2>1 DEF Configs
  <2>4. u \in Heaps /\ u.own = s.own /\ u.http = s.http /\ u.pool = s.pool
        /\ u.transport = [s.transport EXCEPT ![t] = cfg]
    BY <1>1, <2>2, <2>3 DEF Heaps
  <2> QED BY <1>0, <1>1, <1>2, <1>4, <2>3, <2>4
<1>5. CASE m.kind = "roots"
  <2>1. PICK cfg : cfg = [s.transport[t] EXCEPT !.rootCAs = m.of]
    OBVIOUS
  <2>2. u = [s EXCEPT !.transport = [s.transport EXCEPT ![t] = cfg]]
    BY <1>0, <1>5, <2>1 DEF Mod
  <2>3. /\ cfg \in Configs /\ cfg.proxy = s.transport[t].proxy
        /\ cfg.insecure = s.transport[t].insecure /\ cfg.insecure \in BOOLEAN
        /\ cfg.certificates = s.transport[t].certificates /\ cfg.rootCAs = m.of
    <3>1. m.of \in PoolIds
      BY <1>5, ModTypes DEF PoolIds
    <3> QED BY <1>1, <2>1, <3>1 DEF Configs
  <2>4. u \in Heaps /\ u.own = s.own /\ u.http = s.http /\ u.pool = s.pool
        /\ u.transport = [s.transport EXCEPT ![t] = cfg]
    BY <1>1, <2>2, <2>3 DEF Heaps
  <2> QED BY <1>0, <1>1, <1>2, <1>5, <2>3, <2>4
<1>6. CASE m.kind = "file"
  <2>1. PICK cfg, certs : /\ cfg = [s.transport[t] EXCEPT !.rootCAs = p]
                          /\ certs = IF m.of \in EmptyFiles THEN {} ELSE {m.of}
    OBVIOUS
  <2>2. u = [s EXCEPT !.transport = [s.transport EXCEPT ![t] = cfg],
                      !.pool = [s.pool EXCEPT ![p] = @ \cup certs]]
    BY <1>0, <1>6, <2>1 DEF Mod
  <2>3. /\ cfg \in Configs /\ cfg.proxy = s.transport[t].proxy
        /\ cfg.insecure = s.transport[t].insecure /\ cfg.insecure \in BOOLEAN
        /\ cfg.certificates = s.transport[t].certificates /\ cfg.rootCAs = p
    BY <1>1, <1>2, <2>1 DEF Configs
  <2>4. certs \in SUBSET Certs
    BY <1>6, <2>1, ModTypes DEF Certs
  <2>5. [s.pool EXCEPT ![p] = @ \cup certs] \in [PoolIds -> SUBSET Certs]
    BY <1>1, <1>2, <2>4
  <2>6. u \in Heaps /\ u.own = s.own /\ u.http = s.http
        /\ u.pool = [s.pool EXCEPT ![p] = @ \cup certs]
        /\ u.transport = [s.transport EXCEPT ![t] = cfg]
    <3>1. PICK tr, pl : /\ tr = [s.transport EXCEPT ![t] = cfg]
                        /\ pl = [s.pool EXCEPT ![p] = @ \cup certs]
      OBVIOUS
    <3>2. u = [own |-> s.own, http |-> s.http, transport |-> tr, pool |-> pl]
      BY <1>1, <2>2, <3>1
    <3>3. tr \in [Transports -> Configs] /\ pl \in [PoolIds -> SUBSET Certs]
      BY <1>1, <2>3, <2>5, <3>1
    <3>4. s.own \in HTTPIds /\ s.http \in [HTTPIds -> HTTPRecords]
      BY HeapFields
    <3>5. u \in Heaps
      BY <3>2, <3>3, <3>4 DEF Heaps, HTTPIds
    <3>6. u.own = s.own /\ u.http = s.http /\ u.transport = tr /\ u.pool = pl
      BY <3>2
    <3> QED BY <3>1, <3>5, <3>6
  <2>7. u.transport[t] = cfg /\ \A x \in Transports : x # t => u.transport[x] = s.transport[x]
    BY <1>0, <1>1, <2>6
  <2>8. u.pool[p] = s.pool[p] \cup certs /\ \A x \in PoolIds : x # p => u.pool[x] = s.pool[x]
    BY <1>1, <1>2, <2>6
  <2>9. cfg.insecure = (s.transport[t].insecure \/ m.kind = "insecure")
    BY <1>6, <2>3
  <2> QED BY <1>2, <1>6, <2>1, <2>3, <2>6, <2>7, <2>8, <2>9
<1> QED BY <1>3, <1>4, <1>5, <1>6, ModTypes

(* The first n modifications, as one: the last pool asked for stays, and a   *)
(* file goes to the pool that was there, to one asked for, or to the client's. *)
Among(c, n, kind) == \E i \in 1..n : client[c].tlsMods[i].kind = kind
Pools(c, n) == {client[c].tlsMods[i].of : i \in {j \in 1..n : client[c].tlsMods[j].kind = "roots"}}
FilesIn(c, n) ==
  {client[c].tlsMods[i].of : i \in {j \in 1..n : client[c].tlsMods[j].kind = "file"}} \ EmptyFiles

TLSOf(c, n, old, new, before, after) ==
  LET root == IF old.rootCAs = None THEN c ELSE old.rootCAs
  IN  /\ new.insecure = (old.insecure \/ Among(c, n, "insecure"))
      /\ new.certificates = old.certificates \cup IF Among(c, n, "certificate") THEN {c} ELSE {}
      /\ Among(c, n, "roots") => new.rootCAs \in Pools(c, n)
      /\ PoolStays(client[c].tlsMods, n, new.rootCAs, after)
      /\ ~Among(c, n, "roots") =>
           /\ new.rootCAs = IF Among(c, n, "file") THEN root ELSE old.rootCAs
           /\ FilesIn(c, n) \subseteq after[root]
      /\ \A x \in PoolIds :
           /\ before[x] \subseteq after[x]
           /\ after[x] \subseteq before[x] \cup FilesIn(c, n)
           /\ after[x] # before[x] => x = root \/ x \in Pools(c, n)

Modded(c, s, u, n) ==
  LET t == s.http[s.own].transport
  IN  /\ u \in Heaps /\ u.own = s.own /\ u.http = s.http
      /\ \A x \in Transports : x # t => u.transport[x] = s.transport[x]
      /\ u.transport[t].proxy = s.transport[t].proxy
      /\ TLSOf(c, n, s.transport[t], u.transport[t], s.pool, u.pool)

LEMMA OneMore ==
  ASSUME NEW c, NEW n \in Nat
  PROVE  /\ \A kind : Among(c, n + 1, kind) <=> \/ Among(c, n, kind)
                                                \/ client[c].tlsMods[n + 1].kind = kind
         /\ Pools(c, n + 1) = Pools(c, n) \cup
              IF client[c].tlsMods[n + 1].kind = "roots" THEN {client[c].tlsMods[n + 1].of} ELSE {}
         /\ FilesIn(c, n + 1) = FilesIn(c, n) \cup
              IF /\ client[c].tlsMods[n + 1].kind = "file"
                 /\ client[c].tlsMods[n + 1].of \notin EmptyFiles
              THEN {client[c].tlsMods[n + 1].of} ELSE {}
<1>1. 1..(n + 1) = (1..n) \cup {n + 1}
  OBVIOUS
<1>2. \A kind : Among(c, n + 1, kind) <=> \/ Among(c, n, kind)
                                          \/ client[c].tlsMods[n + 1].kind = kind
  BY <1>1 DEF Among
<1>3. Pools(c, n + 1) = Pools(c, n) \cup
        IF client[c].tlsMods[n + 1].kind = "roots" THEN {client[c].tlsMods[n + 1].of} ELSE {}
  BY <1>1 DEF Pools
<1>4. FilesIn(c, n + 1) = FilesIn(c, n) \cup
        IF /\ client[c].tlsMods[n + 1].kind = "file"
           /\ client[c].tlsMods[n + 1].of \notin EmptyFiles
        THEN {client[c].tlsMods[n + 1].of} ELSE {}
  BY <1>1 DEF FilesIn
<1> QED BY <1>2, <1>3, <1>4

LEMMA NoneYet ==
  ASSUME NEW c, NEW s \in Heaps, s.http[s.own].transport \in Transports
  PROVE  Modded(c, s, s, 0)
<1>1. 1..0 = {}
  OBVIOUS
<1>2. /\ Pools(c, 0) = {} /\ FilesIn(c, 0) = {} /\ \A kind : ~Among(c, 0, kind)
      /\ \A roots, pools : PoolStays(client[c].tlsMods, 0, roots, pools)
  BY <1>1 DEF Pools, FilesIn, Among, PoolStays
<1>3. s.transport[s.http[s.own].transport].insecure \in BOOLEAN
  BY DEF Heaps, Configs
<1> QED BY <1>2, <1>3 DEF Modded, TLSOf

(* The last pool after one modification more.                               *)
LEMMA OneStaysMore ==
  ASSUME NEW mods \in Seq(Mods), NEW n \in Nat, n < Len(mods), NEW m, m = mods[n + 1],
         NEW roots, NEW pools, PoolStays(mods, n, roots, pools),
         NEW now, NEW after,
         m.kind = "roots" => now = m.of,
         m.kind # "roots" /\ roots # None => now = roots,
         m.kind = "file" /\ roots # None /\ m.of \notin EmptyFiles => m.of \in after[roots],
         roots \in PoolIds => pools[roots] \subseteq after[roots]
  PROVE  PoolStays(mods, n + 1, now, after)
<1> SUFFICES ASSUME NEW i \in 1..(n + 1), LastOf(mods, n + 1, i)
             PROVE  now = mods[i].of /\ Since(mods, n + 1, i) \subseteq after[now]
  BY DEF PoolStays
<1>1. CASE i = n + 1
  <2>1. {k \in 1..(n + 1) : k > i /\ mods[k].kind = "file"} = {}
    BY <1>1
  <2>2. Since(mods, n + 1, i) = {}
    BY <2>1 DEF Since
  <2> QED BY <1>1, <2>2 DEF LastOf
<1>2. CASE i # n + 1
  <2>1. i \in 1..n /\ i \in 1..Len(mods) /\ n + 1 \in 1..(n + 1) /\ n + 1 > i
    BY <1>2
  <2>2. LastOf(mods, n, i) /\ m.kind # "roots" /\ mods[i].kind = "roots"
    BY <2>1 DEF LastOf
  <2>3. roots = mods[i].of /\ Since(mods, n, i) \subseteq pools[roots]
    BY <2>1, <2>2 DEF PoolStays
  <2>4. roots \in OwnPools
    <3>1. mods[i] \in Mods
      BY <2>1
    <3> QED BY <2>2, <2>3, <3>1, ModTypes
  <2>5. roots # None /\ roots \in PoolIds
    BY <2>4, ObjectsApart DEF PoolIds
  <2>6. ASSUME NEW f \in Since(mods, n + 1, i) PROVE f \in after[roots]
    <3>1. PICK k \in 1..(n + 1) : k > i /\ mods[k].kind = "file" /\ f = mods[k].of /\ f \notin EmptyFiles
      BY DEF Since
    <3>2. CASE k = n + 1
      BY <2>5, <3>1, <3>2
    <3>3. CASE k # n + 1
      <4>1. k \in 1..n
        BY <3>3
      <4>2. f \in Since(mods, n, i)
        BY <3>1, <4>1 DEF Since
      <4> QED BY <2>3, <2>5, <4>2
    <3> QED BY <3>2, <3>3
  <2> QED BY <2>2, <2>3, <2>5, <2>6
<1> QED BY <1>1, <1>2

(* A pool that only grows stays as the options ask.                         *)
LEMMA StaysOn ==
  ASSUME NEW mods \in Seq(Mods), NEW roots, NEW pools, AllStays(mods, roots, pools),
         NEW after, roots \in PoolIds => pools[roots] \subseteq after[roots]
  PROVE  AllStays(mods, roots, after)
<1> SUFFICES ASSUME NEW i \in 1..Len(mods), LastOf(mods, Len(mods), i)
             PROVE  roots = mods[i].of /\ Since(mods, Len(mods), i) \subseteq after[roots]
  BY DEF AllStays, PoolStays
<1>1. roots = mods[i].of /\ Since(mods, Len(mods), i) \subseteq pools[roots]
  BY DEF AllStays, PoolStays
<1>2. mods[i] \in Mods /\ mods[i].kind = "roots"
  BY DEF LastOf
<1>3. roots \in PoolIds
  BY <1>1, <1>2, ModTypes DEF PoolIds
<1> QED BY <1>1, <1>3

(* With no options there is nothing to ask.                                 *)
LEMMA NoneStays == \A roots, pools : AllStays(<<>>, roots, pools)
<1>1. 1..Len(<<>>) = {}
  OBVIOUS
<1> QED BY <1>1 DEF AllStays, PoolStays

LEMMA OneModMore ==
  ASSUME NEW c \in Clients, NEW n \in Nat, client[c].tlsMods \in Seq(Mods),
         n < Len(client[c].tlsMods),
         NEW s \in Heaps, s.http[s.own].transport \in Transports,
         NEW u, Modded(c, s, u, n), NEW v, v = Mod(c, u, client[c].tlsMods[n + 1])
  PROVE  Modded(c, s, v, n + 1)
<1>1. PICK t, old, new, root, m, p :
        /\ t = s.http[s.own].transport /\ old = s.transport[t] /\ new = u.transport[t]
        /\ root = IF old.rootCAs = None THEN c ELSE old.rootCAs
        /\ m = client[c].tlsMods[n + 1]
        /\ p = IF new.rootCAs = None THEN c ELSE new.rootCAs
  OBVIOUS
<1>2. /\ u \in Heaps /\ u.own = s.own /\ u.http = s.http
      /\ \A x \in Transports : x # t => u.transport[x] = s.transport[x]
      /\ new.proxy = old.proxy
      /\ new.insecure = (old.insecure \/ Among(c, n, "insecure"))
      /\ new.certificates = old.certificates \cup IF Among(c, n, "certificate") THEN {c} ELSE {}
      /\ Among(c, n, "roots") => new.rootCAs \in Pools(c, n)
      /\ PoolStays(client[c].tlsMods, n, new.rootCAs, u.pool)
      /\ ~Among(c, n, "roots") =>
           /\ new.rootCAs = IF Among(c, n, "file") THEN root ELSE old.rootCAs
           /\ FilesIn(c, n) \subseteq u.pool[root]
      /\ \A x \in PoolIds :
           /\ s.pool[x] \subseteq u.pool[x]
           /\ u.pool[x] \subseteq s.pool[x] \cup FilesIn(c, n)
           /\ u.pool[x] # s.pool[x] => x = root \/ x \in Pools(c, n)
  BY <1>1 DEF Modded, TLSOf
<1>3. /\ v \in Heaps /\ v.own = u.own /\ v.http = u.http
      /\ \A x \in Transports : x # t => v.transport[x] = u.transport[x]
      /\ v.transport[t].proxy = new.proxy
      /\ v.transport[t].insecure = (new.insecure \/ m.kind = "insecure")
      /\ v.transport[t].certificates = new.certificates \cup IF m.kind = "certificate" THEN {c} ELSE {}
      /\ v.transport[t].rootCAs = IF m.kind = "roots" THEN m.of
                                  ELSE IF m.kind = "file" THEN p ELSE new.rootCAs
      /\ p \in PoolIds
      /\ \A x \in PoolIds : x # p => v.pool[x] = u.pool[x]
      /\ v.pool[p] = u.pool[p] \cup IF m.kind = "file" /\ m.of \notin EmptyFiles
                                    THEN {m.of} ELSE {}
  <2>0. client[c].tlsMods[n + 1] \in Mods
    OBVIOUS
  <2>1. m \in Mods /\ t \in Transports /\ t = u.http[u.own].transport
    BY <1>1, <1>2, <2>0
  <2>2. p = IF u.transport[t].rootCAs = None THEN c ELSE u.transport[t].rootCAs
    BY <1>1
  <2>3. ModEffect(c, u, m, v)
    <3>1. v = Mod(c, u, m) /\ u \in Heaps
      BY <1>1, <1>2
    <3> QED BY <2>1, <3>1, ModIs
  <2>4. /\ v \in Heaps /\ v.own = u.own /\ v.http = u.http
        /\ \A x \in Transports : x # t => v.transport[x] = u.transport[x]
        /\ v.transport[t].proxy = u.transport[t].proxy
        /\ v.transport[t].insecure = (u.transport[t].insecure \/ m.kind = "insecure")
        /\ v.transport[t].certificates =
             u.transport[t].certificates \cup IF m.kind = "certificate" THEN {c} ELSE {}
        /\ v.transport[t].rootCAs = IF m.kind = "roots" THEN m.of
                                    ELSE IF m.kind = "file" THEN p ELSE u.transport[t].rootCAs
        /\ p \in PoolIds
        /\ \A x \in PoolIds : x # p => v.pool[x] = u.pool[x]
        /\ v.pool[p] = u.pool[p] \cup IF m.kind = "file" /\ m.of \notin EmptyFiles
                                      THEN {m.of} ELSE {}
    BY <2>1, <2>2, <2>3 DEF ModEffect
  <2> QED BY <1>1, <2>4
<1>4. /\ \A kind : Among(c, n + 1, kind) <=> Among(c, n, kind) \/ m.kind = kind
      /\ Pools(c, n + 1) = Pools(c, n) \cup IF m.kind = "roots" THEN {m.of} ELSE {}
      /\ FilesIn(c, n + 1) = FilesIn(c, n) \cup
           IF m.kind = "file" /\ m.of \notin EmptyFiles THEN {m.of} ELSE {}
  BY <1>1, OneMore
<1>5. v.transport[t].insecure = (old.insecure \/ Among(c, n + 1, "insecure"))
  BY <1>2, <1>3, <1>4
<1>6. v.transport[t].certificates
        = old.certificates \cup IF Among(c, n + 1, "certificate") THEN {c} ELSE {}
  BY <1>2, <1>3, <1>4
<1>7. None \notin Pools(c, n) /\ root # None /\ root \in PoolIds
  <2>1. c # None /\ c \in PoolIds
    BY ObjectsApart DEF PoolIds
  <2>2. old \in Configs
    BY <1>1 DEF Heaps
  <2>3. root # None /\ root \in PoolIds
    BY <1>1, <2>1, <2>2 DEF Configs
  <2>4. \A i \in 1..n : client[c].tlsMods[i] \in Mods
    OBVIOUS
  <2>5. Pools(c, n) \subseteq OwnPools
    BY <2>4, ModTypes DEF Pools
  <2> QED BY <2>3, <2>5, ObjectsApart
<1>8. Among(c, n + 1, "roots") => v.transport[t].rootCAs \in Pools(c, n + 1)
  BY <1>1, <1>2, <1>3, <1>4, <1>7
<1>9. ASSUME ~Among(c, n + 1, "roots")
      PROVE  /\ v.transport[t].rootCAs = IF Among(c, n + 1, "file") THEN root ELSE old.rootCAs
             /\ FilesIn(c, n + 1) \subseteq v.pool[root]
  <2>1. ~Among(c, n, "roots") /\ m.kind # "roots"
    BY <1>4, <1>9
  <2>2. p = root
    BY <1>1, <1>2, <2>1, <1>7
  <2> QED BY <1>1, <1>2, <1>3, <1>4, <1>7, <2>1, <2>2
<1>10. ASSUME NEW x \in PoolIds
       PROVE  /\ s.pool[x] \subseteq v.pool[x]
              /\ v.pool[x] \subseteq s.pool[x] \cup FilesIn(c, n + 1)
              /\ v.pool[x] # s.pool[x] => x = root \/ x \in Pools(c, n + 1)
  <2>1. CASE x # p
    BY <1>2, <1>3, <1>4, <2>1
  <2>2. CASE x = p
    <3>1. p = root \/ p \in Pools(c, n)
      BY <1>1, <1>2, <1>7
    <3> QED BY <1>2, <1>3, <1>4, <2>2, <3>1
  <2> QED BY <2>1, <2>2
<1>11. v.own = s.own /\ v.http = s.http /\ v.transport[t].proxy = old.proxy
       /\ \A x \in Transports : x # t => v.transport[x] = s.transport[x]
  BY <1>2, <1>3
<1>12. PoolStays(client[c].tlsMods, n + 1, v.transport[t].rootCAs, v.pool)
  <2>1. /\ m.kind = "roots" => v.transport[t].rootCAs = m.of
        /\ m.kind # "roots" /\ new.rootCAs # None => v.transport[t].rootCAs = new.rootCAs
        /\ m.kind = "file" /\ new.rootCAs # None /\ m.of \notin EmptyFiles =>
             m.of \in v.pool[new.rootCAs]
        /\ new.rootCAs \in PoolIds => u.pool[new.rootCAs] \subseteq v.pool[new.rootCAs]
    BY <1>1, <1>3
  <2>2. PICK mods, roots, now, pools, after :
          /\ mods = client[c].tlsMods /\ roots = new.rootCAs /\ now = v.transport[t].rootCAs
          /\ pools = u.pool /\ after = v.pool
    OBVIOUS
  <2>3. /\ mods \in Seq(Mods) /\ n < Len(mods) /\ m = mods[n + 1]
        /\ PoolStays(mods, n, roots, pools)
    BY <1>1, <1>2, <2>2
  <2>4. /\ m.kind = "roots" => now = m.of
        /\ m.kind # "roots" /\ roots # None => now = roots
        /\ m.kind = "file" /\ roots # None /\ m.of \notin EmptyFiles => m.of \in after[roots]
        /\ roots \in PoolIds => pools[roots] \subseteq after[roots]
    BY <2>1, <2>2
  <2>5. PoolStays(mods, n + 1, now, after)
    BY <2>3, <2>4, OneStaysMore
  <2> QED BY <2>2, <2>5
<1> QED BY <1>1, <1>3, <1>5, <1>6, <1>8, <1>9, <1>10, <1>11, <1>12 DEF Modded, TLSOf

(* All of tlsMods.                                                          *)
LEMMA ModifiedIs ==
  ASSUME NEW c \in Clients, client[c].tlsMods \in Seq(Mods),
         NEW s \in Heaps, s.http[s.own].transport \in Transports
  PROVE  Modded(c, s, Modified(c, s), Len(client[c].tlsMods))
<1> DEFINE L == Len(client[c].tlsMods)
           S == {n \in 0..L : Modded(c, s, After(c, s)[n], n)}
<1>1. L \in Nat
  OBVIOUS
<1>2. /\ Modified(c, s) = After(c, s)[L] /\ After(c, s)[0] = s
      /\ \A n \in 0..(L - 1) : After(c, s)[n + 1] = Mod(c, After(c, s)[n], client[c].tlsMods[n + 1])
  BY <1>1, ModifiedIsAfter
<1>3. 0 \in S
  BY <1>1, <1>2, NoneYet
<1>4. ASSUME NEW n \in Nat, n \in S, n < L PROVE n + 1 \in S
  <2>1. n \in 0..(L - 1) /\ n + 1 \in 0..L
    BY <1>1, <1>4
  <2>2. Modded(c, s, After(c, s)[n], n)
    BY <1>4
  <2>3. Modded(c, s, After(c, s)[n + 1], n + 1)
    BY <1>2, <1>4, <2>1, <2>2, OneModMore
  <2> QED BY <2>1, <2>3
<1>5. \A n \in 0..L : n \in S
  <2> HIDE DEF S
  <2> QED BY <1>1, <1>3, <1>4, UpTo
<1> QED BY <1>1, <1>2, <1>5

(* What the prefix of all of tlsMods holds is what the client asked for.    *)
LEMMA AllOfThem ==
  ASSUME NEW c \in Clients, client[c].tlsMods \in Seq(Mods)
  PROVE  LET n == Len(client[c].tlsMods)
         IN  /\ \A kind : Among(c, n, kind) <=> Asked(c, kind)
             /\ Pools(c, n) = PoolsOf(c)
             /\ FilesIn(c, n) = FilesOf(c)
<1> DEFINE n == Len(client[c].tlsMods)
<1>1. DOMAIN client[c].tlsMods = 1..n
  OBVIOUS
<1>2. \A kind : Among(c, n, kind) <=> Asked(c, kind)
  BY <1>1 DEF Among, Asked, ModsOf
<1>3. Pools(c, n) = PoolsOf(c)
  BY <1>1 DEF Pools, PoolsOf, ModsOf
<1>4. FilesIn(c, n) = FilesOf(c)
  BY <1>1 DEF FilesIn, FilesOf, ModsOf
<1> QED BY <1>2, <1>3, <1>4

-----------------------------------------------------------------------------
(* finalizeOptions, stage by stage: whether it has made the client its own  *)
(* http.Client yet, whether it has looked for a transport, which of the     *)
(* modifications it has applied, and whether proxy and timeout are set.     *)
Own0(c)      == IF Settled(c) = Default THEN c ELSE Settled(c)
Clones(c, w) == w /\ http[Own0(c)].transport = None /\ ~replaced
Thru(c, w)   == IF Clones(c, w) THEN c ELSE http[Own0(c)].transport
Reach(c, w)  == w /\ Thru(c, w) \in Transports /\ http[Own0(c)].retries = <<>>
Given0(c, w) == IF Clones(c, w) THEN transport[Default] ELSE transport[Thru(c, w)]

StagedHTTP(c, s, w, timed) ==
  /\ \A h \in HTTPIds : h # Own0(c) => s.http[h] = http[h]
  /\ s.http[Own0(c)].transport = Thru(c, w)
  /\ s.http[Own0(c)].retries = http[Own0(c)].retries
  /\ s.http[Own0(c)].timeout = IF timed THEN c ELSE http[Own0(c)].timeout

StagedTLS(c, s, w, x, n) ==
  /\ \A t \in Transports : t # Thru(c, w) => s.transport[t] = transport[t]
  /\ ~Reach(c, w) => s.transport = transport /\ s.pool = pool
  /\ Reach(c, w) =>
       /\ s.transport[Thru(c, w)].proxy = IF x THEN c ELSE Given0(c, w).proxy
       /\ TLSOf(c, n, Given0(c, w), s.transport[Thru(c, w)], pool, s.pool)

Staged(c, s, asked, w, x, n, timed) ==
  /\ s \in Heaps /\ s.own = IF asked THEN Own0(c) ELSE Settled(c)
  /\ StagedHTTP(c, s, w, timed)
  /\ StagedTLS(c, s, w, x, n)

(* The client that is being built, in a state that the invariant allows.    *)
AtHand(c) ==
  /\ c \in Clients /\ client[c].tlsMods \in Seq(Mods)
  /\ client[c].httpClient \in HTTPClients \cup {None, Default}
  /\ http \in [HTTPIds -> HTTPRecords] /\ transport \in [Transports -> Configs]
  /\ pool \in [PoolIds -> SUBSET Certs]
  /\ http[c] = Zero /\ http[Default] = Zero
  /\ \A h \in HTTPIds : http[h].retries # <<>> => http[h].transport # None

LEMMA OwnTypes ==
  ASSUME NEW c, AtHand(c)
  PROVE  /\ Settled(c) \in HTTPClients \cup {Default} /\ Own0(c) \in HTTPClients \cup {c}
         /\ Own0(c) \in HTTPIds /\ Own0(c) # Default /\ http[Own0(c)] \in HTTPRecords
         /\ Settled(c) # None /\ http[Settled(c)] \in HTTPRecords
BY ObjectsApart DEF AtHand, Settled, Own0, HTTPIds

(* Making sure of an own http.Client. What a stage starts from: nothing is   *)
(* set in an http.Client that was not asked for.                            *)
Ahead(c, s, asked, w, x, n, timed) ==
  /\ AtHand(c) /\ Staged(c, s, asked, w, x, n, timed)
  /\ asked \in BOOLEAN /\ w \in BOOLEAN /\ x \in BOOLEAN /\ timed \in BOOLEAN
  /\ ~asked => ~w /\ ~timed
  /\ ~w => n = 0 /\ ~x

LEMMA OwnStage ==
  ASSUME NEW c, NEW asked, NEW w, NEW x, NEW timed, NEW n, NEW s,
         Ahead(c, s, asked, w, x, n, timed)
  PROVE  Staged(c, EnsureOwnHTTPClient(c, s), TRUE, w, x, n, timed)
<1>0. /\ AtHand(c) /\ Staged(c, s, asked, w, x, n, timed)
      /\ asked \in BOOLEAN
      /\ ~asked => ~w /\ ~timed
  BY DEF Ahead
<1>1. s \in Heaps /\ s.own \in {Own0(c), Settled(c)} /\ s.own # None
  BY <1>0, OwnTypes, ObjectsApart DEF Staged, AtHand
<1>2. s = [own |-> s.own, http |-> s.http, transport |-> s.transport, pool |-> s.pool]
  BY <1>1 DEF Heaps
<1>3. CASE s.own # Default
  <2>1. EnsureOwnHTTPClient(c, s) = s
    BY <1>1, <1>3 DEF EnsureOwnHTTPClient
  <2>2. s.own = Own0(c)
    BY <1>1, <1>3 DEF Own0
  <2> QED BY <1>0, <2>1, <2>2 DEF Staged
<1>4. CASE s.own = Default
  <2>1. ~asked /\ Settled(c) = Default /\ Own0(c) = c
    BY <1>0, <1>4, OwnTypes DEF Staged, Own0
  <2>2. s.http[c] = Zero
    <3>1. s.http[c] \in HTTPRecords /\ c \in HTTPIds
      BY <1>0, <1>1 DEF AtHand, Heaps, HTTPIds
    <3>2. s.http[c].transport = None /\ s.http[c].retries = <<>> /\ s.http[c].timeout = None
      <4>1. ~w /\ ~timed /\ http[c] = Zero
        BY <1>0, <2>1 DEF AtHand
      <4>2. Thru(c, w) = None
        BY <2>1, <4>1 DEF Thru, Clones, Zero
      <4> QED BY <1>0, <2>1, <4>1, <4>2 DEF Staged, StagedHTTP, Zero
    <3> QED BY <3>1, <3>2 DEF HTTPRecords, Zero
  <2>3. [s.http EXCEPT ![c] = Zero] = s.http
    BY <1>1, <2>2, HeapFields
  <2>4. PICK u : u = EnsureOwnHTTPClient(c, s)
    OBVIOUS
  <2>5. u = [own |-> c, http |-> s.http, transport |-> s.transport, pool |-> s.pool]
    BY <1>2, <1>4, <2>3, <2>4 DEF EnsureOwnHTTPClient
  <2>6. u \in Heaps
    BY <1>0, <1>1, <2>5, HeapFields DEF Heaps, AtHand, HTTPIds
  <2>7. u.own = Own0(c) /\ u.http = s.http /\ u.transport = s.transport /\ u.pool = s.pool
    BY <2>1, <2>5
  <2>8. Staged(c, u, TRUE, w, x, n, timed)
    BY <1>0, <2>6, <2>7 DEF Staged, StagedHTTP, StagedTLS
  <2> QED BY <2>4, <2>8
<1> QED BY <1>3, <1>4

(* No modification at all, and one after the other.                         *)
LEMMA NothingOf ==
  ASSUME NEW c, NEW old \in Configs, NEW before
  PROVE  TLSOf(c, 0, old, old, before, before)
<1>1. 1..0 = {}
  OBVIOUS
<1>2. /\ Pools(c, 0) = {} /\ FilesIn(c, 0) = {} /\ \A kind : ~Among(c, 0, kind)
      /\ \A roots, pools : PoolStays(client[c].tlsMods, 0, roots, pools)
  BY <1>1 DEF Pools, FilesIn, Among, PoolStays
<1>3. old.insecure \in BOOLEAN
  BY DEF Configs
<1> QED BY <1>2, <1>3 DEF TLSOf

LEMMA ThenAll ==
  ASSUME NEW c, NEW n, NEW old \in Configs, NEW mid \in Configs, NEW new,
         NEW before, NEW between, NEW after,
         TLSOf(c, 0, old, mid, before, between), TLSOf(c, n, mid, new, between, after)
  PROVE  TLSOf(c, n, old, new, before, after)
<1>1. 1..0 = {}
  OBVIOUS
<1>2. Pools(c, 0) = {} /\ FilesIn(c, 0) = {} /\ \A kind : ~Among(c, 0, kind)
  BY <1>1 DEF Pools, FilesIn, Among
<1>3. /\ mid.insecure = old.insecure /\ mid.certificates = old.certificates
      /\ mid.rootCAs = old.rootCAs
  <2>1. old.insecure \in BOOLEAN
    BY DEF Configs
  <2> QED BY <1>2, <2>1 DEF TLSOf
<1>4. \A x \in PoolIds : between[x] = before[x]
  BY <1>2 DEF TLSOf
<1> QED BY <1>3, <1>4 DEF TLSOf

(* Making sure of a transport: the clone, when there was none.              *)
LEMMA EnsureStage ==
  ASSUME NEW c, NEW asked, NEW w, NEW x, NEW timed, NEW n, NEW s,
         Ahead(c, s, asked, w, x, n, timed)
  PROVE  Staged(c, EnsureTransport(c, s), TRUE, TRUE, x, n, timed)
<1>0. AtHand(c) /\ w \in BOOLEAN /\ (~w => n = 0 /\ ~x)
  BY DEF Ahead
<1>1. PICK t : t = EnsureOwnHTTPClient(c, s)
  OBVIOUS
<1>2. Staged(c, t, TRUE, w, x, n, timed)
  BY <1>1, OwnStage
<1>3. t \in Heaps /\ t.own = Own0(c)
  BY <1>2 DEF Staged
<1>4. t.http[t.own].transport = Thru(c, w)
  BY <1>2, <1>3 DEF Staged, StagedHTTP
<1>5. CASE w
  <2>1. t.http[t.own].transport # None \/ replaced
    BY <1>0, <1>4, <1>5, ObjectsApart DEF Thru, Clones, AtHand
  <2>2. EnsureTransport(c, s) = t
    BY <1>1, <2>1 DEF EnsureTransport
  <2> QED BY <1>2, <1>5, <2>2
<1>6. CASE ~w
  <2>1. Thru(c, w) = http[Own0(c)].transport /\ ~Reach(c, w) /\ n = 0 /\ ~x
    BY <1>0, <1>6 DEF Thru, Clones, Reach
  <2>2. t.transport = transport /\ t.pool = pool
    BY <1>2, <2>1 DEF Staged, StagedTLS
  <2>3. c \in Transports /\ Default \in Transports /\ Own0(c) \in HTTPIds /\ c \in HTTPIds
    BY <1>0, OwnTypes DEF Transports, HTTPIds, AtHand
  <2>4. CASE t.http[t.own].transport # None \/ replaced
    <3>1. EnsureTransport(c, s) = t
      BY <1>1, <2>4 DEF EnsureTransport
    <3>2. ~Clones(c, TRUE) /\ Thru(c, TRUE) = Thru(c, w)
      BY <1>4, <2>1, <2>4 DEF Thru, Clones
    <3>3. StagedHTTP(c, t, TRUE, timed)
      BY <1>2, <3>2 DEF Staged, StagedHTTP
    <3>4. StagedTLS(c, t, TRUE, x, n)
      <4>1. ASSUME Reach(c, TRUE)
            PROVE  /\ t.transport[Thru(c, TRUE)].proxy = Given0(c, TRUE).proxy
                   /\ TLSOf(c, 0, Given0(c, TRUE), t.transport[Thru(c, TRUE)], pool, t.pool)
        <5>1. Given0(c, TRUE) = transport[Thru(c, TRUE)] /\ transport[Thru(c, TRUE)] \in Configs
          BY <1>0, <3>2, <4>1 DEF Given0, Reach, AtHand
        <5> QED BY <5>1, <2>2, NothingOf
      <4> QED BY <2>1, <2>2, <4>1 DEF StagedTLS
    <3> QED BY <1>3, <3>1, <3>3, <3>4 DEF Staged
  <2>5. CASE t.http[t.own].transport = None /\ ~replaced
    <3>1. PICK ht, tr, u : /\ ht = [t.http EXCEPT ![t.own] = [t.http[t.own] EXCEPT !.transport = c]]
                           /\ tr = [transport EXCEPT ![c] = transport[Default]]
                           /\ u = EnsureTransport(c, s)
      OBVIOUS
    <3>2. u = [t EXCEPT !.http = ht, !.transport = tr]
      BY <1>1, <2>2, <2>5, <3>1 DEF EnsureTransport
    <3>3. t.http \in [HTTPIds -> HTTPRecords] /\ t.http[t.own] \in HTTPRecords /\ t.own \in HTTPIds
      BY <1>3, HeapFields
    <3>4. PICK r : r = [t.http[t.own] EXCEPT !.transport = c]
      OBVIOUS
    <3>5. /\ r \in HTTPRecords /\ r.transport = c /\ r.retries = t.http[t.own].retries
          /\ r.timeout = t.http[t.own].timeout
      BY <2>3, <3>3, <3>4 DEF HTTPRecords, Trippers
    <3>6. /\ ht \in [HTTPIds -> HTTPRecords] /\ ht[t.own] = r
          /\ \A h \in HTTPIds : h # t.own => ht[h] = t.http[h]
      BY <3>1, <3>3, <3>4, <3>5
    <3>7. /\ tr \in [Transports -> Configs] /\ tr[c] = transport[Default]
          /\ \A y \in Transports : y # c => tr[y] = transport[y]
      BY <1>0, <2>3, <3>1 DEF AtHand
    <3>8. u \in Heaps /\ u.own = t.own /\ u.http = ht /\ u.transport = tr /\ u.pool = pool
      <4>1. u = [own |-> t.own, http |-> ht, transport |-> tr, pool |-> t.pool]
        BY <1>3, <3>2 DEF Heaps
      <4>2. t.pool \in [PoolIds -> SUBSET Certs]
        BY <1>3, HeapFields
      <4> QED BY <2>2, <3>3, <3>6, <3>7, <4>1, <4>2, HeapIs
    <3>9. Clones(c, TRUE) /\ Thru(c, TRUE) = c /\ Given0(c, TRUE) = transport[Default]
      BY <1>4, <2>1, <2>5 DEF Thru, Clones, Given0
    <3>10. Reach(c, TRUE)
      BY <1>0, <2>3, <3>9 DEF Reach, Clones, AtHand
    <3>11. StagedHTTP(c, u, TRUE, timed)
      <4>1. /\ \A h \in HTTPIds : h # Own0(c) => t.http[h] = http[h]
            /\ t.http[Own0(c)].retries = http[Own0(c)].retries
            /\ t.http[Own0(c)].timeout = IF timed THEN c ELSE http[Own0(c)].timeout
        BY <1>2 DEF Staged, StagedHTTP
      <4>2. u.http = ht /\ ht[Own0(c)] = r
        BY <1>3, <3>6, <3>8
      <4>3. r.transport = Thru(c, TRUE)
        BY <3>5, <3>9
      <4> QED BY <1>3, <3>5, <3>6, <4>1, <4>2, <4>3 DEF StagedHTTP
    <3>12. StagedTLS(c, u, TRUE, x, n)
      <4>1. TLSOf(c, 0, transport[Default], u.transport[c], pool, u.pool)
        <5>1. transport[Default] \in Configs
          BY <1>0, <2>3 DEF AtHand
        <5> QED BY <5>1, <3>7, <3>8, NothingOf
      <4> QED BY <2>1, <3>7, <3>8, <3>9, <3>10, <4>1 DEF StagedTLS
    <3> QED BY <1>3, <3>1, <3>8, <3>11, <3>12 DEF Staged
  <2> QED BY <2>4, <2>5
<1> QED BY <1>5, <1>6

(* What the type assertion finds at a stage.                                *)
LEMMA ReachedStage ==
  ASSUME NEW c, AtHand(c), NEW x, NEW timed, NEW n, NEW s, Staged(c, s, TRUE, TRUE, x, n, timed)
  PROVE  /\ s \in Heaps /\ s.own = Own0(c) /\ s.http[s.own].transport = Thru(c, TRUE)
         /\ IsTransport(s) <=> Reach(c, TRUE)
BY DEF Staged, StagedHTTP, IsTransport, Reach

(* The TLS options.                                                         *)
LEMMA TLSStage ==
  ASSUME NEW c, AtHand(c), NEW s, Staged(c, s, FALSE, FALSE, FALSE, 0, FALSE),
         NEW some \in BOOLEAN, some <=> client[c].tlsMods # <<>>
  PROVE  Staged(c, ApplyTLS(c, s), some, some, FALSE, Len(client[c].tlsMods), FALSE)
<1>1. CASE client[c].tlsMods = <<>>
  <2>1. Len(client[c].tlsMods) = 0 /\ some = FALSE
    BY <1>1
  <2>2. ApplyTLS(c, s) = s
    BY <1>1 DEF ApplyTLS
  <2> QED BY <2>1, <2>2
<1>2. CASE client[c].tlsMods # <<>>
  <2>1. PICK t, n : t = EnsureTransport(c, s) /\ n = Len(client[c].tlsMods)
    OBVIOUS
  <2>2. Staged(c, t, TRUE, TRUE, FALSE, 0, FALSE)
    <3>1. Ahead(c, s, FALSE, FALSE, FALSE, 0, FALSE)
      BY DEF Ahead
    <3> QED BY <2>1, <3>1, EnsureStage
  <2>3. /\ t \in Heaps /\ t.own = Own0(c) /\ t.http[t.own].transport = Thru(c, TRUE)
        /\ IsTransport(t) <=> Reach(c, TRUE)
    BY <2>2, ReachedStage
  <2>4. PICK u : u = ApplyTLS(c, s)
    OBVIOUS
  <2>5. Staged(c, u, TRUE, TRUE, FALSE, n, FALSE)
    <3>1. CASE ~IsTransport(t)
      <4>1. u = t
        BY <1>2, <2>1, <2>4, <3>1 DEF ApplyTLS
      <4>2. StagedTLS(c, t, TRUE, FALSE, n)
        BY <2>2, <2>3, <3>1 DEF Staged, StagedTLS
      <4> QED BY <2>2, <4>1, <4>2 DEF Staged
    <3>2. CASE IsTransport(t)
      <4>1. u = Modified(c, t)
        BY <1>2, <2>1, <2>4, <3>2 DEF ApplyTLS
      <4>2. Reach(c, TRUE) /\ Thru(c, TRUE) \in Transports
        BY <2>3, <3>2 DEF Reach
      <4>3. Modded(c, t, u, n)
        BY <2>1, <2>3, <4>1, <4>2, ModifiedIs DEF AtHand
      <4>4. /\ u \in Heaps /\ u.own = t.own /\ u.http = t.http
            /\ \A y \in Transports : y # Thru(c, TRUE) => u.transport[y] = t.transport[y]
            /\ u.transport[Thru(c, TRUE)].proxy = t.transport[Thru(c, TRUE)].proxy
            /\ TLSOf(c, n, t.transport[Thru(c, TRUE)], u.transport[Thru(c, TRUE)], t.pool, u.pool)
        BY <2>3, <4>3 DEF Modded
      <4>5. StagedHTTP(c, u, TRUE, FALSE)
        BY <2>2, <4>4 DEF Staged, StagedHTTP
      <4>6. /\ t.transport[Thru(c, TRUE)].proxy = Given0(c, TRUE).proxy
            /\ TLSOf(c, 0, Given0(c, TRUE), t.transport[Thru(c, TRUE)], pool, t.pool)
            /\ \A y \in Transports : y # Thru(c, TRUE) => t.transport[y] = transport[y]
        BY <2>2, <4>2 DEF Staged, StagedTLS
      <4>7. Given0(c, TRUE) \in Configs /\ t.transport[Thru(c, TRUE)] \in Configs
        <5>1. Default \in Transports /\ transport \in [Transports -> Configs]
          BY DEF Transports, AtHand
        <5>2. t.transport \in [Transports -> Configs]
          BY <2>3, HeapFields
        <5>3. Given0(c, TRUE) \in {transport[Default], transport[Thru(c, TRUE)]}
          BY DEF Given0
        <5> QED BY <4>2, <5>1, <5>2, <5>3
      <4>8. TLSOf(c, n, Given0(c, TRUE), u.transport[Thru(c, TRUE)], pool, u.pool)
        <5>1. TLSOf(c, 0, Given0(c, TRUE), t.transport[Thru(c, TRUE)], pool, t.pool)
          BY <4>6
        <5>2. TLSOf(c, n, t.transport[Thru(c, TRUE)], u.transport[Thru(c, TRUE)], t.pool, u.pool)
          BY <4>4
        <5>3. \A old \in Configs, mid \in Configs : \A new, before, between, after :
                TLSOf(c, 0, old, mid, before, between) /\ TLSOf(c, n, mid, new, between, after)
                  => TLSOf(c, n, old, new, before, after)
          BY ThenAll
        <5> QED BY <4>7, <5>1, <5>2, <5>3
      <4>9. StagedTLS(c, u, TRUE, FALSE, n)
        BY <4>2, <4>4, <4>6, <4>8 DEF StagedTLS
      <4> QED BY <2>3, <4>4, <4>5, <4>9 DEF Staged
    <3> QED BY <3>1, <3>2
  <2>6. some = TRUE
    BY <1>2
  <2> QED BY <2>1, <2>4, <2>5, <2>6
<1> QED BY <1>1, <1>2

(* The timeout.                                                             *)
LEMMA TimeoutStage ==
  ASSUME NEW c, NEW w, NEW n, NEW s, Ahead(c, s, w, w, FALSE, n, FALSE),
         client[c].timeout \in BOOLEAN,
         NEW asked \in BOOLEAN, asked <=> w \/ client[c].timeout
  PROVE  Staged(c, ApplyTimeout(c, s), asked, w, FALSE, n, client[c].timeout)
<1>0. AtHand(c) /\ Staged(c, s, w, w, FALSE, n, FALSE) /\ w \in BOOLEAN
  BY DEF Ahead
<1>1. CASE ~client[c].timeout
  <2>1. ApplyTimeout(c, s) = s /\ client[c].timeout = FALSE /\ asked = w
    BY <1>0, <1>1 DEF ApplyTimeout
  <2> QED BY <1>0, <2>1
<1>2. CASE client[c].timeout
  <2>1. PICK t : t = EnsureOwnHTTPClient(c, s)
    OBVIOUS
  <2>2. Staged(c, t, TRUE, w, FALSE, n, FALSE)
    BY <2>1, OwnStage
  <2>3. /\ t \in Heaps /\ t.own = Own0(c) /\ Own0(c) \in HTTPIds
        /\ t.http \in [HTTPIds -> HTTPRecords] /\ t.http[Own0(c)] \in HTTPRecords
    <3>1. t \in Heaps /\ t.own = Own0(c)
      BY <2>2 DEF Staged
    <3> QED BY <1>0, <3>1, HeapFields, OwnTypes
  <2>4. PICK r, ht, u : /\ r = [t.http[Own0(c)] EXCEPT !.timeout = c]
                        /\ ht = [t.http EXCEPT ![Own0(c)] = r]
                        /\ u = ApplyTimeout(c, s)
    OBVIOUS
  <2>5. r \in HTTPRecords /\ r.timeout = c /\ r.transport = t.http[Own0(c)].transport
        /\ r.retries = t.http[Own0(c)].retries
    BY <1>0, <2>3, <2>4 DEF HTTPRecords, AtHand
  <2>6. ht \in [HTTPIds -> HTTPRecords] /\ ht[Own0(c)] = r
        /\ \A h \in HTTPIds : h # Own0(c) => ht[h] = t.http[h]
    BY <2>3, <2>4, <2>5
  <2>7. u = [t EXCEPT !.http = ht]
    BY <1>2, <2>1, <2>3, <2>4 DEF ApplyTimeout
  <2>8. u \in Heaps /\ u.own = t.own /\ u.http = ht /\ u.transport = t.transport /\ u.pool = t.pool
    <3>1. u = [own |-> t.own, http |-> ht, transport |-> t.transport, pool |-> t.pool]
      BY <2>3, <2>7 DEF Heaps
    <3>2. t.own \in HTTPIds /\ t.transport \in [Transports -> Configs]
          /\ t.pool \in [PoolIds -> SUBSET Certs]
      BY <2>3, HeapFields
    <3> QED BY <2>6, <3>1, <3>2, HeapIs
  <2>9. StagedHTTP(c, u, w, TRUE)
    BY <2>2, <2>5, <2>6, <2>8 DEF Staged, StagedHTTP
  <2>10. StagedTLS(c, u, w, FALSE, n)
    BY <2>2, <2>8 DEF Staged, StagedTLS
  <2>11. Staged(c, u, TRUE, w, FALSE, n, TRUE)
    BY <2>3, <2>8, <2>9, <2>10 DEF Staged
  <2>12. client[c].timeout = TRUE /\ asked = TRUE
    BY <1>2
  <2> QED BY <2>4, <2>11, <2>12
<1> QED BY <1>1, <1>2

(* The proxy.                                                               *)
ProxyAhead(c, s, asked, w, n, timed, asks, wants) ==
  /\ Ahead(c, s, asked, w, FALSE, n, timed) /\ client[c].proxyFunc \in BOOLEAN
  /\ asks \in BOOLEAN /\ (asks <=> asked \/ client[c].proxyFunc)
  /\ wants \in BOOLEAN /\ (wants <=> w \/ client[c].proxyFunc)

LEMMA ProxyStage ==
  ASSUME NEW c, NEW s, NEW asked, NEW w, NEW n, NEW timed, NEW asks, NEW wants,
         ProxyAhead(c, s, asked, w, n, timed, asks, wants)
  PROVE  Staged(c, ApplyProxy(c, s), asks, wants, client[c].proxyFunc, n, timed)
<1>0. /\ AtHand(c) /\ asked \in BOOLEAN /\ w \in BOOLEAN /\ timed \in BOOLEAN
      /\ client[c].proxyFunc \in BOOLEAN
      /\ Staged(c, s, asked, w, FALSE, n, timed)
      /\ (~asked => ~w /\ ~timed) /\ (~w => n = 0)
      /\ asks \in BOOLEAN /\ (asks <=> asked \/ client[c].proxyFunc)
      /\ wants \in BOOLEAN /\ (wants <=> w \/ client[c].proxyFunc)
  BY DEF ProxyAhead, Ahead
<1>1. CASE ~client[c].proxyFunc
  <2>1. /\ ApplyProxy(c, s) = s /\ client[c].proxyFunc = FALSE
        /\ wants = w /\ asks = asked
    BY <1>0, <1>1 DEF ApplyProxy
  <2> QED BY <1>0, <2>1
<1>2. CASE client[c].proxyFunc
  <2>1. PICK t, u : t = EnsureTransport(c, s) /\ u = ApplyProxy(c, s)
    OBVIOUS
  <2>2. Staged(c, t, TRUE, TRUE, FALSE, n, timed)
    <3>1. Ahead(c, s, asked, w, FALSE, n, timed)
      BY DEF ProxyAhead
    <3> QED BY <2>1, <3>1, EnsureStage
  <2>3. /\ t \in Heaps /\ t.own = Own0(c) /\ t.http[t.own].transport = Thru(c, TRUE)
        /\ IsTransport(t) <=> Reach(c, TRUE)
    BY <1>0, <2>2, ReachedStage
  <2>4. Staged(c, u, TRUE, TRUE, TRUE, n, timed)
    <3>1. CASE ~IsTransport(t)
      <4>1. u = t
        BY <1>2, <2>1, <3>1 DEF ApplyProxy
      <4>2. StagedTLS(c, t, TRUE, TRUE, n)
        BY <2>2, <2>3, <3>1 DEF Staged, StagedTLS
      <4> QED BY <2>2, <4>1, <4>2 DEF Staged
    <3>2. CASE IsTransport(t)
      <4>1. PICK cfg, tr : /\ cfg = [t.transport[Thru(c, TRUE)] EXCEPT !.proxy = c]
                           /\ tr = [t.transport EXCEPT ![Thru(c, TRUE)] = cfg]
        OBVIOUS
      <4>2. u = [t EXCEPT !.transport = tr]
        BY <1>2, <2>1, <2>3, <3>2, <4>1 DEF ApplyProxy
      <4>3. Reach(c, TRUE) /\ Thru(c, TRUE) \in Transports
        BY <2>3, <3>2 DEF Reach
      <4>4. t.transport \in [Transports -> Configs] /\ t.transport[Thru(c, TRUE)] \in Configs
        BY <2>3, <4>3, HeapFields
      <4>5. /\ cfg \in Configs /\ cfg.proxy = c
            /\ cfg.insecure = t.transport[Thru(c, TRUE)].insecure
            /\ cfg.certificates = t.transport[Thru(c, TRUE)].certificates
            /\ cfg.rootCAs = t.transport[Thru(c, TRUE)].rootCAs
        BY <1>0, <4>1, <4>4 DEF Configs, AtHand
      <4>6. /\ tr \in [Transports -> Configs] /\ tr[Thru(c, TRUE)] = cfg
            /\ \A y \in Transports : y # Thru(c, TRUE) => tr[y] = t.transport[y]
        BY <4>1, <4>3, <4>4, <4>5
      <4>7. /\ u \in Heaps /\ u.own = t.own /\ u.http = t.http /\ u.transport = tr
            /\ u.pool = t.pool
        <5>1. u = [own |-> t.own, http |-> t.http, transport |-> tr, pool |-> t.pool]
          BY <2>3, <4>2 DEF Heaps
        <5>2. t.own \in HTTPIds /\ t.http \in [HTTPIds -> HTTPRecords]
              /\ t.pool \in [PoolIds -> SUBSET Certs]
          BY <2>3, HeapFields
        <5> QED BY <4>6, <5>1, <5>2, HeapIs
      <4>8. StagedHTTP(c, u, TRUE, timed)
        BY <2>2, <4>7 DEF Staged, StagedHTTP
      <4>9. TLSOf(c, n, Given0(c, TRUE), u.transport[Thru(c, TRUE)], pool, u.pool)
        <5>1. TLSOf(c, n, Given0(c, TRUE), t.transport[Thru(c, TRUE)], pool, t.pool)
          BY <2>2, <4>3 DEF Staged, StagedTLS
        <5> QED BY <4>5, <4>6, <4>7, <5>1 DEF TLSOf
      <4>10. \A y \in Transports : y # Thru(c, TRUE) => t.transport[y] = transport[y]
        BY <2>2 DEF Staged, StagedTLS
      <4>11. StagedTLS(c, u, TRUE, TRUE, n)
        BY <4>3, <4>5, <4>6, <4>7, <4>9, <4>10 DEF StagedTLS
      <4> QED BY <2>3, <4>7, <4>8, <4>11 DEF Staged
    <3> QED BY <3>1, <3>2
  <2>5. client[c].proxyFunc = TRUE /\ wants = TRUE /\ asks = TRUE
    BY <1>0, <1>2
  <2> QED BY <2>1, <2>4, <2>5
<1> QED BY <1>1, <1>2

(* What the options of a client ask finalizeOptions for: a transport, an    *)
(* http.Client.                                                             *)
Wants(c)  == client[c].tlsMods # <<>> \/ client[c].proxyFunc
Needs(c)  == Wants(c) \/ client[c].timeout \/ client[c].retryPolicy

(* What finalizeOptions has done, all stages together.                      *)
Finalized(c) ==
  /\ client' = [client EXCEPT ![c].stage = "built",
                              ![c].httpClient = IF Needs(c) THEN Own0(c) ELSE Settled(c)]
  /\ building = c /\ building' = None /\ replaced' = replaced
  /\ http' \in [HTTPIds -> HTTPRecords] /\ transport' \in [Transports -> Configs]
  /\ pool' \in [PoolIds -> SUBSET Certs]
  /\ \A h \in HTTPIds : h # Own0(c) => http'[h] = http[h]
  /\ http'[Own0(c)].transport = IF client[c].retryPolicy /\ Thru(c, Wants(c)) = None
                                THEN DefaultTransport ELSE Thru(c, Wants(c))
  /\ http'[Own0(c)].retries =
       (IF client[c].retryPolicy THEN <<c>> ELSE <<>>) \o http[Own0(c)].retries
  /\ http'[Own0(c)].timeout = IF client[c].timeout THEN c ELSE http[Own0(c)].timeout
  /\ \A t \in Transports : t # Thru(c, Wants(c)) => transport'[t] = transport[t]
  /\ ~Reach(c, Wants(c)) => transport' = transport /\ pool' = pool
  /\ Reach(c, Wants(c)) =>
       /\ transport'[Thru(c, Wants(c))].proxy =
            IF client[c].proxyFunc THEN c ELSE Given0(c, Wants(c)).proxy
       /\ TLSOf(c, Len(client[c].tlsMods), Given0(c, Wants(c)), transport'[Thru(c, Wants(c))],
                pool, pool')

(* What the last stage leaves for finalizeOptions to store.                 *)
Outcome(c, s, w, n) ==
  /\ s.own = IF Needs(c) THEN Own0(c) ELSE Settled(c)
  /\ s.http \in [HTTPIds -> HTTPRecords] /\ s.transport \in [Transports -> Configs]
  /\ s.pool \in [PoolIds -> SUBSET Certs]
  /\ \A h \in HTTPIds : h # Own0(c) => s.http[h] = http[h]
  /\ s.http[Own0(c)].transport = IF client[c].retryPolicy /\ Thru(c, w) = None
                                 THEN DefaultTransport ELSE Thru(c, w)
  /\ s.http[Own0(c)].retries =
       (IF client[c].retryPolicy THEN <<c>> ELSE <<>>) \o http[Own0(c)].retries
  /\ s.http[Own0(c)].timeout = IF client[c].timeout THEN c ELSE http[Own0(c)].timeout
  /\ StagedTLS(c, s, w, client[c].proxyFunc, n)

LEMMA FinalizeOptionsDoes ==
  ASSUME NEW c, AtHand(c), FinalizeOptions(c), client[c].timeout \in BOOLEAN,
         client[c].proxyFunc \in BOOLEAN, client[c].retryPolicy \in BOOLEAN
  PROVE  Finalized(c)
<1>1. PICK n, s0, s1, s2, s3, s4 :
        /\ n = Len(client[c].tlsMods)
        /\ s0 = [own |-> Settled(c), http |-> http, transport |-> transport, pool |-> pool]
        /\ s1 = ApplyTLS(c, s0) /\ s2 = ApplyTimeout(c, s1) /\ s3 = ApplyProxy(c, s2)
        /\ s4 = InstallRetryWrapper(c, s3)
  OBVIOUS
<1>2. /\ building = c /\ client' = [client EXCEPT ![c].stage = "built", ![c].httpClient = s4.own]
      /\ building' = None /\ replaced' = replaced
      /\ http' = s4.http /\ transport' = s4.transport /\ pool' = s4.pool
  BY <1>1 DEF FinalizeOptions
<1>0. PICK w1 \in BOOLEAN, w \in BOOLEAN, asked1 \in BOOLEAN, asked \in BOOLEAN :
        /\ w1 <=> client[c].tlsMods # <<>>
        /\ w <=> w1 \/ client[c].proxyFunc
        /\ asked1 <=> w1 \/ client[c].timeout
        /\ asked <=> asked1 \/ client[c].proxyFunc
  OBVIOUS
<1>3. s0 \in Heaps /\ Staged(c, s0, FALSE, FALSE, FALSE, 0, FALSE)
  <2>1. s0 \in Heaps /\ s0.own = Settled(c) /\ s0.http = http /\ s0.transport = transport
        /\ s0.pool = pool
    <3>1. Settled(c) \in HTTPIds
      BY OwnTypes DEF HTTPIds
    <3> QED BY <1>1, <3>1, HeapIs DEF AtHand
  <2>2. ~Clones(c, FALSE) /\ Thru(c, FALSE) = http[Own0(c)].transport /\ ~Reach(c, FALSE)
    BY DEF Clones, Thru, Reach
  <2> QED BY <2>1, <2>2 DEF Staged, StagedHTTP, StagedTLS
<1>4. Staged(c, s1, w1, w1, FALSE, n, FALSE)
  BY <1>0, <1>1, <1>3, TLSStage
<1>5. Staged(c, s2, asked1, w1, FALSE, n, client[c].timeout)
  <2>1. ~w1 => n = 0
    BY <1>0, <1>1
  <2>2. Ahead(c, s1, w1, w1, FALSE, n, FALSE)
    BY <1>4, <2>1 DEF Ahead
  <2> QED BY <1>0, <1>1, <2>2, TimeoutStage
<1>6. Staged(c, s3, asked, w, client[c].proxyFunc, n, client[c].timeout)
  <2>1. ~w1 => n = 0
    BY <1>0, <1>1
  <2>2. ~asked1 => ~w1 /\ ~client[c].timeout
    BY <1>0
  <2>3. asked <=> asked1 \/ client[c].proxyFunc
    BY <1>0
  <2>4. w <=> w1 \/ client[c].proxyFunc
    BY <1>0
  <2>5. Staged(c, ApplyProxy(c, s2), asked, w, client[c].proxyFunc, n, client[c].timeout)
    <3>1. ProxyAhead(c, s2, asked1, w1, n, client[c].timeout, asked, w)
      <4>1. Ahead(c, s2, asked1, w1, FALSE, n, client[c].timeout)
        BY <1>5, <2>1, <2>2 DEF Ahead
      <4> QED BY <2>3, <2>4, <4>1 DEF ProxyAhead
    <3> QED BY <3>1, ProxyStage
  <2>6. s3 = ApplyProxy(c, s2)
    BY <1>1
  <2> QED BY ONLY <2>5, <2>6
<1>7. /\ w = Wants(c)
      /\ asked \/ client[c].retryPolicy <=> Needs(c)
      /\ ~asked => ~w /\ ~client[c].timeout /\ ~client[c].proxyFunc
  BY <1>0 DEF Wants, Needs
<1>8. StagedTLS(c, s3, w, client[c].proxyFunc, n)
  BY <1>6 DEF Staged
<1>9. ASSUME ~client[c].retryPolicy PROVE Outcome(c, s4, w, n)
  <2>1. s4 = s3
    BY <1>1, <1>9 DEF InstallRetryWrapper
  <2>2. s4.own = IF Needs(c) THEN Own0(c) ELSE Settled(c)
    BY <1>6, <1>7, <1>9, <2>1 DEF Staged
  <2>3. s4 \in Heaps /\ StagedHTTP(c, s4, w, client[c].timeout)
    BY <1>6, <2>1 DEF Staged
  <2>4. /\ s4.http \in [HTTPIds -> HTTPRecords] /\ s4.transport \in [Transports -> Configs]
        /\ s4.pool \in [PoolIds -> SUBSET Certs]
    BY <2>3, HeapFields
  <2>5. <<>> \o http[Own0(c)].retries = http[Own0(c)].retries
    BY OwnTypes DEF HTTPRecords
  <2>6. /\ \A h \in HTTPIds : h # Own0(c) => s4.http[h] = http[h]
        /\ s4.http[Own0(c)].transport = Thru(c, w)
        /\ s4.http[Own0(c)].retries = <<>> \o http[Own0(c)].retries
        /\ s4.http[Own0(c)].timeout = IF client[c].timeout THEN c ELSE http[Own0(c)].timeout
    BY <2>3, <2>5 DEF StagedHTTP
  <2>7. StagedTLS(c, s4, w, client[c].proxyFunc, n)
    BY <1>8, <2>1
  <2> QED BY <1>9, <2>2, <2>4, <2>6, <2>7 DEF Outcome
<1>10. ASSUME client[c].retryPolicy PROVE Outcome(c, s4, w, n)
  <2>1. PICK t : t = EnsureOwnHTTPClient(c, s3)
    OBVIOUS
  <2>2. Staged(c, t, TRUE, w, client[c].proxyFunc, n, client[c].timeout)
    <3>1. ~w => n = 0 /\ ~client[c].proxyFunc
      BY <1>0, <1>1
    <3>2. Ahead(c, s3, asked, w, client[c].proxyFunc, n, client[c].timeout)
      BY <1>6, <1>7, <3>1 DEF Ahead
    <3> QED BY <2>1, <3>2, OwnStage
  <2>3. /\ t \in Heaps /\ t.own = Own0(c) /\ Own0(c) \in HTTPIds
        /\ t.http \in [HTTPIds -> HTTPRecords] /\ t.http[Own0(c)] \in HTTPRecords
    <3>1. t \in Heaps /\ t.own = Own0(c)
      BY <2>2 DEF Staged
    <3> QED BY <3>1, HeapFields, OwnTypes
  <2>4. PICK r, ht : /\ r = [t.http[Own0(c)] EXCEPT !.transport = Carrier(t.http[Own0(c)]),
                                                    !.retries = <<c>> \o @]
                     /\ ht = [t.http EXCEPT ![Own0(c)] = r]
    OBVIOUS
  <2>5. /\ r \in HTTPRecords /\ r.timeout = t.http[Own0(c)].timeout
        /\ r.transport = Carrier(t.http[Own0(c)])
        /\ r.retries = <<c>> \o t.http[Own0(c)].retries
    <3>1. Carrier(t.http[Own0(c)]) \in Trippers
      BY <2>3 DEF Carrier, DefaultTransport, HTTPRecords, Trippers, Transports
    <3>2. <<c>> \o t.http[Own0(c)].retries \in Seq(Clients)
      BY <2>3 DEF HTTPRecords, AtHand
    <3> QED BY <2>3, <2>4, <3>1, <3>2 DEF HTTPRecords
  <2>6. ht \in [HTTPIds -> HTTPRecords] /\ ht[Own0(c)] = r
        /\ \A h \in HTTPIds : h # Own0(c) => ht[h] = t.http[h]
    BY <2>3, <2>4, <2>5
  <2>7. s4 = [t EXCEPT !.http = ht]
    <3>1. s4 = [t EXCEPT !.http[Own0(c)].transport = Carrier(t.http[Own0(c)]),
                         !.http[Own0(c)].retries = <<c>> \o @]
      BY <1>1, <1>10, <2>1, <2>3 DEF InstallRetryWrapper
    <3> QED BY <2>3, <2>4, <3>1 DEF Heaps, HTTPRecords
  <2>8. /\ s4 \in Heaps /\ s4.own = t.own /\ s4.http = ht /\ s4.transport = t.transport
        /\ s4.pool = t.pool
    <3>1. s4 = [own |-> t.own, http |-> ht, transport |-> t.transport, pool |-> t.pool]
      BY <2>3, <2>7 DEF Heaps
    <3>2. t.own \in HTTPIds /\ t.transport \in [Transports -> Configs]
          /\ t.pool \in [PoolIds -> SUBSET Certs]
      BY <2>3, HeapFields
    <3> QED BY <2>6, <3>1, <3>2, HeapIs
  <2>9. s4.own = IF Needs(c) THEN Own0(c) ELSE Settled(c)
    BY <1>7, <1>10, <2>3, <2>8
  <2>10. StagedHTTP(c, t, w, client[c].timeout) /\ StagedTLS(c, t, w, client[c].proxyFunc, n)
    BY <2>2 DEF Staged
  <2>11. /\ s4.http \in [HTTPIds -> HTTPRecords] /\ s4.transport \in [Transports -> Configs]
         /\ s4.pool \in [PoolIds -> SUBSET Certs]
    BY <2>8, HeapFields
  <2>12. /\ \A h \in HTTPIds : h # Own0(c) => s4.http[h] = http[h]
         /\ s4.http[Own0(c)].transport =
              IF Thru(c, w) = None THEN DefaultTransport ELSE Thru(c, w)
         /\ s4.http[Own0(c)].retries = <<c>> \o http[Own0(c)].retries
         /\ s4.http[Own0(c)].timeout =
              IF client[c].timeout THEN c ELSE http[Own0(c)].timeout
    BY <2>5, <2>6, <2>8, <2>10 DEF StagedHTTP, Carrier
  <2>13. StagedTLS(c, s4, w, client[c].proxyFunc, n)
    BY <2>8, <2>10 DEF StagedTLS
  <2> QED BY <1>10, <2>9, <2>11, <2>12, <2>13 DEF Outcome
<1>11. Outcome(c, s4, Wants(c), Len(client[c].tlsMods))
  <2>1. Outcome(c, s4, w, n)
    BY <1>9, <1>10
  <2>2. w = Wants(c) /\ n = Len(client[c].tlsMods)
    BY <1>1, <1>7
  <2> QED BY <2>1, <2>2
<1> QED BY <1>2, <1>11 DEF Finalized, Outcome, StagedTLS

-----------------------------------------------------------------------------
(* The invariant, from the start.                                           *)
LEMMA Types ==
  ASSUME TypeOK
  PROVE  /\ client \in [Clients -> ClientRecords]
         /\ building \in Clients \cup {None}
         /\ http \in [HTTPIds -> HTTPRecords]
         /\ transport \in [Transports -> Configs]
         /\ pool \in [PoolIds -> SUBSET Certs]
         /\ \A h \in HTTPIds : http[h].retries # <<>> => http[h].transport # None
         /\ \A c \in Clients : ~Built(c) => http[c] = Zero /\ transport[c] = Plain /\ pool[c] = {}
<1>1. DOMAIN http = HTTPIds
  BY DEF TypeOK, HTTPIds
<1> QED BY <1>1 DEF TypeOK, ClientRecords, HTTPIds, HTTPRecords, Trippers, Configs, Certs

LEMMA TypesGive ==
  ASSUME /\ client \in [Clients -> ClientRecords]
         /\ building \in Clients \cup {None}
         /\ http \in [HTTPIds -> HTTPRecords]
         /\ transport \in [Transports -> Configs]
         /\ pool \in [PoolIds -> SUBSET Certs]
         /\ \A h \in HTTPIds : http[h].retries # <<>> => http[h].transport # None
         /\ \A c \in Clients : ~Built(c) => http[c] = Zero /\ transport[c] = Plain /\ pool[c] = {}
  PROVE  TypeOK
<1>1. DOMAIN http = HTTPIds
  OBVIOUS
<1> QED BY <1>1 DEF TypeOK, ClientRecords, HTTPIds, HTTPRecords, Trippers, Configs, Certs

LEMMA AbsentIs ==
  /\ Absent \in ClientRecords /\ Absent.stage = "absent" /\ Absent.httpClient = None
  /\ Zero \in HTTPRecords /\ Zero.transport = None /\ Zero.retries = <<>> /\ Zero.timeout = None
  /\ Plain \in Configs /\ Plain.rootCAs = None
  /\ [Plain EXCEPT !.rootCAs = Default] \in Configs
<1>1. Absent \in ClientRecords /\ Absent.stage = "absent" /\ Absent.httpClient = None
  <2>1. <<>> \in Seq(Mods)
    OBVIOUS
  <2> QED BY <2>1 DEF Absent, ClientRecords
<1>2. Zero \in HTTPRecords /\ Zero.transport = None /\ Zero.retries = <<>> /\ Zero.timeout = None
  <2>1. <<>> \in Seq(Clients)
    OBVIOUS
  <2> QED BY <2>1 DEF Zero, HTTPRecords, Trippers
<1>3. Plain \in Configs /\ Plain.rootCAs = None
  BY DEF Plain, Configs
<1>4. [Plain EXCEPT !.rootCAs = Default] \in Configs
  BY <1>3 DEF Configs, PoolIds
<1> QED BY <1>1, <1>2, <1>3, <1>4

LEMMA InitInv == Init => IndInv
<1> SUFFICES ASSUME Init PROVE IndInv
  OBVIOUS
<1>1. PICK given \in [HTTPClients -> OwnTransports \cup {None, Default, Custom}],
           roots \in {None, Default} :
        /\ http = [h \in HTTPClients \cup Clients \cup {Default} |->
                     IF h \in HTTPClients THEN [Zero EXCEPT !.transport = given[h]] ELSE Zero]
        /\ transport = [[t \in Transports |-> Plain] EXCEPT ![Default].rootCAs = roots]
  BY DEF Init
<1>2. /\ client = [c \in Clients |-> Absent] /\ building = None
      /\ pool = [p \in PoolIds |-> IF p \in Clients THEN {} ELSE {p}]
  BY DEF Init
<1>3. \A c \in Clients : client[c] = Absent /\ ~Built(c) /\ c # None
  BY <1>2, AbsentIs, ObjectsApart DEF Built
<1>4. \A h \in HTTPIds : /\ h \notin HTTPClients => http[h] = Zero
                         /\ h \in HTTPClients => http[h] = [Zero EXCEPT !.transport = given[h]]
  BY <1>1 DEF HTTPIds
<1>5. ASSUME NEW h \in HTTPClients
      PROVE  /\ http[h] \in HTTPRecords /\ http[h].retries = <<>> /\ http[h].timeout = None
             /\ http[h].transport \in OwnTransports \cup {None, Default, Custom}
  <2>1. given[h] \in OwnTransports \cup {None, Default, Custom} /\ given[h] \in Trippers
    BY DEF Trippers, Transports
  <2>2. http[h] = [Zero EXCEPT !.transport = given[h]]
    BY <1>4 DEF HTTPIds
  <2>3. Zero \in HTTPRecords /\ Zero.retries = <<>> /\ Zero.timeout = None
    BY AbsentIs
  <2> QED BY <2>1, <2>2, <2>3 DEF HTTPRecords
<1>6. http \in [HTTPIds -> HTTPRecords]
  <2>1. \A h \in HTTPIds : http[h] \in HTTPRecords
    BY <1>4, <1>5, AbsentIs
  <2>2. http = [h \in HTTPIds |-> http[h]]
    BY <1>1 DEF HTTPIds
  <2> QED BY <2>1, <2>2
<1>7. /\ Default \in Transports /\ \A c \in Clients : c \in Transports /\ c # Default
      /\ \A t \in OwnTransports : t \in Transports /\ t # Default
  BY ObjectsApart DEF Transports
<1>8. /\ \A t \in Transports : t # Default => transport[t] = Plain
      /\ transport[Default] = [Plain EXCEPT !.rootCAs = roots]
      /\ transport = [t \in Transports |-> transport[t]]
  BY <1>1, <1>7
<1>9. /\ transport[Default] \in {Plain, [Plain EXCEPT !.rootCAs = Default]}
      /\ transport[Default].rootCAs \in {None, Default}
  BY <1>8 DEF Plain
<1>10. transport \in [Transports -> Configs]
  BY <1>8, <1>9, AbsentIs
<1>11. pool \in [PoolIds -> SUBSET Certs]
  BY <1>2 DEF PoolIds, Certs
<1>12. \A h \in HTTPIds : http[h].retries = <<>>
  BY <1>4, <1>5, AbsentIs
<1>13. \A c \in Clients : http[c] = Zero /\ transport[c] = Plain /\ pool[c] = {}
  <2> TAKE c \in Clients
  <2>1. c \in HTTPIds /\ c \in PoolIds /\ c \notin HTTPClients
    BY ObjectsApart DEF HTTPIds, PoolIds
  <2> QED BY <1>2, <1>4, <1>7, <1>8, <2>1
<1>14. TypeOK
  <2>1. client \in [Clients -> ClientRecords]
    BY <1>2, AbsentIs
  <2> QED BY <1>2, <1>6, <1>10, <1>11, <1>12, <1>13, <2>1, TypesGive
<1>15. BuildInv
  <2>1. http[Default] = Zero
    <3>1. Default \in HTTPIds /\ Default \notin HTTPClients
      BY ObjectsApart DEF HTTPIds
    <3> QED BY <1>4, <3>1
  <2> QED BY <1>2, <1>3, <2>1, AbsentIs DEF BuildInv
<1>16. MadeInv
  <2>1. ASSUME NEW h \in HTTPIds, NEW c \in Clients PROVE http[h].transport # c
    <3>1. http[h].transport = None \/ http[h].transport \in OwnTransports \cup {None, Default, Custom}
      BY <1>4, <1>5, AbsentIs
    <3>2. c # None /\ c # Default /\ c # Custom /\ c \notin OwnTransports
      BY ObjectsApart
    <3> QED BY <3>1, <3>2
  <2>2. ASSUME NEW t \in Transports, NEW c \in Clients PROVE transport[t].rootCAs # c
    BY <1>8, <1>9, AbsentIs, ObjectsApart
  <2> QED BY <2>1, <2>2 DEF MadeInv
<1>17. Untouched
  BY <1>5, <1>7, <1>8 DEF Untouched
<1>18. HTTPInv /\ BareInv /\ ConfigInv
  BY <1>3 DEF HTTPInv, BareInv, ConfigInv
<1>19. RootsInv
  <2>1. ASSUME NEW t \in Transports, NEW p, p \in Clients \cup OwnPools
        PROVE  transport[t].rootCAs # p
    BY <1>8, <1>9, <2>1, AbsentIs, ObjectsApart
  <2> QED BY <2>1 DEF RootsInv
<1>20. PoolInv
  <2>1. ASSUME NEW p \in OwnPools PROVE pool[p] \cap Files = {}
    <3>1. p \in PoolIds /\ p \notin Files /\ p \notin Clients
      BY ObjectsApart DEF PoolIds
    <3> QED BY <1>2, <3>1
  <2> QED BY <1>3, <2>1 DEF PoolInv
<1> QED BY <1>14, <1>15, <1>16, <1>17, <1>18, <1>19, <1>20 DEF IndInv

(* Until finalizeOptions runs, the client that is being built touches        *)
(* nothing but its own settings.                                            *)
Settling(c) ==
  /\ building \in {None, c} /\ building' = c /\ ~Built(c)
  /\ client' \in [Clients -> ClientRecords] /\ client'[c].stage = "options"
  /\ client'[c].httpClient \in HTTPClients \cup {None, Default}
  /\ \A d \in Clients : d # c => client'[d] = client[d]
  /\ UNCHANGED <<http, transport, pool, replaced>>

LEMMA SettlingKeeps ==
  ASSUME IndInv, NEW c \in Clients, Settling(c)
  PROVE  IndInv'
<1>1. /\ TypeOK /\ BuildInv /\ MadeInv /\ Untouched
      /\ HTTPInv /\ BareInv /\ ConfigInv /\ RootsInv /\ PoolInv
  BY DEF IndInv
<1>2. /\ building \in {None, c} /\ building' = c
      /\ client' \in [Clients -> ClientRecords] /\ client'[c].stage = "options"
      /\ client'[c].httpClient \in HTTPClients \cup {None, Default}
      /\ http' = http /\ transport' = transport /\ pool' = pool /\ replaced' = replaced
  BY DEF Settling
<1>3. ~Built(c) /\ ~Built(c)' /\ c # None
  BY <1>2, ObjectsApart DEF Settling, Built
<1>4. \A d \in Clients : /\ d # c => client'[d] = client[d]
                         /\ Built(d)' <=> Built(d)
                         /\ Built(d) => client'[d] = client[d]
  BY <1>3 DEF Settling, Built
<1>5. TypeOK'
  <2>1. /\ http' \in [HTTPIds -> HTTPRecords] /\ transport' \in [Transports -> Configs]
        /\ pool' \in [PoolIds -> SUBSET Certs] /\ building' \in Clients \cup {None}
    BY <1>1, <1>2, Types
  <2>2. \A h \in HTTPIds : http'[h].retries # <<>> => http'[h].transport # None
    BY <1>1, <1>2, Types
  <2>3. \A d \in Clients : ~Built(d)' => http'[d] = Zero /\ transport'[d] = Plain /\ pool'[d] = {}
    BY <1>1, <1>2, <1>4, Types
  <2> QED
    BY <1>2, <2>1, <2>2, <2>3 DEF TypeOK, ClientRecords, HTTPIds, HTTPRecords, Trippers, Configs, Certs
<1>6. BuildInv'
  <2>1. ASSUME NEW d \in Clients
        PROVE  /\ client'[d].stage = "options" <=> building' = d
               /\ client'[d].stage = "absent" => client'[d] = Absent
               /\ ~Built(d)' => client'[d].httpClient \in HTTPClients \cup {None, Default}
               /\ Built(d)' =>
                    /\ client'[d].httpClient \in HTTPClients \cup {d, Default}
                    /\ client'[d].httpClient = Default =>
                         /\ client'[d].tlsMods = <<>> /\ ~client'[d].timeout
                         /\ ~client'[d].proxyFunc /\ ~client'[d].retryPolicy
    <3>1. CASE d = c
      BY <1>2, <1>3, <3>1
    <3>2. CASE d # c
      <4>1. client'[d] = client[d] /\ (Built(d)' <=> Built(d)) /\ building # d
        BY <1>2, <1>4, <3>2, ObjectsApart
      <4> QED BY <1>1, <1>2, <3>2, <4>1 DEF BuildInv
    <3> QED BY <3>1, <3>2
  <2>2. http'[Default] = Zero
    BY <1>1, <1>2 DEF BuildInv
  <2> QED BY <2>1, <2>2 DEF BuildInv
<1>7. MadeInv'
  BY <1>1, <1>2, <1>4 DEF MadeInv
<1>8. Untouched'
  BY <1>1, <1>2, <1>4 DEF Untouched
<1>9. /\ \A d \in Clients : Built(d) =>
           /\ Tripper(d)' = Tripper(d) /\ PoolsOf(d)' = PoolsOf(d) /\ FilesOf(d)' = FilesOf(d)
           /\ \A kind : Asked(d, kind)' <=> Asked(d, kind)
      /\ Bare' <=> Bare
  BY <1>2, <1>4 DEF Tripper, PoolsOf, FilesOf, Asked, ModsOf, Bare
<1>10. \A d \in Clients : Built(d) => (Sole(d)' => Sole(d))
  BY <1>4, <1>9 DEF Sole
<1>11. HTTPInv'
  BY <1>1, <1>2, <1>4, <1>10 DEF HTTPInv, Mine
<1>12. BareInv'
  BY <1>1, <1>2, <1>4, <1>9, <1>10 DEF BareInv, AsksNothing
<1>13. ConfigInv'
  <2> SUFFICES ASSUME NEW d \in Clients, Built(d)', Bare', Sole(d)', Tripper(d)' \in Private
               PROVE  Configured(d, Tripper(d))'
    BY DEF ConfigInv, Private
  <2>1. Built(d) /\ Tripper(d) \in Private /\ Tripper(d)' = Tripper(d)
    BY <1>4, <1>9
  <2>2. Configured(d, Tripper(d))
    BY <1>1, <1>9, <1>10, <2>1 DEF ConfigInv
  <2>3. /\ BaseRoots(d)' = BaseRoots(d) /\ client'[d] = client[d]
        /\ PoolsOf(d)' = PoolsOf(d) /\ FilesOf(d)' = FilesOf(d)
        /\ \A kind : Asked(d, kind)' <=> Asked(d, kind)
    BY <1>2, <1>4, <1>9, <2>1 DEF BaseRoots
  <2> QED BY <1>2, <2>1, <2>2, <2>3 DEF Configured
<1>14. RootsInv'
  <2>1. \A t \in Transports, d \in Clients : transport[t].rootCAs = d => Built(d)
    BY <1>1 DEF MadeInv
  <2> QED BY <1>1, <1>2, <1>4, <1>9, <2>1 DEF RootsInv
<1>15. PoolInv'
  BY <1>1, <1>2, <1>4, <1>9, <1>10 DEF PoolInv
<1> QED BY <1>5, <1>6, <1>7, <1>8, <1>11, <1>12, <1>13, <1>14, <1>15 DEF IndInv

-----------------------------------------------------------------------------
(* finalizeOptions of c, in a state that the invariant allows.              *)
Finalizing(c) == IndInv /\ c \in Clients /\ Finalized(c)

LEMMA InHand ==
  ASSUME IndInv, NEW c \in Clients, building = c
  PROVE  /\ AtHand(c) /\ ~Built(c) /\ client[c] \in ClientRecords
         /\ client[c].timeout \in BOOLEAN /\ client[c].proxyFunc \in BOOLEAN
         /\ client[c].retryPolicy \in BOOLEAN
<1>1. TypeOK /\ BuildInv
  BY DEF IndInv
<1>2. /\ client \in [Clients -> ClientRecords] /\ http \in [HTTPIds -> HTTPRecords]
      /\ transport \in [Transports -> Configs] /\ pool \in [PoolIds -> SUBSET Certs]
      /\ \A h \in HTTPIds : http[h].retries # <<>> => http[h].transport # None
      /\ \A d \in Clients : ~Built(d) => http[d] = Zero
  BY <1>1, Types
<1>3. /\ client[c] \in ClientRecords /\ client[c].tlsMods \in Seq(Mods)
      /\ client[c].timeout \in BOOLEAN /\ client[c].proxyFunc \in BOOLEAN
      /\ client[c].retryPolicy \in BOOLEAN
  BY <1>2 DEF ClientRecords
<1>4. ~Built(c)
  BY <1>1 DEF BuildInv, Built
<1>5. client[c].httpClient \in HTTPClients \cup {None, Default} /\ http[Default] = Zero
  BY <1>1, <1>4 DEF BuildInv
<1> QED BY <1>2, <1>3, <1>4, <1>5 DEF AtHand

(* Which clients are built now, and that no setting changes.                *)
LEMMA FinalizedClients ==
  ASSUME NEW c \in Clients, Finalizing(c)
  PROVE  /\ AtHand(c) /\ ~Built(c) /\ Built(c)' /\ building = c
         /\ client' \in [Clients -> ClientRecords]
         /\ client'[c].httpClient = IF Needs(c) THEN Own0(c) ELSE Settled(c)
         /\ \A d \in Clients : d # c => client'[d] = client[d] /\ (Built(d)' <=> Built(d))
         /\ \A d \in Clients : Built(d) => d # c /\ Built(d)' /\ client'[d] = client[d]
         /\ \A d \in Clients :
              /\ client'[d].tlsMods = client[d].tlsMods /\ client'[d].timeout = client[d].timeout
              /\ client'[d].proxyFunc = client[d].proxyFunc
              /\ client'[d].retryPolicy = client[d].retryPolicy
              /\ PoolsOf(d)' = PoolsOf(d) /\ FilesOf(d)' = FilesOf(d)
              /\ \A kind : Asked(d, kind)' <=> Asked(d, kind)
<1>1. IndInv /\ building = c /\ c \in Clients
  BY DEF Finalizing, Finalized
<1>2. AtHand(c) /\ ~Built(c) /\ client[c] \in ClientRecords
  BY <1>1, InHand
<1>3. client \in [Clients -> ClientRecords]
  BY <1>1, Types DEF IndInv
<1>4. PICK o, r : /\ o = IF Needs(c) THEN Own0(c) ELSE Settled(c)
                  /\ r = [client[c] EXCEPT !.stage = "built", !.httpClient = o]
  OBVIOUS
<1>5. client' = [client EXCEPT ![c] = r]
  <2>1. client' = [client EXCEPT ![c].stage = "built", ![c].httpClient = o]
    BY <1>4 DEF Finalizing, Finalized
  <2> QED BY <1>3, <1>4, <2>1
<1>6. /\ r \in ClientRecords /\ r.stage = "built" /\ r.httpClient = o
      /\ r.tlsMods = client[c].tlsMods /\ r.timeout = client[c].timeout
      /\ r.proxyFunc = client[c].proxyFunc /\ r.retryPolicy = client[c].retryPolicy
  <2>1. o \in HTTPClients \cup Clients \cup {None, Default}
    BY <1>2, <1>4, OwnTypes
  <2> QED BY <1>2, <1>4, <2>1 DEF ClientRecords
<1>7. /\ client' \in [Clients -> ClientRecords] /\ client'[c] = r
      /\ \A d \in Clients : d # c => client'[d] = client[d]
  BY <1>3, <1>5, <1>6
<1>8. /\ Built(c)' /\ \A d \in Clients : d # c => (Built(d)' <=> Built(d))
      /\ \A d \in Clients : Built(d) => d # c
  BY <1>2, <1>6, <1>7 DEF Built
<1>9. \A d \in Clients :
        /\ client'[d].tlsMods = client[d].tlsMods /\ client'[d].timeout = client[d].timeout
        /\ client'[d].proxyFunc = client[d].proxyFunc
        /\ client'[d].retryPolicy = client[d].retryPolicy
  BY <1>6, <1>7
<1>10. \A d \in Clients :
         /\ PoolsOf(d)' = PoolsOf(d) /\ FilesOf(d)' = FilesOf(d)
         /\ \A kind : Asked(d, kind)' <=> Asked(d, kind)
  BY <1>9 DEF PoolsOf, FilesOf, Asked, ModsOf
<1> QED BY <1>1, <1>2, <1>4, <1>6, <1>7, <1>8, <1>9, <1>10

(* A transport in use stays in use: no http.Client loses one.               *)
LEMMA FinalizedHTTP ==
  ASSUME NEW c \in Clients, Finalizing(c)
  PROVE  /\ http \in [HTTPIds -> HTTPRecords] /\ http' \in [HTTPIds -> HTTPRecords]
         /\ Own0(c) \in HTTPClients \cup {c} /\ Own0(c) \in HTTPIds /\ Own0(c) # Default
         /\ Own0(c) # c => Settled(c) = Own0(c)
         /\ Own0(c) = c => Settled(c) = Default
         /\ \A h \in HTTPIds : http[h].transport # None => http'[h].transport = http[h].transport
         /\ ~Needs(c) => http' = http
         /\ \A d \in Clients : Built(d) => client[d].httpClient \in HTTPIds
         /\ \A d \in Clients : Built(d) /\ Tripper(d) # None => Tripper(d)' = Tripper(d)
<1>1. IndInv /\ Finalized(c)
  BY DEF Finalizing
<1>2. AtHand(c) /\ \A d \in Clients : Built(d) => client'[d] = client[d]
  BY FinalizedClients
<1>3. /\ http \in [HTTPIds -> HTTPRecords] /\ http' \in [HTTPIds -> HTTPRecords]
      /\ Own0(c) \in HTTPClients \cup {c} /\ Own0(c) \in HTTPIds /\ Own0(c) # Default
  BY <1>1, <1>2, OwnTypes DEF AtHand, Finalized
<1>4. (Own0(c) # c => Settled(c) = Own0(c)) /\ (Own0(c) = c => Settled(c) = Default)
  BY <1>2, OwnTypes, ObjectsApart DEF Own0
<1>5. \A h \in HTTPIds : http[h].transport # None => http'[h].transport = http[h].transport
  <2> SUFFICES ASSUME NEW h \in HTTPIds, http[h].transport # None
               PROVE  http'[h].transport = http[h].transport
    OBVIOUS
  <2>1. CASE h # Own0(c)
    BY <1>1, <2>1 DEF Finalized
  <2>2. CASE h = Own0(c)
    <3>1. Thru(c, Wants(c)) = http[h].transport
      BY <2>2 DEF Thru, Clones
    <3> QED BY <1>1, <2>2, <3>1 DEF Finalized
  <2> QED BY <2>1, <2>2
<1>6. ASSUME ~Needs(c) PROVE http' = http
  <2>1. ~Wants(c) /\ ~client[c].timeout /\ ~client[c].retryPolicy
    BY <1>6 DEF Needs
  <2>2. Thru(c, Wants(c)) = http[Own0(c)].transport
    BY <2>1 DEF Thru, Clones
  <2>3. http[Own0(c)] \in HTTPRecords /\ http'[Own0(c)] \in HTTPRecords
    BY <1>3
  <2>4. <<>> \o http[Own0(c)].retries = http[Own0(c)].retries
    BY <2>3 DEF HTTPRecords
  <2>5. /\ http'[Own0(c)].transport = http[Own0(c)].transport
        /\ http'[Own0(c)].retries = http[Own0(c)].retries
        /\ http'[Own0(c)].timeout = http[Own0(c)].timeout
    BY <1>1, <2>1, <2>2, <2>4 DEF Finalized
  <2>6. http'[Own0(c)] = http[Own0(c)]
    BY <2>3, <2>5 DEF HTTPRecords
  <2>7. \A h \in HTTPIds : http'[h] = http[h]
    BY <1>1, <2>6 DEF Finalized
  <2> QED BY <1>3, <2>7
<1>7. \A d \in Clients : Built(d) => client[d].httpClient \in HTTPIds
  BY <1>1 DEF IndInv, BuildInv, HTTPIds
<1>8. \A d \in Clients : Built(d) /\ Tripper(d) # None => Tripper(d)' = Tripper(d)
  BY <1>2, <1>5, <1>7 DEF Tripper
<1> QED BY <1>3, <1>4, <1>5, <1>6, <1>7, <1>8

(* The configuration that is changed is that of the client's transport, and *)
(* it is as given but for what the options ask for.                         *)
LEMMA FinalizedTLS ==
  ASSUME NEW c \in Clients, Finalizing(c)
  PROVE  /\ transport \in [Transports -> Configs] /\ transport' \in [Transports -> Configs]
         /\ pool \in [PoolIds -> SUBSET Certs] /\ pool' \in [PoolIds -> SUBSET Certs]
         /\ \A x \in PoolIds : pool[x] \subseteq pool'[x]
         /\ \A t \in Transports : t # Thru(c, Wants(c)) => transport'[t] = transport[t]
         /\ ~Reach(c, Wants(c)) => transport' = transport /\ pool' = pool
         /\ Reach(c, Wants(c)) =>
              /\ Wants(c) /\ Needs(c) /\ Thru(c, Wants(c)) \in Transports
              /\ http[Own0(c)].retries = <<>> /\ Tripper(c)' = Thru(c, Wants(c))
              /\ Given0(c, Wants(c)) \in Configs
              /\ Clones(c, Wants(c)) => Thru(c, Wants(c)) = c
              /\ ~Clones(c, Wants(c)) => /\ Thru(c, Wants(c)) = http[Own0(c)].transport
                                         /\ Given0(c, Wants(c)) = transport[Thru(c, Wants(c))]
<1>1. IndInv /\ Finalized(c)
  BY DEF Finalizing
<1>2. AtHand(c) /\ client'[c].httpClient = IF Needs(c) THEN Own0(c) ELSE Settled(c)
  BY FinalizedClients
<1>3. /\ transport \in [Transports -> Configs] /\ transport' \in [Transports -> Configs]
      /\ pool \in [PoolIds -> SUBSET Certs] /\ pool' \in [PoolIds -> SUBSET Certs]
  BY <1>1, <1>2 DEF AtHand, Finalized
<1>4. \A x \in PoolIds : pool[x] \subseteq pool'[x]
  BY <1>1 DEF Finalized, TLSOf
<1>5. /\ \A t \in Transports : t # Thru(c, Wants(c)) => transport'[t] = transport[t]
      /\ ~Reach(c, Wants(c)) => transport' = transport /\ pool' = pool
  BY <1>1 DEF Finalized
<1>6. ASSUME Reach(c, Wants(c))
      PROVE  /\ Wants(c) /\ Needs(c) /\ Thru(c, Wants(c)) \in Transports
             /\ http[Own0(c)].retries = <<>> /\ Tripper(c)' = Thru(c, Wants(c))
             /\ Given0(c, Wants(c)) \in Configs
             /\ Clones(c, Wants(c)) => Thru(c, Wants(c)) = c
             /\ ~Clones(c, Wants(c)) => /\ Thru(c, Wants(c)) = http[Own0(c)].transport
                                        /\ Given0(c, Wants(c)) = transport[Thru(c, Wants(c))]
  <2>1. /\ Wants(c) /\ Needs(c) /\ Thru(c, Wants(c)) \in Transports
        /\ http[Own0(c)].retries = <<>>
    BY <1>6 DEF Reach, Needs
  <2>2. Thru(c, Wants(c)) # None
    BY <2>1, ObjectsApart DEF Transports
  <2>3. Tripper(c)' = Thru(c, Wants(c))
    BY <1>1, <1>2, <2>1, <2>2 DEF Finalized, Tripper
  <2>4. Given0(c, Wants(c)) \in Configs
    <3>1. Default \in Transports
      BY DEF Transports
    <3> QED BY <1>3, <2>1, <3>1 DEF Given0
  <2>5. /\ Clones(c, Wants(c)) => Thru(c, Wants(c)) = c
        /\ ~Clones(c, Wants(c)) => /\ Thru(c, Wants(c)) = http[Own0(c)].transport
                                   /\ Given0(c, Wants(c)) = transport[Thru(c, Wants(c))]
    BY DEF Thru, Given0
  <2> QED BY <2>1, <2>3, <2>4, <2>5
<1> QED BY <1>3, <1>4, <1>5, <1>6

LEMMA OfTypes ==
  ASSUME NEW c \in Clients, client[c].tlsMods \in Seq(Mods)
  PROVE  /\ PoolsOf(c) \subseteq OwnPools /\ FilesOf(c) \subseteq Files
         /\ Asked(c, "roots") <=> PoolsOf(c) # {}
         /\ FilesOf(c) # {} => Asked(c, "file")
<1>1. ModsOf(c) \subseteq Mods
  BY DEF ModsOf
<1> QED BY <1>1, ModTypes DEF PoolsOf, FilesOf, Asked

LEMMA FinalizedConfig ==
  ASSUME NEW c \in Clients, Finalizing(c), Reach(c, Wants(c)),
         NEW t, t = Thru(c, Wants(c)), NEW old, old = Given0(c, Wants(c)),
         NEW root, root = IF old.rootCAs = None THEN c ELSE old.rootCAs
  PROVE  /\ root \in PoolIds /\ old \in Configs /\ transport'[t] \in Configs
         /\ PoolsOf(c) \subseteq OwnPools /\ FilesOf(c) \subseteq Files
         /\ transport'[t].proxy = IF client[c].proxyFunc THEN c ELSE old.proxy
         /\ transport'[t].insecure <=> old.insecure \/ Asked(c, "insecure")
         /\ transport'[t].certificates =
              old.certificates \cup IF Asked(c, "certificate") THEN {c} ELSE {}
         /\ Asked(c, "roots") => transport'[t].rootCAs \in PoolsOf(c)
         /\ AllStays(client[c].tlsMods, transport'[t].rootCAs, pool')
         /\ ~Asked(c, "roots") =>
              /\ transport'[t].rootCAs = IF Asked(c, "file") THEN root ELSE old.rootCAs
              /\ FilesOf(c) \subseteq pool'[root]
         /\ \A x \in PoolIds :
              /\ pool'[x] \subseteq pool[x] \cup FilesOf(c)
              /\ pool'[x] # pool[x] => x = root \/ x \in PoolsOf(c)
<1>1. AtHand(c) /\ client[c].tlsMods \in Seq(Mods)
  BY FinalizedClients DEF AtHand
<1>2. PoolsOf(c) \subseteq OwnPools /\ FilesOf(c) \subseteq Files
  BY <1>1, OfTypes
<1>3. old \in Configs /\ t \in Transports /\ transport'[t] \in Configs
  BY FinalizedTLS
<1>4. root \in PoolIds
  BY <1>3 DEF Configs, PoolIds
<1>5. /\ transport'[t].proxy = IF client[c].proxyFunc THEN c ELSE old.proxy
      /\ TLSOf(c, Len(client[c].tlsMods), old, transport'[t], pool, pool')
  BY DEF Finalizing, Finalized
<1>6. PICK n : n = Len(client[c].tlsMods)
  OBVIOUS
<1>7. /\ \A kind : Among(c, n, kind) <=> Asked(c, kind)
      /\ Pools(c, n) = PoolsOf(c) /\ FilesIn(c, n) = FilesOf(c)
  BY <1>1, <1>6, AllOfThem
<1>8. /\ transport'[t].insecure = (old.insecure \/ Among(c, n, "insecure"))
      /\ transport'[t].certificates =
           old.certificates \cup IF Among(c, n, "certificate") THEN {c} ELSE {}
      /\ Among(c, n, "roots") => transport'[t].rootCAs \in Pools(c, n)
      /\ AllStays(client[c].tlsMods, transport'[t].rootCAs, pool')
      /\ ~Among(c, n, "roots") =>
           /\ transport'[t].rootCAs = IF Among(c, n, "file") THEN root ELSE old.rootCAs
           /\ FilesIn(c, n) \subseteq pool'[root]
      /\ \A x \in PoolIds :
           /\ pool'[x] \subseteq pool[x] \cup FilesIn(c, n)
           /\ pool'[x] # pool[x] => x = root \/ x \in Pools(c, n)
  BY <1>5, <1>6 DEF TLSOf, AllStays
<1>9. transport'[t].insecure \in BOOLEAN /\ old.insecure \in BOOLEAN
  BY <1>3 DEF Configs
<1> QED BY <1>2, <1>3, <1>4, <1>5, <1>7, <1>8, <1>9

(* http.DefaultTransport, once written to, never looks as it did again.      *)
LEMMA BareStays ==
  ASSUME NEW c \in Clients, Finalizing(c), Bare'
  PROVE  /\ Bare /\ transport'[Default] = transport[Default]
         /\ transport[Default].rootCAs \in {None, Default}
         /\ Reach(c, Wants(c)) /\ Thru(c, Wants(c)) = Default =>
              /\ AsksNothing(c)
              /\ Asked(c, "file") => /\ transport[Default].rootCAs = Default
                                     /\ FilesOf(c) \subseteq pool'[Default]
<1>1. /\ transport'[Default].proxy = None /\ ~transport'[Default].insecure
      /\ transport'[Default].certificates = {} /\ transport'[Default].rootCAs \in {None, Default}
  BY DEF Bare, Plain
<1>2. Default \in Transports
  BY DEF Transports
<1>3. CASE ~(Reach(c, Wants(c)) /\ Thru(c, Wants(c)) = Default)
  <2>1. transport'[Default] = transport[Default]
    BY <1>2, <1>3, FinalizedTLS
  <2> QED BY <1>1, <1>3, <2>1 DEF Bare
<1>4. CASE Reach(c, Wants(c)) /\ Thru(c, Wants(c)) = Default
  <2>1. ~Clones(c, Wants(c)) /\ Given0(c, Wants(c)) = transport[Default]
    BY <1>4, FinalizedTLS, ObjectsApart
  <2>2. PICK old, root : /\ old = transport[Default]
                         /\ root = IF old.rootCAs = None THEN c ELSE old.rootCAs
    OBVIOUS
  <2>3. /\ old \in Configs /\ transport'[Default] \in Configs
        /\ PoolsOf(c) \subseteq OwnPools
        /\ transport'[Default].proxy = IF client[c].proxyFunc THEN c ELSE old.proxy
        /\ transport'[Default].insecure <=> old.insecure \/ Asked(c, "insecure")
        /\ transport'[Default].certificates =
              old.certificates \cup IF Asked(c, "certificate") THEN {c} ELSE {}
        /\ Asked(c, "roots") => transport'[Default].rootCAs \in PoolsOf(c)
        /\ ~Asked(c, "roots") =>
              /\ transport'[Default].rootCAs = IF Asked(c, "file") THEN root ELSE old.rootCAs
              /\ FilesOf(c) \subseteq pool'[root]
    BY <1>4, <2>1, <2>2, FinalizedConfig
  <2>4. ~client[c].proxyFunc /\ old.proxy = None
    BY <1>1, <2>3, ObjectsApart
  <2>5. ~Asked(c, "insecure") /\ ~old.insecure
    BY <1>1, <2>3
  <2>6. ~Asked(c, "certificate") /\ old.certificates = {}
    BY <1>1, <2>3
  <2>7. ~Asked(c, "roots")
    BY <1>1, <2>3, ObjectsApart
  <2>8. Asked(c, "file") => old.rootCAs = Default /\ root = Default
    BY <1>1, <2>2, <2>3, <2>7, ObjectsApart
  <2>9. transport'[Default].rootCAs = old.rootCAs
    BY <2>3, <2>7, <2>8
  <2>10. transport'[Default] = old
    <3>1. /\ transport'[Default].proxy = old.proxy
          /\ transport'[Default].certificates = old.certificates
      BY <1>1, <2>4, <2>6
    <3>2. transport'[Default].insecure = old.insecure
      BY <1>1, <2>3, <2>5 DEF Configs
    <3> HIDE DEF Default
    <3> QED BY ONLY <2>3, <2>9, <3>1, <3>2 DEF Configs
  <2> QED BY <1>1, <2>2, <2>3, <2>4, <2>5, <2>6, <2>7, <2>8, <2>10 DEF Bare, AsksNothing
<1> QED BY <1>3, <1>4

(* The parts of the invariant, one by one.                                  *)
LEMMA RootOrOld ==
  ASSUME NEW c \in Clients, Finalizing(c), NEW t \in Transports,
         transport'[t] # transport[t],
         NEW p, p = transport'[t].rootCAs
  PROVE  /\ Reach(c, Wants(c)) /\ t = Thru(c, Wants(c)) /\ Tripper(c)' = t
         /\ \/ p \in PoolsOf(c) \/ p = c
            \/ p = transport[Default].rootCAs /\ Clones(c, Wants(c))
            \/ p = transport[t].rootCAs
<1>1. Reach(c, Wants(c)) /\ t = Thru(c, Wants(c)) /\ Tripper(c)' = t
  BY FinalizedTLS
<1>2. PICK old, root : /\ old = Given0(c, Wants(c))
                       /\ root = IF old.rootCAs = None THEN c ELSE old.rootCAs
  OBVIOUS
<1>3. p \in PoolsOf(c) \/ p = root \/ p = old.rootCAs
  BY <1>1, <1>2, FinalizedConfig
<1>4. old = IF Clones(c, Wants(c)) THEN transport[Default] ELSE transport[t]
  BY <1>1, <1>2 DEF Given0
<1> QED BY <1>1, <1>2, <1>3, <1>4

LEMMA FinalizedTypes ==
  ASSUME NEW c \in Clients, Finalizing(c)
  PROVE  TypeOK'
<1>1. IndInv /\ Finalized(c)
  BY DEF Finalizing
<1>2. /\ client' \in [Clients -> ClientRecords] /\ http' \in [HTTPIds -> HTTPRecords]
      /\ transport' \in [Transports -> Configs] /\ pool' \in [PoolIds -> SUBSET Certs]
      /\ building' \in Clients \cup {None}
  BY <1>1, FinalizedClients DEF Finalized
<1>3. ASSUME NEW h \in HTTPIds, http'[h].retries # <<>> PROVE http'[h].transport # None
  <2>0. AtHand(c)
    BY FinalizedClients
  <2>1. CASE h # Own0(c)
    BY <1>1, <1>3, <2>0, <2>1 DEF Finalized, AtHand
  <2>2. CASE h = Own0(c) /\ client[c].retryPolicy
    BY <1>1, <2>2, ObjectsApart DEF Finalized, DefaultTransport
  <2>3. CASE h = Own0(c) /\ ~client[c].retryPolicy
    <3>1. http[h] \in HTTPRecords
      BY FinalizedHTTP
    <3>2. <<>> \o http[h].retries = http[h].retries
      BY <3>1 DEF HTTPRecords
    <3>3. http[h].retries # <<>>
      BY <1>1, <1>3, <2>3, <3>2 DEF Finalized
    <3>4. http[h].transport # None
      BY <2>0, <3>3 DEF AtHand
    <3> QED BY <3>4, FinalizedHTTP
  <2> QED BY <2>1, <2>2, <2>3
<1>4. ASSUME NEW d \in Clients, ~Built(d)'
      PROVE  http'[d] = Zero /\ transport'[d] = Plain /\ pool'[d] = {}
  <2>1. d # c /\ ~Built(d)
    BY <1>4, FinalizedClients
  <2>2. http[d] = Zero /\ transport[d] = Plain /\ pool[d] = {}
    BY <1>1, <2>1, Types DEF IndInv
  <2>3. MadeInv /\ d \in HTTPIds /\ d \in Transports /\ d \in PoolIds
        /\ Default \in Transports /\ d # None
    BY <1>1, ObjectsApart DEF IndInv, HTTPIds, Transports, PoolIds
  <2>4. http'[d] = Zero
    <3>1. d # Own0(c)
      BY <2>1, FinalizedHTTP, ObjectsApart
    <3> QED BY <1>1, <2>2, <2>3, <3>1 DEF Finalized
  <2>5. ASSUME transport'[d] # transport[d] PROVE FALSE
    <3>1. Reach(c, Wants(c)) /\ d = Thru(c, Wants(c))
      BY <2>3, <2>5, FinalizedTLS
    <3>2. http[Own0(c)].transport = d
      BY <2>1, <3>1, FinalizedTLS
    <3> QED BY <2>1, <2>3, <3>2, FinalizedHTTP DEF MadeInv
  <2>6. ASSUME pool'[d] # pool[d] PROVE FALSE
    <3>1. Reach(c, Wants(c))
      BY <2>6, FinalizedTLS
    <3>2. PICK t, old, root :
            /\ t = Thru(c, Wants(c)) /\ old = Given0(c, Wants(c))
            /\ root = IF old.rootCAs = None THEN c ELSE old.rootCAs
      OBVIOUS
    <3>3. PoolsOf(c) \subseteq OwnPools /\ (d = root \/ d \in PoolsOf(c))
      BY <2>3, <2>6, <3>1, <3>2, FinalizedConfig
    <3>4. d = old.rootCAs
      BY <2>1, <3>2, <3>3, ObjectsApart
    <3>5. t \in Transports /\ old \in {transport[Default], transport[t]}
      BY <3>1, <3>2, FinalizedTLS DEF Given0
    <3> QED BY <2>1, <2>3, <3>4, <3>5 DEF MadeInv
  <2> QED BY <2>2, <2>4, <2>5, <2>6
<1> QED
  BY <1>2, <1>3, <1>4 DEF TypeOK, ClientRecords, HTTPIds, HTTPRecords, Trippers, Configs, Certs

LEMMA FinalizedBuildMade ==
  ASSUME NEW c \in Clients, Finalizing(c)
  PROVE  BuildInv' /\ MadeInv'
<1>1. IndInv /\ Finalized(c) /\ BuildInv /\ MadeInv
  BY DEF Finalizing, IndInv
<1>2. http'[Default] = Zero
  <2>1. Default \in HTTPIds /\ Own0(c) # Default
    BY FinalizedHTTP DEF HTTPIds
  <2> QED BY <1>1, <2>1 DEF Finalized, BuildInv
<1>3. ASSUME NEW d \in Clients
      PROVE  /\ client'[d].stage = "options" <=> building' = d
             /\ client'[d].stage = "absent" => client'[d] = Absent
             /\ ~Built(d)' => client'[d].httpClient \in HTTPClients \cup {None, Default}
             /\ Built(d)' =>
                  /\ client'[d].httpClient \in HTTPClients \cup {d, Default}
                  /\ client'[d].httpClient = Default =>
                       /\ client'[d].tlsMods = <<>> /\ ~client'[d].timeout
                       /\ ~client'[d].proxyFunc /\ ~client'[d].retryPolicy
  <2>1. building = c /\ building' = None /\ d # None
    BY <1>1, ObjectsApart DEF Finalized
  <2>2. CASE d = c
    <3>1. Built(c)' /\ client'[c].stage = "built"
      BY FinalizedClients DEF Built
    <3>2. /\ client'[c].httpClient = IF Needs(c) THEN Own0(c) ELSE Settled(c)
          /\ client'[c].tlsMods = client[c].tlsMods /\ client'[c].timeout = client[c].timeout
          /\ client'[c].proxyFunc = client[c].proxyFunc
          /\ client'[c].retryPolicy = client[c].retryPolicy
      BY FinalizedClients
    <3>3. client'[c].httpClient \in HTTPClients \cup {c, Default}
      BY <3>2, FinalizedHTTP
    <3>4. client'[c].httpClient = Default => ~Needs(c)
      BY <3>2, FinalizedHTTP
    <3> QED BY <2>1, <2>2, <3>1, <3>2, <3>3, <3>4 DEF Needs, Wants
  <2>3. CASE d # c
    <3>1. client'[d] = client[d] /\ (Built(d)' <=> Built(d))
      BY <2>3, FinalizedClients
    <3> QED BY <1>1, <2>1, <2>3, <3>1 DEF BuildInv
  <2> QED BY <2>2, <2>3
<1>4. BuildInv'
  BY <1>2, <1>3 DEF BuildInv
<1>5. ASSUME NEW h \in HTTPIds, NEW d \in Clients, http'[h].transport = d
      PROVE  Built(d)' /\ client'[d].httpClient = h
  <2>1. CASE http[h].transport = d
    BY <1>1, <2>1, FinalizedClients DEF MadeInv
  <2>2. CASE http[h].transport # d
    <3>1. h = Own0(c)
      BY <1>1, <1>5, <2>2 DEF Finalized
    <3>2. http'[h].transport \in {DefaultTransport, Thru(c, Wants(c))}
      BY <1>1, <3>1 DEF Finalized
    <3>3. d = Thru(c, Wants(c))
      BY <1>5, <3>2, ObjectsApart DEF DefaultTransport
    <3>4. Clones(c, Wants(c)) /\ d = c
      BY <2>2, <3>1, <3>3 DEF Thru
    <3>5. Needs(c)
      BY <3>4 DEF Clones, Needs
    <3> QED BY <3>1, <3>4, <3>5, FinalizedClients
  <2> QED BY <2>1, <2>2
<1>6. ASSUME NEW t \in Transports, NEW d \in Clients, transport'[t].rootCAs = d
      PROVE  Built(d)'
  <2>1. CASE transport'[t] = transport[t]
    <3>1. Built(d)
      BY <1>1, <1>6, <2>1 DEF MadeInv
    <3> QED BY <3>1, FinalizedClients
  <2>2. CASE transport'[t] # transport[t]
    <3>1. \/ d \in PoolsOf(c) \/ d = c \/ d = transport[Default].rootCAs
          \/ d = transport[t].rootCAs
      BY <1>6, <2>2, RootOrOld
    <3>2. PoolsOf(c) \subseteq OwnPools /\ Default \in Transports
      BY FinalizedClients, OfTypes DEF AtHand, Transports
    <3>3. d = c \/ Built(d)
      BY <1>1, <3>1, <3>2, ObjectsApart DEF MadeInv
    <3> QED BY <3>3, FinalizedClients
  <2> QED BY <2>1, <2>2
<1>7. MadeInv'
  BY <1>5, <1>6 DEF MadeInv, HTTPIds, Transports
<1> QED BY <1>4, <1>7

LEMMA FinalizedUntouched ==
  ASSUME NEW c \in Clients, Finalizing(c)
  PROVE  Untouched'
<1>1. Finalized(c) /\ Untouched
  BY DEF Finalizing, IndInv
<1>2. ASSUME NEW h \in HTTPClients, \A d \in Clients : Built(d)' => client'[d].httpClient # h
      PROVE  /\ http'[h].retries = <<>> /\ http'[h].timeout = None
             /\ http'[h].transport \in OwnTransports \cup {None, Default, Custom}
  <2>1. h # Own0(c)
    BY <1>2, FinalizedClients, FinalizedHTTP, ObjectsApart
  <2>2. http'[h] = http[h]
    BY <1>1, <2>1 DEF Finalized, HTTPIds
  <2>3. \A d \in Clients : Built(d) => client[d].httpClient # h
    BY <1>2, FinalizedClients
  <2> QED BY <1>1, <2>2, <2>3 DEF Untouched
<1>3. ASSUME NEW t \in OwnTransports,
             \A d \in Clients : Built(d)' => http'[client'[d].httpClient].transport # t
      PROVE  transport'[t] = Plain
  <2>1. t # None /\ t \in Transports
    BY ObjectsApart DEF Transports
  <2>2. \A d \in Clients : Built(d)' => Tripper(d)' # t
    BY <1>3 DEF Tripper
  <2>3. \A d \in Clients : Built(d) => Tripper(d) # t
    BY <2>1, <2>2, FinalizedClients, FinalizedHTTP
  <2>4. transport[t] = Plain
    BY <1>1, <2>3 DEF Untouched, Tripper
  <2>5. transport'[t] = transport[t]
    BY <2>1, <2>2, FinalizedClients, RootOrOld
  <2> QED BY <2>4, <2>5
<1> QED BY <1>2, <1>3 DEF Untouched

(* A client that is alone once c is built was alone before.                 *)
LEMMA SoleStays ==
  ASSUME NEW c \in Clients, Finalizing(c), NEW d \in Clients, d # c, Built(d)', Sole(d)'
  PROVE  /\ Built(d) /\ client'[d] = client[d] /\ Sole(d)
         /\ Mine(d)' = Mine(d) /\ Tripper(d)' = Tripper(d)
         /\ Tripper(c)' = Tripper(d) => Tripper(d) \notin Private
<1>1. Built(d) /\ client'[d] = client[d] /\ Built(c)'
  BY FinalizedClients
<1>2. PICK h \in HTTPIds : h = client[d].httpClient
  BY <1>1, FinalizedHTTP
<1>3. \A e \in Clients \ {d} : Built(e)' =>
        /\ client'[e].httpClient # client'[d].httpClient
        /\ Tripper(e)' = Tripper(d)' => Tripper(d)' \notin Private
  BY DEF Sole, Private
<1>4. client'[c].httpClient # h
  BY <1>1, <1>2, <1>3
<1>5. http'[h] = http[h]
  <2>1. CASE ~Needs(c)
    BY <2>1, FinalizedHTTP
  <2>2. CASE Needs(c)
    <3>1. h # Own0(c)
      BY <1>4, <2>2, FinalizedClients
    <3> QED BY <1>2, <3>1 DEF Finalizing, Finalized
  <2> QED BY <2>1, <2>2
<1>6. Mine(d)' = Mine(d) /\ Tripper(d)' = Tripper(d)
  BY <1>1, <1>2, <1>5 DEF Mine, Tripper
<1>7. ASSUME NEW e \in Clients \ {d}, Built(e)
      PROVE  /\ client[e].httpClient # client[d].httpClient
             /\ Tripper(e) = Tripper(d) => Tripper(d) \notin Private
  <2>1. Built(e)' /\ client'[e] = client[e]
    BY <1>7, FinalizedClients
  <2>2. client[e].httpClient # client[d].httpClient
    BY <1>1, <1>3, <2>1
  <2>3. ASSUME Tripper(e) = Tripper(d), Tripper(d) \in Private PROVE FALSE
    <3>1. Tripper(e) # None
      BY <2>3, ObjectsApart DEF Private
    <3>2. Tripper(e)' = Tripper(e)
      BY <1>7, <3>1, FinalizedHTTP
    <3> QED BY <1>3, <1>6, <2>1, <2>3, <3>2
  <2> QED BY <2>2, <2>3
<1>8. Sole(d)
  BY <1>7 DEF Sole
<1> QED BY <1>1, <1>3, <1>6, <1>8

(* What c, alone once it is built, had to work with.                        *)
LEMMA SoleFinds ==
  ASSUME NEW c \in Clients, Finalizing(c), Sole(c)'
  PROVE  /\ client'[c].httpClient = Own0(c) \/ (client'[c].httpClient = Default /\ ~Needs(c))
         /\ http[Own0(c)].retries = <<>> /\ http[Own0(c)].timeout = None
         /\ http[Own0(c)].transport \in OwnTransports \cup {None, Default, Custom}
         /\ \A t \in OwnTransports : Tripper(c)' = t => transport[t] = Plain
<1>1. Finalized(c) /\ Untouched /\ BuildInv /\ TypeOK
  BY DEF Finalizing, IndInv
<1>2. client'[c].httpClient = Own0(c) \/ (client'[c].httpClient = Default /\ ~Needs(c))
  BY FinalizedClients, FinalizedHTTP
<1>3. \A d \in Clients \ {c} : Built(d) =>
        /\ client[d].httpClient # client'[c].httpClient
        /\ Tripper(d)' = Tripper(c)' => Tripper(c)' \notin Private
  BY FinalizedClients DEF Sole, Private
<1>4. /\ http[Own0(c)].retries = <<>> /\ http[Own0(c)].timeout = None
      /\ http[Own0(c)].transport \in OwnTransports \cup {None, Default, Custom}
  <2>1. CASE Own0(c) = c
    <3>1. http[c] = Zero
      BY <1>1, FinalizedClients, Types
    <3> QED BY <2>1, <3>1, AbsentIs
  <2>2. CASE Own0(c) # c
    <3>1. Own0(c) \in HTTPClients /\ client'[c].httpClient = Own0(c)
      BY <2>2, FinalizedHTTP, FinalizedClients
    <3>2. \A d \in Clients : Built(d) => client[d].httpClient # Own0(c)
      BY <1>3, <3>1, FinalizedClients
    <3> QED BY <1>1, <3>1, <3>2 DEF Untouched
  <2> QED BY <2>1, <2>2
<1>5. ASSUME NEW t \in OwnTransports, Tripper(c)' = t PROVE transport[t] = Plain
  <2>1. t # None /\ t \in Private
    BY ObjectsApart DEF Private
  <2>2. \A d \in Clients : Built(d) => Tripper(d) # t
    BY <1>3, <1>5, <2>1, FinalizedClients, FinalizedHTTP
  <2> QED BY <1>1, <2>2 DEF Untouched, Tripper
<1> QED BY <1>2, <1>4, <1>5

LEMMA FinalizedHTTPInv ==
  ASSUME NEW c \in Clients, Finalizing(c)
  PROVE  HTTPInv'
<1> SUFFICES ASSUME NEW d \in Clients, Built(d)', Sole(d)'
             PROVE  /\ Mine(d)'.timeout = IF client'[d].timeout THEN d ELSE None
                    /\ Mine(d)'.retries = IF client'[d].retryPolicy THEN <<d>> ELSE <<>>
  BY DEF HTTPInv
<1>1. Finalized(c) /\ HTTPInv /\ BuildInv
  BY DEF Finalizing, IndInv
<1>2. CASE d # c
  BY <1>1, <1>2, SoleStays DEF HTTPInv
<1>3. CASE d = c
  <2>1. /\ client'[c].httpClient = Own0(c) \/ (client'[c].httpClient = Default /\ ~Needs(c))
        /\ http[Own0(c)].retries = <<>> /\ http[Own0(c)].timeout = None
    BY <1>3, SoleFinds
  <2>2. client'[c].timeout = client[c].timeout /\ client'[c].retryPolicy = client[c].retryPolicy
    BY FinalizedClients
  <2>3. CASE client'[c].httpClient = Own0(c)
    <3>1. Mine(c)' = http'[Own0(c)]
      BY <2>3 DEF Mine
    <3>2. <<c>> \o <<>> = <<c>> /\ <<>> \o <<>> = <<>>
      OBVIOUS
    <3> QED BY <1>1, <1>3, <2>1, <2>2, <3>1, <3>2 DEF Finalized
  <2>4. CASE client'[c].httpClient = Default /\ ~Needs(c)
    <3>1. Mine(c)' = Zero
      BY <1>1, <2>4, FinalizedHTTP DEF Mine, BuildInv
    <3>2. ~client[c].timeout /\ ~client[c].retryPolicy
      BY <2>4 DEF Needs
    <3> QED BY <1>3, <2>2, <3>1, <3>2, AbsentIs
  <2> QED BY <2>1, <2>3, <2>4
<1> QED BY <1>2, <1>3

LEMMA FinalizedBare ==
  ASSUME NEW c \in Clients, Finalizing(c)
  PROVE  BareInv'
<1> SUFFICES ASSUME NEW d \in Clients, Built(d)', Bare', Sole(d)'
             PROVE  /\ Tripper(d)' = None /\ ~replaced' =>
                         client'[d].tlsMods = <<>> /\ ~client'[d].proxyFunc
                    /\ Tripper(d)' = Default =>
                         /\ AsksNothing(d)'
                         /\ Asked(d, "file")' => /\ transport'[Default].rootCAs = Default
                                                 /\ FilesOf(d)' \subseteq pool'[Default]
  BY DEF BareInv
<1>1. Finalized(c) /\ BareInv
  BY DEF Finalizing, IndInv
<1>2. /\ Bare /\ transport'[Default] = transport[Default] /\ replaced' = replaced
      /\ Default \in PoolIds /\ pool[Default] \subseteq pool'[Default]
  BY <1>1, BareStays, FinalizedTLS DEF Finalized, PoolIds
<1>3. /\ FilesOf(d)' = FilesOf(d) /\ (Asked(d, "file")' <=> Asked(d, "file"))
      /\ AsksNothing(d)' <=> AsksNothing(d)
      /\ client'[d].tlsMods = client[d].tlsMods /\ client'[d].proxyFunc = client[d].proxyFunc
  BY FinalizedClients DEF AsksNothing
<1>4. CASE d # c
  <2>1. Built(d) /\ Sole(d) /\ Tripper(d)' = Tripper(d)
    BY <1>4, SoleStays
  <2> QED BY <1>1, <1>2, <1>3, <2>1 DEF BareInv
<1>5. CASE d = c
  <2>1. /\ client'[c].httpClient = Own0(c) \/ (client'[c].httpClient = Default /\ ~Needs(c))
        /\ http[Own0(c)].retries = <<>>
    BY <1>5, SoleFinds
  <2>2. CASE ~Wants(c)
    <3>1. client[c].tlsMods = <<>> /\ ~client[c].proxyFunc
      BY <2>2 DEF Wants
    <3>2. \A kind : ~Asked(c, kind)
      BY <3>1 DEF Asked, ModsOf
    <3> QED BY <1>3, <1>5, <3>1, <3>2 DEF AsksNothing
  <2>3. CASE Wants(c)
    <3>1. Tripper(c)' = http'[Own0(c)].transport
      BY <2>1, <2>3 DEF Needs, Tripper
    <3>2. Thru(c, Wants(c)) = None => replaced
      BY <2>3, ObjectsApart DEF Thru, Clones
    <3>3. Tripper(c)' = IF Thru(c, Wants(c)) = None /\ client[c].retryPolicy
                        THEN Custom ELSE Thru(c, Wants(c))
      BY <1>1, <3>1, <3>2 DEF Finalized, DefaultTransport
    <3>4. Tripper(c)' = None => replaced
      BY <3>2, <3>3
    <3>5. ASSUME Tripper(c)' = Default
          PROVE  Reach(c, Wants(c)) /\ Thru(c, Wants(c)) = Default
      <4>1. Thru(c, Wants(c)) = Default
        BY <3>3, <3>5, ObjectsApart
      <4> QED BY <2>1, <2>3, <4>1 DEF Reach, Transports
    <3> QED BY <1>2, <1>3, <1>5, <3>4, <3>5, BareStays
  <2> QED BY <2>2, <2>3
<1> QED BY <1>4, <1>5

LEMMA FinalizedConfigInv ==
  ASSUME NEW c \in Clients, Finalizing(c)
  PROVE  ConfigInv'
<1> SUFFICES ASSUME NEW d \in Clients, Built(d)', Bare', Sole(d)', Tripper(d)' \in Private
             PROVE  Configured(d, Tripper(d))'
  BY DEF ConfigInv, Private
<1>1. Finalized(c) /\ ConfigInv
  BY DEF Finalizing, IndInv
<1>2. PICK t : t = Tripper(d)'
  OBVIOUS
<1>3. /\ Bare /\ transport'[Default] = transport[Default]
      /\ transport[Default].rootCAs \in {None, Default}
  BY BareStays
<1>4. /\ FilesOf(d)' = FilesOf(d) /\ PoolsOf(d)' = PoolsOf(d)
      /\ \A kind : Asked(d, kind)' <=> Asked(d, kind)
      /\ client'[d].proxyFunc = client[d].proxyFunc
  BY FinalizedClients
<1>5. t \in Private /\ t \in Transports /\ t # None /\ t # Default /\ t # Custom
  BY <1>2, ObjectsApart DEF Private, Transports
<1>6. /\ transport'[t].proxy = IF client[d].proxyFunc THEN d ELSE None
      /\ transport'[t].insecure <=> Asked(d, "insecure")
      /\ transport'[t].certificates = IF Asked(d, "certificate") THEN {d} ELSE {}
      /\ Asked(d, "roots") => transport'[t].rootCAs \in PoolsOf(d)
      /\ AllStays(client[d].tlsMods, transport'[t].rootCAs, pool')
      /\ ~Asked(d, "roots") =>
           /\ transport'[t].rootCAs =
                IF BaseRoots(d)' # None THEN Default ELSE IF Asked(d, "file") THEN d ELSE None
           /\ Asked(d, "file") => FilesOf(d) \subseteq pool'[transport'[t].rootCAs]
  <2>1. CASE d # c
    <3>1. /\ Built(d) /\ Sole(d) /\ Tripper(d) = t
          /\ Tripper(c)' = Tripper(d) => Tripper(d) \notin Private
      BY <1>2, <2>1, SoleStays
    <3>2. Configured(d, t)
      BY <1>1, <1>3, <1>5, <3>1 DEF ConfigInv
    <3>3. transport'[t] = transport[t]
      BY <1>5, <3>1, RootOrOld
    <3>4. BaseRoots(d)' = BaseRoots(d)
      BY <1>2, <1>3, <3>1 DEF BaseRoots
    <3>5. transport[t].rootCAs \in PoolIds => pool[transport[t].rootCAs] \subseteq pool'[transport[t].rootCAs]
      BY FinalizedTLS
    <3>6. ~Asked(d, "roots") /\ Asked(d, "file") => transport[t].rootCAs \in PoolIds
      BY <3>2 DEF Configured, PoolIds
    <3>7. AllStays(client[d].tlsMods, transport'[t].rootCAs, pool')
      <4>1. AllStays(client[d].tlsMods, transport[t].rootCAs, pool)
        BY <3>2 DEF Configured
      <4>2. client[d].tlsMods \in Seq(Mods)
        BY Types DEF Finalizing, IndInv, ClientRecords
      <4> QED BY <3>3, <3>5, <4>1, <4>2, StaysOn
    <3> QED BY <3>2, <3>3, <3>4, <3>5, <3>6, <3>7 DEF Configured
  <2>2. CASE d = c
    <3>1. /\ client'[c].httpClient = Own0(c) \/ (client'[c].httpClient = Default /\ ~Needs(c))
          /\ http[Own0(c)].retries = <<>>
          /\ http[Own0(c)].transport \in OwnTransports \cup {None, Default, Custom}
          /\ t \in OwnTransports => transport[t] = Plain
      BY <1>2, <2>2, SoleFinds
    <3>2. client'[c].httpClient = Own0(c)
      <4>1. CASE client'[c].httpClient = Default /\ ~Needs(c)
        <5>1. http'[Default] = Zero
          BY <4>1, FinalizedHTTP DEF Finalizing, IndInv, BuildInv
        <5> QED BY <1>2, <1>5, <2>2, <4>1, <5>1, AbsentIs DEF Tripper
      <4> QED BY <3>1, <4>1
    <3>3. t = Thru(c, Wants(c))
      <4>1. t = http'[Own0(c)].transport
        BY <1>2, <2>2, <3>2 DEF Tripper
      <4>2. t = Thru(c, Wants(c)) \/ t = DefaultTransport
        BY <1>1, <4>1 DEF Finalized
      <4> QED BY <1>5, <4>2 DEF DefaultTransport
    <3>4. BaseRoots(d)' = IF t = c THEN transport[Default].rootCAs ELSE None
      BY <1>2, <1>3, <2>2 DEF BaseRoots
    <3>5. CASE Wants(c)
      <4>1. Reach(c, Wants(c))
        BY <1>5, <3>1, <3>3, <3>5 DEF Reach
      <4>2. PICK old, root : /\ old = Given0(c, Wants(c))
                             /\ root = IF old.rootCAs = None THEN c ELSE old.rootCAs
        OBVIOUS
      <4>3. /\ transport'[t].proxy = IF client[c].proxyFunc THEN c ELSE old.proxy
            /\ transport'[t].insecure <=> old.insecure \/ Asked(c, "insecure")
            /\ transport'[t].certificates =
                 old.certificates \cup IF Asked(c, "certificate") THEN {c} ELSE {}
            /\ Asked(c, "roots") => transport'[t].rootCAs \in PoolsOf(c)
            /\ AllStays(client[c].tlsMods, transport'[t].rootCAs, pool')
            /\ ~Asked(c, "roots") =>
                 /\ transport'[t].rootCAs = IF Asked(c, "file") THEN root ELSE old.rootCAs
                 /\ FilesOf(c) \subseteq pool'[root]
        BY <3>3, <4>1, <4>2, FinalizedConfig
      <4>4. old.proxy = None /\ ~old.insecure /\ old.certificates = {}
            /\ old.rootCAs = IF t = c THEN transport[Default].rootCAs ELSE None
        <5>1. CASE Clones(c, Wants(c))
          <6>1. t = c /\ old = transport[Default]
            BY <3>3, <4>2, <5>1 DEF Thru, Given0
          <6> QED BY <1>3, <6>1 DEF Bare, Plain
        <5>2. CASE ~Clones(c, Wants(c))
          <6>1. t = http[Own0(c)].transport /\ old = transport[t]
            BY <3>3, <4>2, <5>2 DEF Thru, Given0
          <6>2. t \in OwnTransports /\ t # c
            BY <1>5, <3>1, <6>1, ObjectsApart
          <6> QED BY <3>1, <6>1, <6>2 DEF Plain
        <5> QED BY <5>1, <5>2
      <4>5. old.rootCAs \in {None, Default}
        BY <1>3, <4>4
      <4> QED BY <2>2, <3>4, <4>2, <4>3, <4>4, <4>5, ObjectsApart
    <3>6. CASE ~Wants(c)
      <4>1. client[c].tlsMods = <<>> /\ ~client[c].proxyFunc
        BY <3>6 DEF Wants
      <4>2. \A kind : ~Asked(c, kind)
        BY <4>1 DEF Asked, ModsOf
      <4>3. t = http[Own0(c)].transport /\ t \in OwnTransports /\ t # c
        BY <1>5, <3>1, <3>3, <3>6, ObjectsApart DEF Thru, Clones
      <4>4. transport'[t] = Plain
        BY <3>1, <3>6, <4>3, FinalizedTLS
      <4>5. AllStays(client[c].tlsMods, transport'[t].rootCAs, pool')
        BY <4>1, NoneStays
      <4> QED BY <2>2, <3>4, <4>1, <4>2, <4>3, <4>4, <4>5 DEF Plain
    <3> QED BY <3>5, <3>6
  <2> QED BY <2>1, <2>2
<1>7. client'[d].tlsMods = client[d].tlsMods
  BY FinalizedClients
<1> QED BY <1>2, <1>4, <1>6, <1>7 DEF Configured

LEMMA FinalizedRoots ==
  ASSUME NEW c \in Clients, Finalizing(c)
  PROVE  RootsInv'
<1> SUFFICES ASSUME Bare', NEW t \in Transports
             PROVE  /\ \A d \in Clients : transport'[t].rootCAs = d => Tripper(d)' = t
                    /\ \A p \in OwnPools : transport'[t].rootCAs = p =>
                         \E d \in Clients : Built(d)' /\ p \in PoolsOf(d)' /\ Tripper(d)' = t
  BY DEF RootsInv
<1>1. RootsInv /\ MadeInv
  BY DEF Finalizing, IndInv
<1>2. Bare /\ transport[Default].rootCAs \in {None, Default} /\ t # None
  BY BareStays, ObjectsApart DEF Transports
<1>3. /\ PoolsOf(c) \subseteq OwnPools /\ Built(c)'
      /\ \A d \in Clients : PoolsOf(d)' = PoolsOf(d) /\ (Built(d) => Built(d)')
  BY FinalizedClients, OfTypes DEF AtHand
<1>4. ASSUME NEW d \in Clients, transport[t].rootCAs = d PROVE Tripper(d)' = t
  BY <1>1, <1>2, <1>4, FinalizedHTTP DEF RootsInv, MadeInv
<1>5. ASSUME NEW p \in OwnPools, transport[t].rootCAs = p
      PROVE  \E d \in Clients : Built(d)' /\ p \in PoolsOf(d)' /\ Tripper(d)' = t
  BY <1>1, <1>2, <1>3, <1>5, FinalizedHTTP DEF RootsInv
<1>6. CASE transport'[t] = transport[t]
  BY <1>4, <1>5, <1>6
<1>7. CASE transport'[t] # transport[t]
  <2>1. PICK p : p = transport'[t].rootCAs
    OBVIOUS
  <2>2. /\ Tripper(c)' = t
        /\ \/ p \in PoolsOf(c) \/ p = c \/ p = transport[Default].rootCAs
           \/ p = transport[t].rootCAs
    BY <1>7, <2>1, RootOrOld
  <2>3. ASSUME NEW d \in Clients, p = d PROVE Tripper(d)' = t
    BY <1>2, <1>3, <1>4, <2>2, <2>3, ObjectsApart
  <2>4. ASSUME NEW q \in OwnPools, p = q
        PROVE  \E d \in Clients : Built(d)' /\ q \in PoolsOf(d)' /\ Tripper(d)' = t
    <3>1. q \in PoolsOf(c) \/ q = transport[t].rootCAs
      BY <1>2, <2>2, <2>4, ObjectsApart
    <3> QED BY <1>3, <1>5, <2>2, <3>1
  <2> QED BY <2>1, <2>3, <2>4
<1> QED BY <1>6, <1>7

LEMMA FinalizedPools ==
  ASSUME NEW c \in Clients, Finalizing(c)
  PROVE  PoolInv'
<1> SUFFICES ASSUME Bare'
             PROVE  /\ \A d \in Clients : Built(d)' /\ Sole(d)' => pool'[d] \subseteq FilesOf(d)'
                    /\ \A p \in OwnPools : \A f \in pool'[p] \cap Files : \E d \in Clients :
                         /\ Built(d)' /\ f \in FilesOf(d)'
                         /\ \/ p \in PoolsOf(d)'
                            \/ \E e \in Clients : /\ Built(e)' /\ p \in PoolsOf(e)'
                                                  /\ Tripper(e)' = Tripper(d)'
                                                  /\ Tripper(d)' \in Private
  BY DEF PoolInv, Private
<1>1. RootsInv /\ MadeInv /\ PoolInv /\ TypeOK
  BY DEF Finalizing, IndInv
<1>2. Bare /\ transport[Default].rootCAs \in {None, Default}
  BY BareStays
<1>3. /\ Built(c)' /\ ~Built(c)
      /\ \A d \in Clients : /\ PoolsOf(d)' = PoolsOf(d) /\ FilesOf(d)' = FilesOf(d)
                            /\ Built(d) => Built(d)'
  BY FinalizedClients
<1>4. \A t \in Private : t # None
  BY ObjectsApart DEF Private
  (* A pool that changed: the client's own, one it asked for, or the one that *)
  (* its transport, then a private one, pointed to.                           *)
<1>5. ASSUME NEW x \in PoolIds, pool'[x] # pool[x]
      PROVE  /\ pool'[x] \subseteq pool[x] \cup FilesOf(c)
             /\ \/ x = c \/ x \in PoolsOf(c) \/ x = Default
                \/ /\ Tripper(c)' \in Private /\ Tripper(c)' \in Transports
                   /\ x = transport[Tripper(c)'].rootCAs
  <2>1. Reach(c, Wants(c))
    BY <1>5, FinalizedTLS
  <2>2. PICK t, old, root : /\ t = Thru(c, Wants(c)) /\ old = Given0(c, Wants(c))
                            /\ root = IF old.rootCAs = None THEN c ELSE old.rootCAs
    OBVIOUS
  <2>3. /\ pool'[x] \subseteq pool[x] \cup FilesOf(c)
        /\ x = root \/ x \in PoolsOf(c)
    BY <1>5, <2>1, <2>2, FinalizedConfig
  <2>4. t = Tripper(c)' /\ t \in Transports /\ old \in {transport[Default], transport[t]}
    BY <2>1, <2>2, FinalizedTLS DEF Given0
  <2>5. t = Default \/ t \in Private
    BY <2>4 DEF Transports, Private
  <2> QED BY <1>2, <2>2, <2>3, <2>4, <2>5
<1>6. ASSUME NEW d \in Clients, Built(d)', Sole(d)' PROVE pool'[d] \subseteq FilesOf(d)'
  <2>1. d \in PoolIds /\ PoolsOf(c) \subseteq OwnPools /\ d # Default /\ d \notin OwnPools
    BY FinalizedClients, OfTypes, ObjectsApart DEF AtHand, PoolIds
  <2>2. CASE d = c
    <3>1. pool[c] = {}
      BY <1>1, <1>3, Types
    <3> QED BY <1>3, <1>5, <2>1, <2>2, <3>1
  <2>3. CASE d # c
    <3>1. /\ Built(d) /\ Sole(d) /\ Tripper(d)' = Tripper(d)
          /\ Tripper(c)' = Tripper(d) => Tripper(d) \notin Private
      BY <1>6, <2>3, SoleStays
    <3>2. pool[d] \subseteq FilesOf(d)
      BY <1>1, <1>2, <3>1 DEF PoolInv
    <3>3. pool'[d] = pool[d]
      <4>1. ASSUME pool'[d] # pool[d] PROVE FALSE
        <5>1. /\ Tripper(c)' \in Private /\ Tripper(c)' \in Transports
              /\ d = transport[Tripper(c)'].rootCAs
          BY <1>5, <2>1, <2>3, <4>1
        <5>2. Tripper(d) = Tripper(c)'
          BY <1>1, <1>2, <5>1 DEF RootsInv
        <5> QED BY <3>1, <5>1, <5>2
      <4> QED BY <4>1
    <3> QED BY <1>3, <3>2, <3>3
  <2> QED BY <2>2, <2>3
<1>7. ASSUME NEW p \in OwnPools, NEW f \in pool'[p] \cap Files
      PROVE  \E d \in Clients :
               /\ Built(d)' /\ f \in FilesOf(d)'
               /\ \/ p \in PoolsOf(d)'
                  \/ \E e \in Clients : /\ Built(e)' /\ p \in PoolsOf(e)'
                                        /\ Tripper(e)' = Tripper(d)' /\ Tripper(d)' \in Private
  <2>1. p \in PoolIds /\ p # Default /\ p # c
    BY ObjectsApart DEF PoolIds
  <2>2. CASE f \in pool[p]
    <3>1. PICK d \in Clients :
            /\ Built(d) /\ f \in FilesOf(d)
            /\ \/ p \in PoolsOf(d)
               \/ \E e \in Clients : /\ Built(e) /\ p \in PoolsOf(e)
                                     /\ Tripper(e) = Tripper(d) /\ Tripper(d) \in Private
      BY <1>1, <1>2, <2>2 DEF PoolInv
    <3>2. CASE p \in PoolsOf(d)
      BY <1>3, <3>1, <3>2
    <3>3. CASE p \notin PoolsOf(d)
      <4>1. PICK e \in Clients : /\ Built(e) /\ p \in PoolsOf(e)
                                 /\ Tripper(e) = Tripper(d) /\ Tripper(d) \in Private
        BY <3>1, <3>3
      <4>2. Tripper(e)' = Tripper(e) /\ Tripper(d)' = Tripper(d)
        BY <1>4, <3>1, <4>1, FinalizedHTTP
      <4> QED BY <1>3, <3>1, <4>1, <4>2
    <3> QED BY <3>2, <3>3
  <2>3. CASE f \notin pool[p]
    <3>1. /\ f \in FilesOf(c)
          /\ \/ p \in PoolsOf(c)
             \/ /\ Tripper(c)' \in Private /\ Tripper(c)' \in Transports
                /\ p = transport[Tripper(c)'].rootCAs
      BY <1>5, <2>1, <2>3
    <3>2. CASE p \in PoolsOf(c)
      BY <1>3, <3>1, <3>2
    <3>3. CASE p \notin PoolsOf(c)
      <4>1. PICK e \in Clients : Built(e) /\ p \in PoolsOf(e) /\ Tripper(e) = Tripper(c)'
        BY <1>1, <1>2, <3>1, <3>3 DEF RootsInv
      <4>2. Tripper(e)' = Tripper(e)
        BY <1>4, <3>1, <3>3, <4>1, FinalizedHTTP
      <4> QED BY <1>3, <3>1, <3>3, <4>1, <4>2
    <3> QED BY <3>2, <3>3
  <2> QED BY <2>2, <2>3
<1> QED BY <1>6, <1>7

LEMMA FinalizingKeeps ==
  ASSUME NEW c \in Clients, Finalizing(c)
  PROVE  IndInv'
BY FinalizedTypes, FinalizedBuildMade, FinalizedUntouched, FinalizedHTTPInv, FinalizedBare,
   FinalizedConfigInv, FinalizedRoots, FinalizedPools DEF IndInv
-----------------------------------------------------------------------------
(* The steps.                                                               *)
LEMMA NewClientSettles ==
  ASSUME IndInv, NEW c \in Clients, NewClient(c)
  PROVE  Settling(c)
<1>1. /\ building = None /\ client[c].stage = "absent" /\ building' = c
      /\ client' = [client EXCEPT ![c].stage = "options"]
      /\ UNCHANGED <<http, transport, pool, replaced>>
  BY DEF NewClient
<1>2. client \in [Clients -> ClientRecords] /\ client[c] = Absent /\ ~Built(c)
  BY <1>1, Types DEF IndInv, BuildInv, Built
<1>3. PICK r : r = [client[c] EXCEPT !.stage = "options"]
  OBVIOUS
<1>4. client' = [client EXCEPT ![c] = r]
  BY <1>1, <1>2, <1>3
<1>5. r \in ClientRecords /\ r.stage = "options" /\ r.httpClient = None
  BY <1>2, <1>3, AbsentIs DEF ClientRecords
<1> QED BY <1>1, <1>2, <1>4, <1>5 DEF Settling

LEMMA OptionSettles ==
  ASSUME IndInv, NEW c \in Clients, NEW o \in ClientRecords, o.stage = client[c].stage,
         o.httpClient \in HTTPClients \cup {None, Default}, Option(c, o)
  PROVE  Settling(c)
<1>1. /\ building = c /\ client' = [client EXCEPT ![c] = o] /\ building' = building
      /\ UNCHANGED <<http, transport, pool, replaced>>
  BY DEF Option
<1>2. client \in [Clients -> ClientRecords] /\ client[c].stage = "options"
  BY <1>1, Types DEF IndInv, BuildInv
<1> QED BY <1>1, <1>2 DEF Settling, Built

LEMMA NextSettlesOrFinalizes ==
  ASSUME IndInv, Next
  PROVE  \E c \in Clients : Settling(c) \/ Finalizing(c)
<1>1. PICK c \in Clients :
        \/ NewClient(c) \/ WithHTTPClient(c) \/ WithTimeout(c) \/ WithProxy(c) \/ WithRetry(c)
        \/ WithTLS(c) \/ FinalizeOptions(c)
  BY DEF Next
<1>2. /\ client \in [Clients -> ClientRecords] /\ client[c] \in ClientRecords
      /\ building = c => client[c].httpClient \in HTTPClients \cup {None, Default}
  BY Types, InHand DEF IndInv, AtHand
<1>3. CASE NewClient(c)
  BY <1>3, NewClientSettles
<1>4. CASE WithHTTPClient(c)
  <2>1. PICK h \in HTTPClients \cup {Default} : Option(c, [client[c] EXCEPT !.httpClient = h])
    BY <1>4 DEF WithHTTPClient
  <2>2. PICK o : o = [client[c] EXCEPT !.httpClient = h]
    OBVIOUS
  <2>3. o \in ClientRecords /\ o.stage = client[c].stage /\ o.httpClient = h
    BY <1>2, <2>2 DEF ClientRecords
  <2> QED BY <2>1, <2>2, <2>3, OptionSettles
<1>5. CASE WithTimeout(c)
  <2>1. PICK o : o = [client[c] EXCEPT !.timeout = TRUE]
    OBVIOUS
  <2>2. Option(c, o) /\ building = c
    BY <1>5, <2>1 DEF WithTimeout, Option
  <2>3. o \in ClientRecords /\ o.stage = client[c].stage /\ o.httpClient = client[c].httpClient
    BY <1>2, <2>1 DEF ClientRecords
  <2> QED BY <1>2, <2>2, <2>3, OptionSettles
<1>6. CASE WithProxy(c)
  <2>1. PICK o : o = [client[c] EXCEPT !.proxyFunc = TRUE]
    OBVIOUS
  <2>2. Option(c, o) /\ building = c
    BY <1>6, <2>1 DEF WithProxy, Option
  <2>3. o \in ClientRecords /\ o.stage = client[c].stage /\ o.httpClient = client[c].httpClient
    BY <1>2, <2>1 DEF ClientRecords
  <2> QED BY <1>2, <2>2, <2>3, OptionSettles
<1>7. CASE WithRetry(c)
  <2>1. PICK o : o = [client[c] EXCEPT !.retryPolicy = TRUE]
    OBVIOUS
  <2>2. Option(c, o) /\ building = c
    BY <1>7, <2>1 DEF WithRetry, Option
  <2>3. o \in ClientRecords /\ o.stage = client[c].stage /\ o.httpClient = client[c].httpClient
    BY <1>2, <2>1 DEF ClientRecords
  <2> QED BY <1>2, <2>2, <2>3, OptionSettles
<1>8. CASE WithTLS(c)
  <2>1. PICK m \in Mods : Option(c, [client[c] EXCEPT !.tlsMods = Append(@, m)])
    BY <1>8 DEF WithTLS
  <2>2. PICK o : o = [client[c] EXCEPT !.tlsMods = Append(@, m)]
    OBVIOUS
  <2>3. Option(c, o) /\ building = c
    BY <2>1, <2>2 DEF Option
  <2>4. Append(client[c].tlsMods, m) \in Seq(Mods)
    BY <1>2 DEF ClientRecords
  <2>5. o \in ClientRecords /\ o.stage = client[c].stage /\ o.httpClient = client[c].httpClient
    BY <1>2, <2>2, <2>4 DEF ClientRecords
  <2> QED BY <1>2, <2>3, <2>5, OptionSettles
<1>9. CASE FinalizeOptions(c)
  <2>1. building = c
    BY <1>9 DEF FinalizeOptions
  <2>2. /\ AtHand(c) /\ client[c].timeout \in BOOLEAN /\ client[c].proxyFunc \in BOOLEAN
        /\ client[c].retryPolicy \in BOOLEAN
    BY <2>1, InHand
  <2>3. Finalized(c)
    BY <1>9, <2>2, FinalizeOptionsDoes
  <2> QED BY <2>3 DEF Finalizing
<1> QED BY <1>1, <1>3, <1>4, <1>5, <1>6, <1>7, <1>8, <1>9

LEMMA StutterKeeps ==
  ASSUME IndInv, UNCHANGED vars
  PROVE  IndInv'
<1> USE DEF vars
<1>1. TypeOK'
  BY DEF IndInv, TypeOK, Built
<1>2. BuildInv' /\ MadeInv' /\ Untouched'
  BY DEF IndInv, BuildInv, MadeInv, Untouched, Built
<1>3. HTTPInv' /\ BareInv'
  BY DEF IndInv, HTTPInv, BareInv, AsksNothing, Bare, Sole, Mine, Tripper, Built, Asked, FilesOf, ModsOf
<1>4. ConfigInv'
  <2> SUFFICES ASSUME NEW c \in Clients, Built(c)', Bare', Sole(c)', Tripper(c)' \in Private
               PROVE  Configured(c, Tripper(c))'
    BY DEF ConfigInv, Private
  <2>1. Built(c) /\ Bare /\ Sole(c) /\ Tripper(c) \in Private /\ Tripper(c)' = Tripper(c)
    BY DEF Built, Bare, Sole, Tripper
  <2>2. Configured(c, Tripper(c))
    BY <2>1 DEF IndInv, ConfigInv
  <2>3. /\ BaseRoots(c)' = BaseRoots(c) /\ PoolsOf(c)' = PoolsOf(c) /\ FilesOf(c)' = FilesOf(c)
        /\ client' = client /\ transport' = transport /\ pool' = pool
        /\ \A kind : Asked(c, kind)' <=> Asked(c, kind)
    BY DEF BaseRoots, Tripper, PoolsOf, FilesOf, Asked, ModsOf
  <2> QED BY <2>1, <2>2, <2>3 DEF Configured
<1>5. RootsInv' /\ PoolInv'
  BY DEF IndInv, RootsInv, PoolInv, Bare, Sole, Tripper, Built, FilesOf, PoolsOf, ModsOf
<1> QED BY <1>1, <1>2, <1>3, <1>4, <1>5 DEF IndInv

(* The inductive invariant holds in every state: options are applied to     *)
(* objects as the program made them or as other clients' options left them. *)
THEOREM InvariantHolds == Spec => []IndInv
<1>1. Init => IndInv
  BY InitInv
<1>2. IndInv /\ [Next]_vars => IndInv'
  BY NextSettlesOrFinalizes, SettlingKeeps, FinalizingKeeps, StutterKeeps
<1> QED BY <1>1, <1>2, PTL DEF Spec

(* Every object keeps its type, and a client's own objects are as new until  *)
(* it is built.                                                             *)
THEOREM TypeCorrect == Spec => []TypeOK
<1>1. IndInv => TypeOK
  BY DEF IndInv
<1> QED BY <1>1, InvariantHolds, PTL

(* What is found behind a RoundTripper that is no other client's.           *)
LEMMA AloneIs ==
  ASSUME TypeOK, NEW c \in Clients, Built(c), Alone(c)
  PROVE  Bare /\ Sole(c)
<1>1. Bare
  BY DEF Alone, Bare
<1>2. ASSUME NEW d \in Clients \ {c}, Built(d)
      PROVE  /\ client[d].httpClient # client[c].httpClient
             /\ Tripper(d) = Tripper(c) => Tripper(c) \notin Private
  <2>1. /\ client[d].httpClient # client[c].httpClient
        /\ Sends(d) = Sends(c) => Sends(c) \in {Default, Custom}
    BY <1>2 DEF Alone
  <2>2. ASSUME Tripper(d) = Tripper(c), Tripper(c) \in Private PROVE FALSE
    <3>1. Tripper(c) # None /\ Tripper(c) \notin {Default, Custom}
      BY <2>2, ObjectsApart DEF Private
    <3>2. Sends(c) = Tripper(c) /\ Sends(d) = Tripper(d)
      BY <2>2, <3>1 DEF Sends, Mine, Carrier, Tripper
    <3> QED BY <2>1, <2>2, <3>1, <3>2
  <2> QED BY <2>1, <2>2
<1> QED BY <1>1, <1>2 DEF Sole

LEMMA AloneTrusts ==
  ASSUME IndInv, NEW c \in Clients, Built(c), Alone(c),
         NEW p \in PoolsOf(c), NEW f \in pool[p] \cap Files
  PROVE  f \in FilesOf(c)
<1>1. TypeOK /\ PoolInv
  BY DEF IndInv
<1>2. Bare /\ Sole(c)
  BY <1>1, AloneIs
<1>3. client[c].tlsMods \in Seq(Mods)
  BY <1>1, Types DEF ClientRecords
<1>4. p \in OwnPools
  BY <1>3, OfTypes
<1>5. \A d \in Clients : Built(d) /\ p \in PoolsOf(d) => d = c
  BY DEF Alone
<1>6. PICK d \in Clients :
        /\ Built(d) /\ f \in FilesOf(d)
        /\ \/ p \in PoolsOf(d)
           \/ \E e \in Clients : /\ Built(e) /\ p \in PoolsOf(e)
                                 /\ Tripper(e) = Tripper(d) /\ Tripper(d) \in Private
  BY <1>1, <1>2, <1>4 DEF PoolInv
<1>7. CASE p \in PoolsOf(d)
  BY <1>5, <1>6, <1>7
<1>8. CASE p \notin PoolsOf(d)
  <2>1. Tripper(c) = Tripper(d) /\ Tripper(d) \in Private
    BY <1>5, <1>6, <1>8
  <2>2. d = c
    BY <1>2, <1>6, <2>1 DEF Sole
  <2> QED BY <1>6, <2>2
<1> QED BY <1>7, <1>8

(* A client that shares nothing has what it asked for and nothing else.     *)
LEMMA InvIsAsAsked ==
  ASSUME IndInv
  PROVE  BuiltAsAsked
<1> SUFFICES ASSUME NEW c \in Clients, Built(c), Alone(c)
             PROVE  /\ Mine(c).timeout = IF client[c].timeout THEN c ELSE None
                    /\ Mine(c).retries = IF client[c].retryPolicy THEN <<c>> ELSE <<>>
                    /\ Sends(c) # Custom =>
                         /\ Config(c).proxy = IF client[c].proxyFunc THEN c ELSE None
                         /\ Config(c).insecure = Asked(c, "insecure")
                         /\ Config(c).certificates = IF Asked(c, "certificate") THEN {c} ELSE {}
                         /\ Config(c).rootCAs = Default \/ Trusted(c) \cap Files \subseteq FilesOf(c)
                         /\ \A i \in DOMAIN client[c].tlsMods : LastPool(c, i) =>
                              /\ Config(c).rootCAs = client[c].tlsMods[i].of
                              /\ FilesAfter(c, i) \subseteq Trusted(c)
                         /\ PoolsOf(c) = {} =>
                              /\ Config(c).rootCAs \in IF Asked(c, "file") THEN {c, Default} ELSE {None, Default}
                              /\ FilesOf(c) \subseteq Trusted(c)
  BY DEF BuiltAsAsked
<1>1. TypeOK /\ BuildInv /\ HTTPInv /\ BareInv /\ ConfigInv /\ PoolInv
  BY DEF IndInv
<1>2. Bare /\ Sole(c)
  BY <1>1, AloneIs
<1>3. /\ Mine(c).timeout = IF client[c].timeout THEN c ELSE None
      /\ Mine(c).retries = IF client[c].retryPolicy THEN <<c>> ELSE <<>>
  BY <1>1, <1>2 DEF HTTPInv
<1>4. /\ PoolsOf(c) \subseteq OwnPools /\ FilesOf(c) \subseteq Files
      /\ Asked(c, "roots") <=> PoolsOf(c) # {}
      /\ FilesOf(c) # {} => Asked(c, "file")
  BY <1>1, Types, OfTypes DEF ClientRecords
<1>5. PICK t : t = Sends(c)
  OBVIOUS
<1>6. ASSUME t # Custom
      PROVE  /\ t \in Transports
             /\ transport[t].proxy = IF client[c].proxyFunc THEN c ELSE None
             /\ transport[t].insecure <=> Asked(c, "insecure")
             /\ transport[t].certificates = IF Asked(c, "certificate") THEN {c} ELSE {}
             /\ transport[t].rootCAs \in {None, Default, c} \cup PoolsOf(c)
             /\ AllStays(client[c].tlsMods, transport[t].rootCAs, pool)
             /\ ~Asked(c, "roots") =>
                  transport[t].rootCAs \in IF Asked(c, "file") THEN {c, Default} ELSE {None, Default}
             /\ ~Asked(c, "roots") /\ Asked(c, "file") =>
                  transport[t].rootCAs # None /\ FilesOf(c) \subseteq pool[transport[t].rootCAs]
  <2>1. Tripper(c) \in Trippers
    BY <1>1, Types DEF BuildInv, HTTPIds, HTTPRecords, Tripper
  <2>2. t = IF Tripper(c) = None THEN DefaultTransport ELSE Tripper(c)
    BY <1>5 DEF Sends, Mine, Carrier, Tripper
  <2>3. CASE Tripper(c) \in Private
    <3>1. t = Tripper(c) /\ t \in Transports
      BY <2>2, <2>3, ObjectsApart DEF Private, Transports
    <3>2. Configured(c, t)
      BY <1>1, <1>2, <2>3, <3>1 DEF ConfigInv
    <3>3. c # None /\ Default # None
      BY ObjectsApart
    <3> QED BY <3>1, <3>2, <3>3 DEF Configured
  <2>4. CASE Tripper(c) \notin Private
    <3>1. \/ Tripper(c) = Default
          \/ Tripper(c) = None /\ ~replaced
      BY <1>6, <2>1, <2>2, <2>4 DEF Trippers, Transports, Private, DefaultTransport
    <3>2. t = Default /\ Default \in Transports
      BY <2>2, <3>1, ObjectsApart DEF DefaultTransport, Transports
    <3>3. AsksNothing(c) /\ (Asked(c, "file") => /\ transport[Default].rootCAs = Default
                                                 /\ FilesOf(c) \subseteq pool[Default])
      <4>1. CASE Tripper(c) = Default
        BY <1>1, <1>2, <4>1 DEF BareInv
      <4>2. CASE Tripper(c) = None /\ ~replaced
        <5>1. client[c].tlsMods = <<>> /\ ~client[c].proxyFunc
          BY <1>1, <1>2, <4>2 DEF BareInv
        <5>2. \A kind : ~Asked(c, kind)
          BY <5>1 DEF Asked, ModsOf
        <5> QED BY <5>1, <5>2 DEF AsksNothing
      <4> QED BY <3>1, <4>1, <4>2
    <3>4. /\ transport[Default].proxy = None /\ ~transport[Default].insecure
          /\ transport[Default].certificates = {}
          /\ transport[Default].rootCAs \in {None, Default}
      BY <1>2 DEF Bare, Plain
    <3>5. AllStays(client[c].tlsMods, transport[Default].rootCAs, pool)
      <4>1. ~Asked(c, "roots")
        BY <3>3 DEF AsksNothing
      <4> QED BY <4>1 DEF AllStays, PoolStays, LastOf, Asked, ModsOf
    <3> QED BY <3>2, <3>3, <3>4, <3>5, ObjectsApart DEF AsksNothing
  <2> QED BY <2>3, <2>4
<1>7. ASSUME t # Custom
      PROVE  /\ Config(c) = transport[t] /\ Config(c).insecure \in BOOLEAN
             /\ Trusted(c) = IF transport[t].rootCAs = None THEN {} ELSE pool[transport[t].rootCAs]
  <2>1. Config(c) = transport[t]
    BY <1>5 DEF Config
  <2>2. Config(c).insecure \in BOOLEAN
    BY <1>1, <1>6, <1>7, <2>1, Types DEF Configs
  <2> QED BY <2>1, <2>2 DEF Trusted
<1>8. ASSUME t # Custom, transport[t].rootCAs # Default
      PROVE  Trusted(c) \cap Files \subseteq FilesOf(c)
  <2>1. CASE transport[t].rootCAs = None
    BY <1>7, <1>8, <2>1
  <2>2. CASE transport[t].rootCAs = c
    <3>1. pool[c] \subseteq FilesOf(c)
      BY <1>1, <1>2 DEF PoolInv
    <3>2. c # None
      BY ObjectsApart
    <3> QED BY <1>7, <1>8, <2>2, <3>1, <3>2
  <2>3. CASE transport[t].rootCAs \in PoolsOf(c)
    <3>1. Trusted(c) = pool[transport[t].rootCAs]
      BY <1>4, <1>7, <1>8, <2>3, ObjectsApart
    <3> QED BY <2>3, <3>1, AloneTrusts
  <2> QED BY <1>6, <1>8, <2>1, <2>2, <2>3
<1>9. ASSUME t # Custom, PoolsOf(c) = {} PROVE FilesOf(c) \subseteq Trusted(c)
  BY <1>4, <1>6, <1>7, <1>9
<1>10. ASSUME t # Custom, NEW i \in DOMAIN client[c].tlsMods, LastPool(c, i)
       PROVE  /\ transport[t].rootCAs = client[c].tlsMods[i].of
              /\ FilesAfter(c, i) \subseteq Trusted(c)
  <2>1. client[c].tlsMods \in Seq(Mods)
    BY <1>1, Types DEF ClientRecords
  <2>2. PICK mods : mods = client[c].tlsMods
    OBVIOUS
  <2>3. i \in 1..Len(mods) /\ DOMAIN mods = 1..Len(mods) /\ mods[i] \in Mods
    BY <1>10, <2>1, <2>2
  <2>4. LastOf(mods, Len(mods), i)
    BY <1>10, <2>2, <2>3 DEF LastPool, LastOf
  <2>5. FilesAfter(c, i) = Since(mods, Len(mods), i)
    BY <2>2, <2>3 DEF FilesAfter, Since
  <2>6. /\ transport[t].rootCAs = mods[i].of
        /\ Since(mods, Len(mods), i) \subseteq pool[transport[t].rootCAs]
    BY <1>6, <1>10, <2>2, <2>3, <2>4 DEF AllStays, PoolStays
  <2>7. transport[t].rootCAs # None
    BY <2>3, <2>4, <2>6, ModTypes, ObjectsApart DEF LastOf
  <2> QED BY <1>7, <1>10, <2>2, <2>5, <2>6, <2>7
<1>11. ASSUME Sends(c) # Custom
       PROVE  /\ Config(c).proxy = IF client[c].proxyFunc THEN c ELSE None
              /\ Config(c).insecure = Asked(c, "insecure")
              /\ Config(c).certificates = IF Asked(c, "certificate") THEN {c} ELSE {}
              /\ Config(c).rootCAs = Default \/ Trusted(c) \cap Files \subseteq FilesOf(c)
              /\ \A i \in DOMAIN client[c].tlsMods : LastPool(c, i) =>
                   /\ Config(c).rootCAs = client[c].tlsMods[i].of
                   /\ FilesAfter(c, i) \subseteq Trusted(c)
              /\ PoolsOf(c) = {} =>
                   /\ Config(c).rootCAs \in IF Asked(c, "file") THEN {c, Default} ELSE {None, Default}
                   /\ FilesOf(c) \subseteq Trusted(c)
  <2>1. t # Custom /\ Config(c) = transport[t] /\ Config(c).insecure \in BOOLEAN
    BY <1>5, <1>7, <1>11
  <2>2. Config(c).insecure = Asked(c, "insecure")
    <3>1. Config(c).insecure <=> Asked(c, "insecure")
      BY <1>6, <2>1
    <3>2. Asked(c, "insecure") \in BOOLEAN
      BY DEF Asked
    <3> QED BY <2>1, <3>1, <3>2
  <2>3. /\ Config(c).proxy = IF client[c].proxyFunc THEN c ELSE None
        /\ Config(c).certificates = IF Asked(c, "certificate") THEN {c} ELSE {}
    BY <1>6, <2>1
  <2>4. Config(c).rootCAs = Default \/ Trusted(c) \cap Files \subseteq FilesOf(c)
    BY <1>8, <2>1
  <2>5. PoolsOf(c) = {} =>
          Config(c).rootCAs \in IF Asked(c, "file") THEN {c, Default} ELSE {None, Default}
    BY <1>4, <1>6, <2>1
  <2>6. \A i \in DOMAIN client[c].tlsMods : LastPool(c, i) =>
           /\ Config(c).rootCAs = client[c].tlsMods[i].of
           /\ FilesAfter(c, i) \subseteq Trusted(c)
    BY <1>10, <2>1
  <2> QED BY <1>9, <2>1, <2>2, <2>3, <2>4, <2>5, <2>6
<1> QED BY <1>3, <1>11

(* Whatever options the clients of a program are given, one that shares     *)
(* nothing with the others has what it asked for and nothing that another   *)
(* asked for. Only what it trusts depends on the order of its options: the  *)
(* last pool given, with the files given after it; with no pool, every file *)
(* given.                                                                   *)
THEOREM BuiltAsAskedHolds == Spec => []BuiltAsAsked
<1>1. IndInv => BuiltAsAsked
  BY InvIsAsAsked
<1> QED BY <1>1, InvariantHolds, PTL

(* finalizeOptions reaches no further than its client's options do.          *)
LEMMA FinalizingReaches ==
  ASSUME NEW c \in Clients, Finalizing(c)
  PROVE  /\ http'[Default] = http[Default]
         /\ \A h \in HTTPIds : http'[h] # http[h] => h \in {c, client[c].httpClient}
         /\ \A t \in Transports : transport'[t] # transport[t] =>
              \/ t = c
              \/ client[c].httpClient # None /\ t = http[client[c].httpClient].transport
         /\ \A p \in PoolIds : pool'[p] # pool[p] =>
              /\ \/ p = c \/ p \in PoolsOf(c)
                 \/ \E t \in Transports : t \in {Default, http[Settled(c)].transport}
                                          /\ p = transport[t].rootCAs
              /\ pool[p] \subseteq pool'[p] /\ pool'[p] \subseteq pool[p] \cup FilesOf(c)
<1>1. Finalized(c) /\ AtHand(c)
  BY FinalizedClients DEF Finalizing
<1>2. Own0(c) = c \/ (client[c].httpClient = Own0(c) /\ Settled(c) = Own0(c) /\ Own0(c) # None)
  <2>1. ASSUME Own0(c) # c PROVE client[c].httpClient = Own0(c) /\ Settled(c) = Own0(c)
    BY <2>1, FinalizedHTTP, ObjectsApart DEF Settled
  <2> QED BY <1>1, <2>1, OwnTypes
<1>3. \A h \in HTTPIds : http'[h] # http[h] => h = Own0(c)
  BY <1>1 DEF Finalized
<1>4. http'[Default] = http[Default]
  BY <1>3, FinalizedHTTP DEF HTTPIds
<1>5. http[c].transport = None
  BY <1>1, AbsentIs DEF AtHand
<1>6. ASSUME Reach(c, Wants(c))
      PROVE  \/ Thru(c, Wants(c)) = c /\ Given0(c, Wants(c)) = transport[Default]
             \/ /\ client[c].httpClient # None /\ Settled(c) = client[c].httpClient
                /\ Thru(c, Wants(c)) = http[client[c].httpClient].transport
                /\ Thru(c, Wants(c)) \in Transports
                /\ Given0(c, Wants(c)) = transport[Thru(c, Wants(c))]
  <2>1. CASE Clones(c, Wants(c))
    BY <2>1 DEF Thru, Given0
  <2>2. CASE ~Clones(c, Wants(c))
    <3>1. /\ Thru(c, Wants(c)) = http[Own0(c)].transport /\ Thru(c, Wants(c)) \in Transports
          /\ Given0(c, Wants(c)) = transport[Thru(c, Wants(c))]
      BY <1>6, <2>2, FinalizedTLS
    <3>2. Own0(c) # c
      BY <1>5, <3>1, ObjectsApart DEF Transports
    <3> QED BY <1>2, <3>1, <3>2
  <2> QED BY <2>1, <2>2
<1>7. ASSUME NEW t \in Transports, transport'[t] # transport[t]
      PROVE  \/ t = c
             \/ client[c].httpClient # None /\ t = http[client[c].httpClient].transport
  <2>1. Reach(c, Wants(c)) /\ t = Thru(c, Wants(c))
    BY <1>7, FinalizedTLS
  <2> QED BY <1>6, <2>1
<1>8. ASSUME NEW p \in PoolIds, pool'[p] # pool[p]
      PROVE  /\ \/ p = c \/ p \in PoolsOf(c)
                \/ \E t \in Transports : t \in {Default, http[Settled(c)].transport}
                                         /\ p = transport[t].rootCAs
             /\ pool[p] \subseteq pool'[p] /\ pool'[p] \subseteq pool[p] \cup FilesOf(c)
  <2>1. Reach(c, Wants(c))
    BY <1>8, FinalizedTLS
  <2>2. PICK t, old, root : /\ t = Thru(c, Wants(c)) /\ old = Given0(c, Wants(c))
                            /\ root = IF old.rootCAs = None THEN c ELSE old.rootCAs
    OBVIOUS
  <2>3. /\ p = root \/ p \in PoolsOf(c)
        /\ pool[p] \subseteq pool'[p] /\ pool'[p] \subseteq pool[p] \cup FilesOf(c)
    BY <1>8, <2>1, <2>2, FinalizedConfig, FinalizedTLS
  <2>4. Default \in Transports
    BY DEF Transports
  <2>5. \/ old = transport[Default]
        \/ t \in Transports /\ t = http[Settled(c)].transport /\ old = transport[t]
    BY <1>6, <2>1, <2>2
  <2> QED BY <2>2, <2>3, <2>4, <2>5
<1> QED BY <1>2, <1>3, <1>4, <1>7, <1>8

(* Building a client changes no object but its own, those that its options  *)
(* were given and one of Go's: the pool that http.DefaultTransport points   *)
(* to, to which it may add the files that it was asked to trust. That       *)
(* transport itself it changes only when it was given it.                   *)
THEOREM OthersAreLeftAlone == Spec => OthersLeftAlone
<1> DEFINE Kept ==
      /\ http'[Default] = http[Default]
      /\ \A h \in DOMAIN http : http'[h] # http[h] => h \in {building, client[building].httpClient}
      /\ \A t \in Transports : transport'[t] # transport[t] =>
           \/ t = building
           \/ client[building].httpClient # None /\ t = http[client[building].httpClient].transport
      /\ \A p \in PoolIds : pool'[p] # pool[p] =>
           /\ \/ p = building \/ p \in PoolsOf(building)
              \/ \E t \in Transports : t \in {Default, http[Settled(building)].transport}
                                       /\ p = transport[t].rootCAs
           /\ pool[p] \subseteq pool'[p] /\ pool'[p] \subseteq pool[p] \cup FilesOf(building)
<1>1. ASSUME IndInv, Next PROVE Kept
  <2>1. PICK c \in Clients : Settling(c) \/ Finalizing(c)
    BY <1>1, NextSettlesOrFinalizes
  <2>2. CASE Settling(c)
    BY <2>2 DEF Settling
  <2>3. CASE Finalizing(c)
    <3>1. building = c /\ DOMAIN http = HTTPIds
      BY <2>3, FinalizedClients, FinalizedHTTP
    <3> QED BY <2>3, <3>1, FinalizingReaches
  <2> QED BY <2>1, <2>2, <2>3
<1>2. IndInv /\ [Next]_vars => [Kept]_vars
  BY <1>1
<1> QED BY <1>2, InvariantHolds, PTL DEF Spec, OthersLeftAlone
=============================================================================
