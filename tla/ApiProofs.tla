------------------------------ MODULE ApiProofs ------------------------------
(***************************************************************************)
(* Theorems about Api, for any names of objects: what is checked of each   *)
(* row of the request tables, and what follows for the program that calls  *)
(* the methods one after another.                                          *)
(***************************************************************************)
EXTENDS Api, TLAPS

\* The kinds that some method returns without their client.
Loose == {"LooseRule", "VzTmpl", "VNetSubnet"}

\* The kinds that some method creates, but does not give their place.
Rules == {"NodeRule", "GuestRule", "ContainerRule"}

\* The method makes handles.
Maker(row) == row.gives.form \in {"one", "each", "found", "created"}

\* The code fills in a field of the new handle with the element of the
\* request's path that stands where the field stands in the handle's own
\* path, and has asked for an object below that path.
Placed(kind, keys, path, i) ==
  /\ i \in DOMAIN path /\ keys[Home[kind][i]] = path[i]
  /\ \A j \in 1..i : \/ Home[kind][j] \in Fields
                     \/ Home[kind][j] = path[j] /\ path[j] \notin Arguments

\* Every field is filled in so, or the reply names it.
Fills(kind, keys, path, named) ==
  /\ Len(path) \in Nat /\ DOMAIN path = 1..Len(path)
  /\ \A i \in DOMAIN Home[kind] : Home[kind][i] \in Fields =>
       IF Home[kind][i] \in DOMAIN keys THEN Placed(kind, keys, path, i) ELSE Home[kind][i] \in named

\* What the reply of a row is sure to name: nothing, when the method may
\* return a handle without one.
SureNames(row) ==
  IF row.verb = "-" \/ row.tolerant \/ (row.gives.form = "one" /\ row.gives.null = "kept")
  THEN {} ELSE NamedByReply(row.gives.form, row.gives.kind)

Filled(row) == Fills(row.gives.kind, row.gives.keys, row.path, SureNames(row))

\* The same of every field but the position, which is the caller's.
FilledButForPosition(row) ==
  /\ row.gives.kind \in Rules /\ <<row.on, row.op>> \in KeepThePosition
  /\ Len(row.path) \in Nat /\ DOMAIN row.path = 1..Len(row.path)
  /\ DOMAIN row.gives.keys = Keys[row.gives.kind] /\ row.gives.keys[".pos"] = "<pos>"
  /\ \A i \in DOMAIN Home[row.gives.kind] : Home[row.gives.kind][i] \in Fields \ {".pos"} =>
       Placed(row.gives.kind, row.gives.keys, row.path, i)

\* A method that makes handles is not called on one without its client, nor on a
\* rule.  It gives the client to the handle and fills it in; or it is one of those
\* that do not, and leaves the fields to the reply.
MakerOK(row) ==
  /\ row.gives.kind \in Kinds /\ row.on \notin Loose \cup Rules
  /\ row.gives.form = "one" /\ row.gives.null = "nil" => <<row.on, row.op>> \in MayBeNil
  /\ row.gives.wired => Filled(row) \/ FilledButForPosition(row)
  /\ ~row.gives.wired => /\ row.gives.kind \in Loose
                         /\ row.gives.kind # "LooseRule" => <<row.on, row.op>> \in LeftUnwired
                         /\ row.gives.keys = FromReply \/ Filled(row)

\* A sound row: it trusts the reply only if listed, and makes its handles well.  A
\* rule's method sends the rule's own path, and leaves the rule the handle it is.
RowOK(row) ==
  /\ row.on \in Kinds
  /\ row.on \in Rules => row.path = Home[row.on] /\ row.gives.form \in {"itself", "nothing"}
  /\ row.gives.null = "panic" => <<row.on, row.op>> \in TrustTheReply
  /\ row.on = "LooseRule" /\ row.verb # "-" => ".client" \in row.must
  /\ Maker(row) => MakerOK(row)

\* The part of TypeOK that speaks of the handle.
HandTyped ==
  /\ hand.kind \in Kinds /\ hand.state \in {"wired", "unwired", "nil"}
  /\ hand.keys \in [Keys[hand.kind] -> Anything]
  /\ meant \in [Keys[hand.kind] -> Anything]

\* The handle at hand knows the object it was asked for; but the handle of a new
\* rule may have another position.
KnowsIt ==
  \/ hand.keys = meant
  \/ /\ hand.kind \in Rules /\ hand.maker \in KeepThePosition
     /\ \A k \in Keys[hand.kind] : hand.keys[k] = meant[k] \/ k = ".pos"

\* While it has its client, or is nil, the handle knows its object; handles without
\* a client come from a few methods only and are of three kinds, which make no handles.
HandInv ==
  /\ hand.state # "unwired" => KnowsIt
  /\ hand.state = "unwired" => /\ hand.kind \in Loose
                               /\ hand.kind # "LooseRule" => hand.maker \in LeftUnwired
  /\ hand.state = "nil" => hand.kind = "Task" \/ hand.maker \in MayBeNil

\* The inductive invariant.
IndInv == TypeOK /\ HandInv /\ NothingPanics /\ RequestsNameTheirObject
-----------------------------------------------------------------------------
(***************************************************************************)
(* A new handle.  When the fields are filled in as RowOK says and the      *)
(* handle at hand knows its object, the new handle knows the object that   *)
(* was asked for.                                                          *)
(***************************************************************************)

\* The path of a request has the elements of the row's path, each in its place.
LEMMA PathOf ==
  ASSUME NEW row, NEW keys, NEW args, Len(row.path) \in Nat, DOMAIN row.path = 1..Len(row.path)
  PROVE  /\ Len(Path(row, keys, args)) = Len(row.path)
         /\ DOMAIN Path(row, keys, args) = DOMAIN row.path
         /\ \A i \in DOMAIN row.path : Path(row, keys, args)[i] = Element(row.path[i], keys, args)
<1> DEFINE path == Path(row, keys, args)
<1>1. path = [i \in 1..Len(row.path) |-> Element(row.path[i], keys, args)]
  BY DEF Path
<1> DEFINE S == {path[i] : i \in 1..Len(row.path)}
<1>2. path \in [1..Len(row.path) -> S]
  BY <1>1
<1> HIDE DEF path, S
<1>3. path \in Seq(S) /\ Len(path) = Len(row.path)
  BY <1>2
<1> QED BY <1>1, <1>3 DEF path

LEMMA KeysAreFields ==
  ASSUME NEW kind \in Kinds, NEW k \in Keys[kind]
  PROVE  k \in Fields /\ \E i \in DOMAIN Home[kind] : Home[kind][i] = k
BY DEF Keys

\* A field that the code fills in stands in the request for what the object has there.
LEMMA FixedByThePath ==
  ASSUME NEW row, NEW args, Len(row.path) \in Nat, DOMAIN row.path = 1..Len(row.path),
         NEW id \in About(row.gives.kind, Path(row, meant, args)),
         DOMAIN Home[row.gives.kind] \subseteq Nat \ {0},
         NEW i \in DOMAIN Home[row.gives.kind], Home[row.gives.kind][i] \in Fields,
         Placed(row.gives.kind, row.gives.keys, row.path, i)
  PROVE  id[Home[row.gives.kind][i]] = Element(row.gives.keys[Home[row.gives.kind][i]], meant, args)
<1> DEFINE sent == Path(row, meant, args)
           home == Home[row.gives.kind]
<1>1. /\ Len(sent) = Len(row.path) /\ Len(row.path) \in Nat /\ DOMAIN row.path = 1..Len(row.path)
      /\ \A j \in DOMAIN row.path : sent[j] = Element(row.path[j], meant, args)
  BY PathOf
<1>2. i \in DOMAIN row.path /\ row.gives.keys[home[i]] = row.path[i]
  BY DEF Placed
<1>3. ASSUME NEW j \in 1..i, home[j] \notin Fields
      PROVE  home[j] = sent[j]
  <2>1. home[j] = row.path[j] /\ row.path[j] \notin Arguments
    BY <1>3 DEF Placed
  <2>2. j \in DOMAIN row.path
    BY <1>1, <1>2
  <2> QED BY <1>1, <1>3, <2>1, <2>2 DEF Element
<1>4. i <= Len(sent) /\ \A j \in 1..i : home[j] \in Fields \cup {sent[j]}
  BY <1>1, <1>2, <1>3
<1>5. id[home[i]] = sent[i]
  <2> HIDE DEF sent
  <2> QED BY <1>4 DEF About, sent
<1> QED BY <1>1, <1>2, <1>5

LEMMA KnowsItsObject ==
  ASSUME NEW row, row.gives.kind \in Kinds, Filled(row), NEW args,
         hand.keys = meant, DOMAIN Home[row.gives.kind] \subseteq Nat \ {0},
         NEW id \in About(row.gives.kind, Path(row, meant, args)),
         NEW named, SureNames(row) \subseteq named
  PROVE  NewKeys(row, args, id, named) = id
<1> DEFINE kind == row.gives.kind
           new == NewKeys(row, args, id, named)
<1>1. id \in [Keys[kind] -> Anything]
  BY DEF About
<1>2. new = [k \in Keys[kind] |->
               IF k \in DOMAIN row.gives.keys THEN Element(row.gives.keys[k], hand.keys, args)
               ELSE IF k \in named THEN id[k] ELSE Zero(k)]
  BY DEF NewKeys
<1>3. ASSUME NEW k \in Keys[kind]
      PROVE  new[k] = id[k]
  <2>1. PICK i \in DOMAIN Home[kind] : Home[kind][i] = k
    BY KeysAreFields
  <2>2. k \in Fields
    BY KeysAreFields
  <2>3. CASE k \in DOMAIN row.gives.keys
    <3>1. new[k] = Element(row.gives.keys[k], hand.keys, args)
      BY <1>2, <2>3
    <3>2. /\ Len(row.path) \in Nat /\ DOMAIN row.path = 1..Len(row.path)
          /\ Placed(kind, row.gives.keys, row.path, i)
      BY <2>1, <2>2, <2>3 DEF Filled, Fills
    <3>3. id[Home[kind][i]] = Element(row.gives.keys[Home[kind][i]], meant, args)
      BY <2>1, <2>2, <3>2, FixedByThePath
    <3> QED BY <2>1, <3>1, <3>3
  <2>4. CASE k \notin DOMAIN row.gives.keys
    <3>1. k \in named
      BY <2>1, <2>2, <2>4 DEF Filled, Fills
    <3> QED BY <1>2, <2>4, <3>1
  <2> QED BY <2>3, <2>4
<1>4. new = [k \in Keys[kind] |-> new[k]]
  BY <1>2
<1>5. id = [k \in Keys[kind] |-> id[k]]
  BY <1>1
<1> QED BY <1>3, <1>4, <1>5

LEMMA ZeroIsAValue == \A k : Zero(k) \in Anything
BY Zenon DEF Zero, Anything

LEMMA NothingFilledIn == DOMAIN FromReply = {} /\ FromReply \in [{} -> Anything]
BY Zenon DEF FromReply

\* Of a handle that the code does not fill in, each field is what the reply says, or zero.
LEMMA FieldsAreValues ==
  ASSUME NEW row, row.gives.keys = FromReply, NEW args, NEW named,
         NEW id \in [Keys[row.gives.kind] -> Anything]
  PROVE  NewKeys(row, args, id, named) \in [Keys[row.gives.kind] -> Anything]
BY ZeroIsAValue, NothingFilledIn, Zenon DEF NewKeys

\* The places of a path are counted from one.
LEMMA HomesAreTuples == \A kind \in Kinds : DOMAIN Home[kind] \subseteq Nat \ {0}
BY DEF Kinds, Home

LEMMA TaskIsAKind == "Task" \in Kinds
BY DEF Kinds, Home
\* A rule is known by its position.
LEMMA PositionsAreKeys == \A kind \in Rules : kind \in Kinds /\ ".pos" \in Keys[kind] /\ kind # "Task"
<1>1. /\ Home["NodeRule"][5] = ".pos" /\ 5 \in DOMAIN Home["NodeRule"] /\ "NodeRule" \in Kinds
  BY DEF Home, Kinds
<1>2. /\ Home["GuestRule"][7] = ".pos" /\ 7 \in DOMAIN Home["GuestRule"] /\ "GuestRule" \in Kinds
  BY DEF Home, Kinds
<1>3. /\ Home["ContainerRule"][7] = ".pos" /\ 7 \in DOMAIN Home["ContainerRule"] /\ "ContainerRule" \in Kinds
  BY DEF Home, Kinds
<1>4. ".pos" \in Fields
  BY DEF Fields
<1>5. Rules = {"NodeRule", "GuestRule", "ContainerRule"}
  BY DEF Rules
<1> QED BY <1>1, <1>2, <1>3, <1>4, <1>5 DEF Keys

\* The handle of a new rule knows all of its object but the position.
LEMMA KnowsAllButThePosition ==
  ASSUME NEW row, row.gives.kind \in Kinds, FilledButForPosition(row), NEW args \in Choices(row),
         hand.keys = meant, DOMAIN Home[row.gives.kind] \subseteq Nat \ {0},
         NEW id \in About(row.gives.kind, Path(row, meant, args)), NEW named
  PROVE  /\ NewKeys(row, args, id, named) \in [Keys[row.gives.kind] -> Anything]
         /\ \A k \in Keys[row.gives.kind] \ {".pos"} : NewKeys(row, args, id, named)[k] = id[k]
         /\ NewKeys(row, args, id, named)[".pos"] = args["<pos>"]
         /\ args["<pos>"] \in Values("<pos>")
<1> DEFINE kind == row.gives.kind
           new == NewKeys(row, args, id, named)
<1>1. id \in [Keys[kind] -> Anything]
  BY DEF About
<1>2. new = [k \in Keys[kind] |-> Element(row.gives.keys[k], hand.keys, args)]
  BY DEF NewKeys, FilledButForPosition
<1>3. ASSUME NEW k \in Keys[kind] \ {".pos"}
      PROVE  new[k] = id[k]
  <2>1. PICK i \in DOMAIN Home[kind] : Home[kind][i] = k
    BY KeysAreFields
  <2>2. k \in Fields \ {".pos"}
    BY KeysAreFields
  <2>3. /\ Len(row.path) \in Nat /\ DOMAIN row.path = 1..Len(row.path)
        /\ Placed(kind, row.gives.keys, row.path, i)
    BY <2>1, <2>2 DEF FilledButForPosition
  <2>4. id[Home[kind][i]] = Element(row.gives.keys[Home[kind][i]], meant, args)
    BY <2>1, <2>2, <2>3, FixedByThePath
  <2> QED BY <1>2, <2>1, <2>4
<1>4. ".pos" \in Keys[kind]
  BY PositionsAreKeys DEF FilledButForPosition
<1>5. "<pos>" \in Arguments /\ "<pos>" \notin Fields
  BY DEF Arguments, Fields
<1>6. new[".pos"] = args["<pos>"]
  BY <1>2, <1>4, <1>5 DEF FilledButForPosition, Element
<1>7. args["<pos>"] \in Values("<pos>")
  <2>1. "<pos>" \in Named(row)
    BY <1>4, <1>5 DEF Named, FilledButForPosition
  <2> QED BY <2>1 DEF Choices
<1>8. Values("<pos>") \subseteq Anything
  BY ZeroIsAValue, Zenon DEF Values, Anything
<1>9. new \in [Keys[kind] -> Anything]
  <2>1. \A k \in Keys[kind] : new[k] \in Anything
    BY <1>1, <1>3, <1>6, <1>7, <1>8
  <2> QED BY <1>2, <2>1
<1> QED BY <1>3, <1>6, <1>7, <1>9

-----------------------------------------------------------------------------
(***************************************************************************)
(* The steps.  A method takes the handle at hand to a new one (Take), to a *)
(* nil one (TakeNil), or keeps it; it has sent its request (Done) or not   *)
(* (NotSent).                                                              *)
(***************************************************************************)

\* A sound row's method takes a wired handle to one that is wired and knows its
\* object, or to one of the kinds that come without a client.
LEMMA TakeKeeps ==
  ASSUME NEW row, RowOK(row), Maker(row), HandTyped, HandInv,
         hand.state = "wired", hand.kind = row.on, NEW args \in Choices(row),
         NEW id \in About(row.gives.kind, Path(row, meant, args)),
         NEW named, SureNames(row) \subseteq named, Take(row, args, id, named)
  PROVE  HandTyped' /\ HandInv'
<1> DEFINE kind == row.gives.kind
           new == NewKeys(row, args, id, named)
<1>1. MakerOK(row) /\ hand.keys = meant
  BY DEF RowOK, MakerOK, HandInv, KnowsIt
<1>2. kind \in Kinds
  BY <1>1 DEF MakerOK
<1>3. id \in [Keys[kind] -> Anything]
  BY DEF About
<1>4. Filled(row) => new = id
  BY <1>1, <1>2, KnowsItsObject, HomesAreTuples
<1>5. /\ hand'.kind = kind /\ hand'.keys = new /\ hand'.maker = <<row.on, row.op>> /\ meant' = id
      /\ hand'.state = IF row.gives.wired THEN "wired" ELSE "unwired"
  BY DEF Take
<1>6. CASE row.gives.wired /\ Filled(row)
  <2>1. new = id /\ hand'.state = "wired"
    BY <1>4, <1>5, <1>6
  <2> HIDE DEF new, kind
  <2> QED BY <1>2, <1>3, <1>5, <2>1 DEF HandTyped, HandInv, KnowsIt
<1>7. CASE row.gives.wired /\ FilledButForPosition(row)
  <2>1. /\ new \in [Keys[kind] -> Anything] /\ \A k \in Keys[kind] : new[k] = id[k] \/ k = ".pos"
        /\ hand'.state = "wired"
    BY <1>1, <1>2, <1>5, <1>7, KnowsAllButThePosition, HomesAreTuples
  <2>2. kind \in Rules /\ <<row.on, row.op>> \in KeepThePosition
    BY <1>7 DEF FilledButForPosition
  <2> HIDE DEF new, kind
  <2> QED BY <1>2, <1>3, <1>5, <2>1, <2>2 DEF HandTyped, HandInv, KnowsIt
<1>8. CASE ~ row.gives.wired
  <2>1. /\ hand'.state = "unwired" /\ kind \in Loose
        /\ kind # "LooseRule" => hand'.maker \in LeftUnwired
    BY <1>1, <1>5, <1>8 DEF MakerOK
  <2>2. new \in [Keys[kind] -> Anything]
    BY <1>1, <1>3, <1>4, <1>8, FieldsAreValues DEF MakerOK
  <2> HIDE DEF new, kind
  <2> QED BY <1>2, <1>3, <1>5, <2>1, <2>2 DEF HandTyped, HandInv
<1> QED BY <1>1, <1>6, <1>7, <1>8 DEF MakerOK

LEMMA TakeNilKeeps ==
  ASSUME NEW row, NEW kind \in Kinds, kind = "Task" \/ <<row.on, row.op>> \in MayBeNil,
         TakeNil(row, kind)
  PROVE  HandTyped' /\ HandInv'
<1>1. /\ hand'.kind = kind /\ hand'.state = "nil" /\ hand'.maker = <<row.on, row.op>>
      /\ hand'.keys = [k \in Keys[kind] |-> Zero(k)] /\ meant' = [k \in Keys[kind] |-> Zero(k)]
  BY DEF TakeNil
<1>2. hand'.keys \in [Keys[kind] -> Anything]
  BY <1>1, ZeroIsAValue
<1> QED BY <1>1, <1>2 DEF HandTyped, HandInv, KnowsIt

\* A request that a handle knowing its object has sent is the one that was meant, or
\* differs from it in the position.
LEMMA DoneKeeps ==
  ASSUME HandTyped, HandInv, hand.state = "wired",
         NEW row, RowOK(row), hand.kind = row.on, NEW args, row.on \in Rules => UNCHANGED hand,
         NEW outcome \in {"ok", "error", "panic"}, outcome = "panic" => row.gives.null = "panic",
         Done(row, args, outcome)
  PROVE  /\ last'.outcome \in {"ok", "nothing", "refused", "error", "crash", "panic"}
         /\ NothingPanics' /\ RequestsNameTheirObject'
<1> DEFINE sent == Path(row, hand.keys, args)
           intended == Path(row, meant, args)
<1>1. /\ last'.sent = sent /\ last'.intended = intended /\ last'.outcome = outcome
      /\ last'.op = row.op /\ last'.by = row.on
  BY DEF Done
<1>2. NullIsSurvived'
  BY <1>1 DEF NullIsSurvived, RowOK
<1>3. HandlesReachTheServer'
  BY <1>1 DEF HandlesReachTheServer
<1>4. RequestsNameTheirObject'
  <2>1. CASE hand.keys = meant
    <3>1. sent = intended
      BY <2>1
    <3> HIDE DEF sent, intended
    <3> QED BY <1>1, <3>1 DEF RequestsNameTheirObject
  <2>2. CASE /\ hand.kind \in Rules /\ hand.maker \in KeepThePosition
             /\ \A k \in Keys[hand.kind] : hand.keys[k] = meant[k] \/ k = ".pos"
    <3>1. UNCHANGED hand /\ row.path = Home[hand.kind] /\ hand.kind \in Kinds
      BY <2>2 DEF RowOK, HandTyped
    <3>2. DOMAIN sent = DOMAIN Home[hand.kind] /\ DOMAIN intended = DOMAIN Home[hand.kind]
      BY <3>1 DEF Path
    <3>3. ASSUME NEW i \in DOMAIN Home[hand.kind], Home[hand.kind][i] # ".pos"
          PROVE  sent[i] = intended[i]
      <4>1. sent[i] = Element(Home[hand.kind][i], hand.keys, args)
        BY <3>1 DEF Path
      <4>2. intended[i] = Element(Home[hand.kind][i], meant, args)
        BY <3>1 DEF Path
      <4>3. Home[hand.kind][i] \in Fields => Home[hand.kind][i] \in Keys[hand.kind]
        BY <3>1 DEF Keys
      <4> HIDE DEF sent, intended
      <4> QED BY <2>2, <3>3, <4>1, <4>2, <4>3 DEF Element
    <3> HIDE DEF sent, intended
    <3> QED BY <1>1, <2>2, <3>1, <3>2, <3>3 DEF RequestsNameTheirObject
  <2> QED BY <2>1, <2>2 DEF HandInv, KnowsIt
<1> HIDE DEF sent, intended
<1> QED BY <1>1, <1>2, <1>3, <1>4 DEF NothingPanics

LEMMA NotSentMeans ==
  ASSUME NEW row, NEW outcome, NotSent(row, outcome)
  PROVE  last'.sent = last'.intended /\ last'.outcome = outcome
<1>1. PICK none : none = NoCall
  OBVIOUS
<1>2. /\ none.sent = none.intended
      /\ DOMAIN none = {"op", "by", "verb", "sent", "intended", "outcome"}
  BY <1>1 DEF NoCall
<1>3. last' = [none EXCEPT !.op = row.op, !.by = row.on, !.outcome = outcome]
  BY <1>1 DEF NotSent
<1> QED BY <1>2, <1>3

LEMMA NotSentKeeps ==
  ASSUME NEW row, NEW outcome \in {"ok", "nothing", "refused"}, NotSent(row, outcome)
  PROVE  /\ last'.outcome \in {"ok", "nothing", "refused", "error", "crash", "panic"}
         /\ NothingPanics' /\ RequestsNameTheirObject'
BY NotSentMeans DEF NothingPanics, HandlesReachTheServer, NullIsSurvived, RequestsNameTheirObject

LEMMA KeptKeeps ==
  ASSUME HandTyped, HandInv, Kept
  PROVE  HandTyped' /\ HandInv'
BY DEF Kept, HandTyped, HandInv, KnowsIt

\* A method that makes handles is not called on one without its client.
LEMMA MakersAreWired ==
  ASSUME NEW row, RowOK(row), Maker(row), HandTyped, HandInv, hand.state # "nil", hand.kind = row.on
  PROVE  hand.state = "wired"
BY DEF RowOK, MakerOK, HandTyped, HandInv

LEMMA CrashKeeps ==
  ASSUME IndInv, NEW row, RowOK(row), hand.kind = row.on, NEW args, Crash(row, args)
  PROVE  IndInv'
<1>1. HandTyped /\ HandInv /\ HandTyped' /\ HandInv'
  BY KeptKeeps DEF Crash, IndInv, TypeOK, HandTyped
<1>2. last'.sent = last'.intended /\ last'.outcome = "crash" /\ UNCHANGED hand
  BY NotSentMeans DEF Crash, Kept
<1>3. CASE hand.state = "nil"
  BY <1>1, <1>2, <1>3 DEF HandInv, IndInv, TypeOK, HandTyped, NothingPanics, HandlesReachTheServer,
                          NullIsSurvived, RequestsNameTheirObject
<1>4. CASE hand.state = "unwired" /\ row.verb # "-" /\ ~ Missing(row, args)
  <2>1. hand.kind # "LooseRule"
    BY <1>4 DEF RowOK, Missing
  <2>2. hand.maker \in LeftUnwired
    BY <1>1, <1>4, <2>1 DEF HandInv
  <2> QED BY <1>1, <1>2, <1>4, <2>2 DEF IndInv, TypeOK, HandTyped, NothingPanics, HandlesReachTheServer,
                                        NullIsSurvived, RequestsNameTheirObject
<1> QED BY <1>3, <1>4 DEF Crash

LEMMA RefuseKeeps ==
  ASSUME IndInv, NEW row, NEW args, Refuse(row, args)
  PROVE  IndInv'
<1>1. NotSent(row, IF row.silent THEN "nothing" ELSE "refused") /\ Kept
  BY DEF Refuse
<1>2. HandTyped' /\ HandInv'
  BY <1>1, KeptKeeps DEF IndInv, TypeOK, HandTyped
<1>3. (IF row.silent THEN "nothing" ELSE "refused") \in {"ok", "nothing", "refused"}
  OBVIOUS
<1>4. /\ last'.outcome \in {"ok", "nothing", "refused", "error", "crash", "panic"}
      /\ NothingPanics' /\ RequestsNameTheirObject'
  BY <1>1, <1>3, NotSentKeeps
<1> QED BY <1>2, <1>4 DEF IndInv, TypeOK, HandTyped

\* What a handle made without the help of a reply can be.
LEMMA MadeUnnamed ==
  ASSUME HandTyped, HandInv, NEW row, RowOK(row), row.gives.form = "one", SureNames(row) = {},
         hand.state # "nil", hand.kind = row.on, NEW args \in Choices(row),
         NEW id \in About(row.gives.kind, Path(row, meant, args)), Take(row, args, id, {})
  PROVE  HandTyped' /\ HandInv'
BY TakeKeeps, MakersAreWired DEF Maker

LEMMA MakeKeeps ==
  ASSUME IndInv, NEW row, RowOK(row), hand.kind = row.on, NEW args \in Choices(row), Make(row, args)
  PROVE  IndInv'
<1>1. HandTyped /\ HandInv
  BY DEF IndInv, TypeOK, HandTyped
<1>2. NotSent(row, "ok") /\ hand.state # "nil" /\ row.verb = "-"
  BY DEF Make, Calls
<1>3. SureNames(row) = {}
  BY <1>2 DEF SureNames
<1>4. HandTyped' /\ HandInv'
  <2>1. CASE row.gives.form = "one"
    BY <1>1, <1>2, <1>3, <2>1, MadeUnnamed DEF Make
  <2>2. CASE row.gives.form # "one"
    BY <1>1, <2>2, KeptKeeps DEF Make
  <2> QED BY <2>1, <2>2
<1> QED BY <1>2, <1>4, NotSentKeeps DEF IndInv, TypeOK, HandTyped

LEMMA FailKeeps ==
  ASSUME IndInv, NEW row, RowOK(row), hand.kind = row.on, NEW args, Fail(row, args)
  PROVE  IndInv'
<1>1. HandTyped /\ HandInv /\ hand.state = "wired"
  BY DEF IndInv, TypeOK, HandTyped, Fail, Asks
<1>2. HandTyped' /\ HandInv'
  BY <1>1, KeptKeeps DEF Fail
<1>3. Done(row, args, "error") /\ UNCHANGED hand
  BY DEF Fail, Kept
<1>4. /\ last'.outcome \in {"ok", "nothing", "refused", "error", "crash", "panic"}
      /\ NothingPanics' /\ RequestsNameTheirObject'
  BY <1>1, <1>3, DoneKeeps
<1> QED BY <1>2, <1>4 DEF IndInv, TypeOK, HandTyped

LEMMA NotAuthorizedKeeps ==
  ASSUME IndInv, NEW row, RowOK(row), hand.kind = row.on, NEW args \in Choices(row), NotAuthorized(row, args)
  PROVE  IndInv'
<1>1. HandTyped /\ HandInv /\ hand.state = "wired"
  BY DEF IndInv, TypeOK, HandTyped, NotAuthorized, Asks
<1>2. SureNames(row) = {}
  BY DEF NotAuthorized, SureNames
<1>3. HandTyped' /\ HandInv'
  <2>1. CASE row.gives.form = "one"
    BY <1>1, <1>2, <2>1, MadeUnnamed DEF NotAuthorized
  <2>2. CASE row.gives.form # "one"
    BY <1>1, <2>2, KeptKeeps DEF NotAuthorized
  <2> QED BY <2>1, <2>2
<1>4. Done(row, args, "ok") /\ (row.on \in Rules => UNCHANGED hand)
  BY DEF NotAuthorized, RowOK, Kept
<1>5. /\ last'.outcome \in {"ok", "nothing", "refused", "error", "crash", "panic"}
      /\ NothingPanics' /\ RequestsNameTheirObject'
  BY <1>1, <1>4, DoneKeeps
<1> QED BY <1>3, <1>5 DEF IndInv, TypeOK, HandTyped

LEMMA AnswerNullKeeps ==
  ASSUME IndInv, NEW row, RowOK(row), hand.kind = row.on, NEW args \in Choices(row), AnswerNull(row, args)
  PROVE  IndInv'
<1>1. HandTyped /\ HandInv /\ hand.state = "wired"
  BY DEF IndInv, TypeOK, HandTyped, AnswerNull, Asks
<1> DEFINE outcome == CASE row.gives.null = "error" -> "error"
                        [] row.gives.null = "panic" -> "panic"
                        [] OTHER -> "ok"
<1>2. Done(row, args, outcome)
  BY DEF AnswerNull
<1>3. HandTyped' /\ HandInv'
  <2>1. CASE row.gives.null = "nil" /\ row.gives.form = "one"
    <3>1. TakeNil(row, row.gives.kind)
      BY <2>1 DEF AnswerNull
    <3>2. row.gives.kind \in Kinds /\ <<row.on, row.op>> \in MayBeNil
      BY <2>1 DEF RowOK, Maker, MakerOK
    <3> QED BY <3>1, <3>2, TakeNilKeeps
  <2>2. CASE row.gives.null = "nil" /\ row.gives.form = "task"
    <3>1. TakeNil(row, "Task")
      BY <2>2 DEF AnswerNull
    <3> QED BY <3>1, TaskIsAKind, TakeNilKeeps
  <2>3. CASE row.gives.null = "kept" /\ row.gives.form = "one"
    <3>1. PICK id \in About(row.gives.kind, Path(row, meant, args)) : Take(row, args, id, {})
      BY <2>3 DEF AnswerNull
    <3>2. SureNames(row) = {}
      BY <2>3 DEF SureNames
    <3> QED BY <1>1, <2>3, <3>1, <3>2, MadeUnnamed
  <2>4. CASE row.gives.form = "created"
    <3> DEFINE named == NamedByReply(row.gives.form, row.gives.kind)
    <3>1. PICK id \in About(row.gives.kind, Path(row, meant, args)) : Take(row, args, id, named)
      BY <2>4 DEF AnswerNull
    <3>2. SureNames(row) \subseteq named /\ Maker(row)
      BY <2>4 DEF SureNames, Maker
    <3> HIDE DEF named
    <3> QED BY <1>1, <3>1, <3>2, TakeKeeps
  <2>5. CASE /\ ~ (row.gives.null = "nil" /\ row.gives.form \in {"one", "task"})
             /\ ~ (row.gives.null = "kept" /\ row.gives.form = "one") /\ row.gives.form # "created"
    BY <1>1, <2>5, KeptKeeps DEF AnswerNull
  <2> QED BY <2>1, <2>2, <2>3, <2>4, <2>5
<1>4. row.on \in Rules => UNCHANGED hand
  BY DEF AnswerNull, RowOK, Kept
<1>5. outcome \in {"ok", "error", "panic"} /\ (outcome = "panic" => row.gives.null = "panic")
  OBVIOUS
<1> HIDE DEF outcome
<1>6. /\ last'.outcome \in {"ok", "nothing", "refused", "error", "crash", "panic"}
      /\ NothingPanics' /\ RequestsNameTheirObject'
  BY <1>1, <1>2, <1>4, <1>5, DoneKeeps
<1> QED BY <1>3, <1>6 DEF IndInv, TypeOK, HandTyped

LEMMA AnswerKeeps ==
  ASSUME IndInv, NEW row, RowOK(row), hand.kind = row.on, NEW args \in Choices(row), Answer(row, args)
  PROVE  IndInv'
<1>1. HandTyped /\ HandInv /\ hand.state = "wired" /\ row.verb # "-"
  BY DEF IndInv, TypeOK, HandTyped, Answer, Asks
<1>2. HandTyped' /\ HandInv'
  <2>1. CASE Maker(row)
    <3> DEFINE named == NamedByReply(row.gives.form, row.gives.kind)
    <3>1. PICK id \in About(row.gives.kind, Path(row, meant, args)) : Take(row, args, id, named)
      BY <2>1 DEF Answer, Maker
    <3>2. SureNames(row) \subseteq named
      BY DEF SureNames
    <3> HIDE DEF named
    <3> QED BY <1>1, <2>1, <3>1, <3>2, TakeKeeps
  <2>2. CASE row.gives.form = "task"
    <3>1. PICK id \in [Keys["Task"] -> Names] :
              /\ hand' = [kind |-> "Task", state |-> "wired", keys |-> id, maker |-> <<"none", "NewTask">>]
              /\ meant' = id
      BY <2>2 DEF Answer
    <3>2. id \in [Keys["Task"] -> Anything]
      BY Zenon DEF Anything
    <3> QED BY <3>1, <3>2, TaskIsAKind DEF HandTyped, HandInv, KnowsIt
  <2>3. CASE ~ Maker(row) /\ row.gives.form # "task"
    BY <1>1, <2>3, KeptKeeps DEF Answer, Maker
  <2> QED BY <2>1, <2>2, <2>3
<1>3. Done(row, args, "ok") /\ (row.on \in Rules => UNCHANGED hand)
  BY DEF Answer, RowOK, Kept
<1>4. /\ last'.outcome \in {"ok", "nothing", "refused", "error", "crash", "panic"}
      /\ NothingPanics' /\ RequestsNameTheirObject'
  BY <1>1, <1>3, DoneKeeps
<1> QED BY <1>2, <1>4 DEF IndInv, TypeOK, HandTyped

\* A call that is over and done with.
LEMMA NoCallIsFine ==
  /\ NoCall.outcome \in {"ok", "nothing", "refused", "error", "crash", "panic"}
  /\ NoCall.outcome \notin {"crash", "panic"} /\ NoCall.sent = NoCall.intended
BY DEF NoCall

LEMMA TheClientIsFine ==
  /\ TheClient.kind = "Client" /\ TheClient.state = "wired" /\ TheClient.keys = FromReply
  /\ "Client" \in Kinds /\ FromReply \in [Keys["Client"] -> Anything]
<1>1. Home["Client"] = <<>> /\ "Client" \in Kinds
  BY DEF Home, Kinds
<1>2. Keys["Client"] = {}
  BY <1>1 DEF Keys
<1> QED BY <1>1, <1>2, NothingFilledIn DEF TheClient

LEMMA InitIsFine == Init => IndInv
<1> SUFFICES ASSUME Init PROVE IndInv
  OBVIOUS
<1>1. HandTyped /\ HandInv
  BY TheClientIsFine DEF Init, HandTyped, HandInv, KnowsIt
<1> QED BY <1>1, NoCallIsFine DEF Init, IndInv, TypeOK, HandTyped, NothingPanics, HandlesReachTheServer,
                                  NullIsSurvived, RequestsNameTheirObject

LEMMA GoOnKeeps ==
  ASSUME IndInv, GoOn
  PROVE  IndInv'
<1>1. HandTyped' /\ HandInv'
  BY KeptKeeps DEF GoOn, IndInv, TypeOK, HandTyped
<1> QED BY <1>1, NoCallIsFine DEF GoOn, IndInv, TypeOK, HandTyped, NothingPanics, HandlesReachTheServer,
                                  NullIsSurvived, RequestsNameTheirObject

LEMMA StartOverKeeps ==
  ASSUME StartOver
  PROVE  IndInv'
<1>1. HandTyped' /\ HandInv'
  BY TheClientIsFine DEF StartOver, HandTyped, HandInv, KnowsIt
<1> QED BY <1>1, NoCallIsFine DEF StartOver, IndInv, TypeOK, HandTyped, NothingPanics, HandlesReachTheServer,
                                  NullIsSurvived, RequestsNameTheirObject
-----------------------------------------------------------------------------
(***************************************************************************)
(* The rows.  What makes one sound, by what the method makes of the reply. *)
(***************************************************************************)

\* Replies that make no handle.
Plain == {Data, SomeData, Nothing, Itself, ATask}

LEMMA PlainReply ==
  ASSUME NEW gives \in Plain
  PROVE  gives.form \notin {"one", "each", "found", "created"} /\ gives.null # "panic"
<1>1. CASE gives = Data
  BY <1>1 DEF Data, Reply
<1>2. CASE gives = SomeData
  BY <1>2 DEF SomeData, Reply
<1>3. CASE gives = Nothing
  BY <1>3 DEF Nothing, Reply
<1>4. CASE gives = Itself
  BY <1>4 DEF Itself, Reply
<1>5. CASE gives = ATask
  BY <1>5 DEF ATask, Reply
<1> QED BY <1>1, <1>2, <1>3, <1>4, <1>5 DEF Plain

LEMMA PlainRow ==
  ASSUME NEW row, row.on \in Kinds \ Rules, row.on # "LooseRule" \/ ".client" \in row.must, row.gives \in Plain
  PROVE  RowOK(row)
BY PlainReply DEF RowOK, Maker

LEMMA PlainCall ==
  ASSUME NEW on \in Kinds \ Rules, NEW op, NEW verb, NEW path, NEW must, on # "LooseRule" \/ ".client" \in must,
         NEW gives \in Plain
  PROVE  /\ RowOK(Call(on, op, verb, path, must, gives))
         /\ RowOK(Tolerant(Call(on, op, verb, path, must, gives)))
         /\ RowOK(Silently(Call(on, op, verb, path, must, gives)))
<1>1. RowOK(Call(on, op, verb, path, must, gives))
  <2>1. PICK row : row = Call(on, op, verb, path, must, gives)
    OBVIOUS
  <2>2. row.on = on /\ row.must = must /\ row.gives = gives
    BY <2>1 DEF Call
  <2> QED BY <2>1, <2>2, PlainRow
<1>2. RowOK(Tolerant(Call(on, op, verb, path, must, gives)))
  <2>1. PICK call : call = Call(on, op, verb, path, must, gives)
    OBVIOUS
  <2>2. PICK row : row = [call EXCEPT !.tolerant = TRUE]
    OBVIOUS
  <2>3. call.on = on /\ call.must = must /\ call.gives = gives
    BY <2>1 DEF Call
  <2>4. row.on = on /\ row.must = must /\ row.gives = gives
    BY <2>2, <2>3
  <2> QED BY <2>1, <2>2, <2>4, PlainRow DEF Tolerant
<1>3. RowOK(Silently(Call(on, op, verb, path, must, gives)))
  <2>1. PICK call : call = Call(on, op, verb, path, must, gives)
    OBVIOUS
  <2>2. PICK row : row = [call EXCEPT !.silent = TRUE]
    OBVIOUS
  <2>3. call.on = on /\ call.must = must /\ call.gives = gives
    BY <2>1 DEF Call
  <2>4. row.on = on /\ row.must = must /\ row.gives = gives
    BY <2>2, <2>3
  <2> QED BY <2>1, <2>2, <2>4, PlainRow DEF Silently
<1> QED BY <1>1, <1>2, <1>3

LEMMA CallOfItselfTwice ==
  ASSUME NEW on \in Kinds \ Rules, on # "LooseRule", NEW op, <<on, op>> \in TrustTheReply,
         NEW verb, NEW path, NEW must
  PROVE  RowOK(Call(on, op, verb, path, must, ItselfTwice))
<1>1. PICK row : row = Call(on, op, verb, path, must, ItselfTwice)
  OBVIOUS
<1>2. row.on = on /\ row.op = op /\ row.gives = ItselfTwice
  BY <1>1 DEF Call
<1>3. ItselfTwice.form = "itself"
  BY DEF ItselfTwice, Reply
<1> QED BY <1>1, <1>2, <1>3 DEF RowOK, Maker

\* A method that makes handles with their client, and one that makes them without.
LEMMA WiredRow ==
  ASSUME NEW row, NEW form \in {"one", "each", "found", "created"}, NEW kind \in Kinds, NEW keys, NEW null,
         row.gives = Reply(form, kind, keys, TRUE, null), row.on \in Kinds \ (Loose \cup Rules),
         form = "one" /\ null = "nil" => <<row.on, row.op>> \in MayBeNil,
         null = "panic" => <<row.on, row.op>> \in TrustTheReply,
         Filled(row) \/ FilledButForPosition(row)
  PROVE  RowOK(row)
<1>1. PICK gives : gives = row.gives
  OBVIOUS
<1>2. gives.form = form /\ gives.kind = kind /\ gives.null = null /\ gives.wired = TRUE
  BY <1>1 DEF Reply
<1> QED BY <1>1, <1>2 DEF RowOK, Maker, MakerOK, Loose

LEMMA LooseRow ==
  ASSUME NEW row, NEW form \in {"one", "each", "found", "created"}, NEW kind \in Kinds \cap Loose,
         NEW null \in {"kept", "nil", "empty", "error"},
         row.gives = Reply(form, kind, FromReply, FALSE, null), row.on \in Kinds \ (Loose \cup Rules),
         form = "one" /\ null = "nil" => <<row.on, row.op>> \in MayBeNil,
         kind # "LooseRule" => <<row.on, row.op>> \in LeftUnwired
  PROVE  RowOK(row)
<1>1. PICK gives : gives = row.gives
  OBVIOUS
<1>2. /\ gives.form = form /\ gives.kind = kind /\ gives.null = null /\ gives.wired = FALSE
      /\ gives.keys = FromReply
  BY <1>1 DEF Reply
<1>3. row.on # "LooseRule" /\ null # "panic"
  BY DEF Loose
<1>4. MakerOK(row)
  BY <1>1, <1>2 DEF MakerOK
<1> QED BY <1>1, <1>2, <1>3, <1>4 DEF RowOK

\* A handle that the code fills in itself, whatever the reply.
LEMMA FilledOne ==
  ASSUME NEW on \in Kinds \ (Loose \cup Rules), NEW op, NEW verb, NEW path, NEW must,
         NEW kind \in Kinds, NEW keys, Fills(kind, keys, path, {})
  PROVE  /\ RowOK(Call(on, op, verb, path, must, One(kind, keys, Wired, "kept")))
         /\ RowOK(Tolerant(Call(on, op, verb, path, must, One(kind, keys, Wired, "kept"))))
<1>1. PICK gives : gives = One(kind, keys, Wired, "kept")
  OBVIOUS
<1>2. gives = Reply("one", kind, keys, TRUE, "kept")
  BY <1>1 DEF One, Wired
<1>3. gives.form = "one" /\ gives.null = "kept" /\ gives.kind = kind /\ gives.keys = keys
  BY <1>2 DEF Reply
<1>4. ASSUME NEW row, row.on = on, row.path = path, row.gives = gives
      PROVE  RowOK(row)
  <2>1. Filled(row)
    BY <1>3, <1>4 DEF Filled, SureNames
  <2> QED BY <1>2, <1>4, <2>1, WiredRow
<1>5. RowOK(Call(on, op, verb, path, must, gives))
  <2>1. PICK row : row = Call(on, op, verb, path, must, gives)
    OBVIOUS
  <2>2. row.on = on /\ row.path = path /\ row.gives = gives
    BY <2>1 DEF Call
  <2> QED BY <1>4, <2>1, <2>2
<1>6. RowOK(Tolerant(Call(on, op, verb, path, must, gives)))
  <2>1. PICK call : call = Call(on, op, verb, path, must, gives)
    OBVIOUS
  <2>2. PICK row : row = [call EXCEPT !.tolerant = TRUE]
    OBVIOUS
  <2>3. call.on = on /\ call.path = path /\ call.gives = gives
    BY <2>1 DEF Call
  <2>4. row.on = on /\ row.path = path /\ row.gives = gives
    BY <2>2, <2>3
  <2> QED BY <1>4, <2>1, <2>2, <2>4 DEF Tolerant
<1> QED BY <1>1, <1>5, <1>6

\* A handle that the reply helps to name.
LEMMA NamedMaker ==
  ASSUME NEW on \in Kinds \ (Loose \cup Rules), NEW op, NEW verb, verb # "-", NEW path, NEW must,
         NEW form \in {"one", "each", "found", "created"}, NEW kind \in Kinds, NEW keys,
         NEW null, form = "one" => null # "kept",
         form = "one" /\ null = "nil" => <<on, op>> \in MayBeNil,
         null = "panic" => <<on, op>> \in TrustTheReply,
         Fills(kind, keys, path, NamedByReply(form, kind))
  PROVE  RowOK(Call(on, op, verb, path, must, Reply(form, kind, keys, Wired, null)))
<1>1. PICK row : row = Call(on, op, verb, path, must, Reply(form, kind, keys, Wired, null))
  OBVIOUS
<1>2. /\ row.on = on /\ row.op = op /\ row.verb = verb /\ row.path = path /\ row.tolerant = FALSE
      /\ row.gives = Reply(form, kind, keys, TRUE, null)
  BY <1>1 DEF Call, Wired
<1>3. PICK gives : gives = row.gives
  OBVIOUS
<1>4. gives.form = form /\ gives.null = null /\ gives.kind = kind /\ gives.keys = keys
  BY <1>2, <1>3 DEF Reply
<1>5. Filled(row)
  BY <1>2, <1>3, <1>4 DEF Filled, SureNames
<1> QED BY <1>1, <1>2, <1>5, WiredRow

LEMMA NamedOne ==
  ASSUME NEW on \in Kinds \ (Loose \cup Rules), NEW op, NEW verb, verb # "-", NEW path, NEW must,
         NEW kind \in Kinds, NEW keys,
         NEW null, null # "kept", null = "nil" => <<on, op>> \in MayBeNil,
         null = "panic" => <<on, op>> \in TrustTheReply,
         Fills(kind, keys, path, NamedByReply("one", kind))
  PROVE  RowOK(Call(on, op, verb, path, must, One(kind, keys, Wired, null)))
BY NamedMaker DEF One

LEMMA NamedEach ==
  ASSUME NEW on \in Kinds \ (Loose \cup Rules), NEW op, NEW verb, verb # "-", NEW path, NEW must,
         NEW kind \in Kinds, NEW keys,
         Fills(kind, keys, path, NamedByReply("each", kind))
  PROVE  RowOK(Call(on, op, verb, path, must, Each(kind, keys, Wired)))
BY NamedMaker DEF Each

LEMMA NamedFound ==
  ASSUME NEW on \in Kinds \ (Loose \cup Rules), NEW op, NEW verb, verb # "-", NEW path, NEW must,
         NEW kind \in Kinds, NEW keys,
         Fills(kind, keys, path, NamedByReply("found", kind))
  PROVE  RowOK(Call(on, op, verb, path, must, Found(kind, keys, Wired)))
BY NamedMaker DEF Found

\* A new object, which its argument names.
LEMMA NamedCreated ==
  ASSUME NEW on \in Kinds \ (Loose \cup Rules), NEW op, NEW verb, verb # "-", NEW path, NEW must,
         NEW kind \in Kinds, NEW keys,
         Fills(kind, keys, path, NamedByReply("created", kind))
  PROVE  RowOK(Call(on, op, verb, path, must, Created(kind, keys)))
BY NamedMaker DEF Created

\* A new rule.
LEMMA CreatedRule ==
  ASSUME NEW on \in Kinds \ (Loose \cup Rules), NEW op, <<on, op>> \in KeepThePosition,
         NEW verb, NEW path, Len(path) \in Nat, DOMAIN path = 1..Len(path), NEW must,
         NEW kind \in Rules, NEW keys, DOMAIN keys = Keys[kind], keys[".pos"] = "<pos>",
         \A i \in DOMAIN Home[kind] : Home[kind][i] \in Fields \ {".pos"} => Placed(kind, keys, path, i)
  PROVE  RowOK(Call(on, op, verb, path, must, Created(kind, keys)))
<1>1. PICK row : row = Call(on, op, verb, path, must, Created(kind, keys))
  OBVIOUS
<1>2. /\ row.on = on /\ row.op = op /\ row.path = path
      /\ row.gives = Reply("created", kind, keys, TRUE, "kept")
  BY <1>1 DEF Call, Created, Wired
<1>3. PICK gives : gives = row.gives
  OBVIOUS
<1>4. gives.kind = kind /\ gives.keys = keys
  BY <1>2, <1>3 DEF Reply
<1>5. FilledButForPosition(row) /\ kind \in Kinds
  BY <1>2, <1>3, <1>4, PositionsAreKeys DEF FilledButForPosition
<1> QED BY <1>1, <1>2, <1>5, WiredRow

\* A method of a rule.
LEMMA RuleCall ==
  ASSUME NEW on \in Rules, NEW op, NEW verb, NEW must, NEW gives \in {Itself, Nothing}
  PROVE  RowOK(Call(on, op, verb, Home[on], must, gives))
<1>1. PICK row : row = Call(on, op, verb, Home[on], must, gives)
  OBVIOUS
<1>2. row.on = on /\ row.path = Home[on] /\ row.gives = gives
  BY <1>1 DEF Call
<1>3. gives.form \in {"itself", "nothing"} /\ gives.null # "panic"
  BY DEF Itself, Nothing, Reply
<1>4. on \in Kinds /\ on # "LooseRule"
  BY PositionsAreKeys DEF Rules
<1> QED BY <1>1, <1>2, <1>3, <1>4 DEF RowOK, Maker

\* A handle that is returned without its client, and not filled in.
LEMMA LooseMaker ==
  ASSUME NEW on \in Kinds \ (Loose \cup Rules), NEW op, NEW verb, NEW path, NEW must, NEW kind \in Kinds \cap Loose,
         kind # "LooseRule" => <<on, op>> \in LeftUnwired
  PROVE  /\ RowOK(Call(on, op, verb, path, must, Each(kind, FromReply, Unwired)))
         /\ RowOK(Call(on, op, verb, path, must, Found(kind, FromReply, Unwired)))
         /\ RowOK(Call(on, op, verb, path, must, One(kind, FromReply, Unwired, "kept")))
         /\ <<on, op>> \in MayBeNil =>
               RowOK(Call(on, op, verb, path, must, One(kind, FromReply, Unwired, "nil")))
<1>1. ASSUME NEW form \in {"one", "each", "found"}, NEW null \in {"kept", "nil", "empty", "error"},
             form = "one" /\ null = "nil" => <<on, op>> \in MayBeNil
      PROVE  RowOK(Call(on, op, verb, path, must, Reply(form, kind, FromReply, Unwired, null)))
  <2>1. PICK row : row = Call(on, op, verb, path, must, Reply(form, kind, FromReply, Unwired, null))
    OBVIOUS
  <2>2. /\ row.on = on /\ row.op = op
        /\ row.gives = Reply(form, kind, FromReply, FALSE, null)
    BY <2>1 DEF Call, Unwired
  <2> QED BY <1>1, <2>1, <2>2, LooseRow
<1> QED BY <1>1 DEF Each, Found, One
-----------------------------------------------------------------------------
(***************************************************************************)
(* The tables.  For a row that makes a handle, the fields the code fills   *)
(* in, and those the reply names, are the fields of the path.  For every   *)
(* other row it is enough which reply it expects.                          *)
(***************************************************************************)

LEMMA KindsAre ==
  /\ "Client" \in Kinds /\ "Domain" \in Kinds /\ "Group" \in Kinds /\ "User" \in Kinds
  /\ "Role" \in Kinds /\ "Pool" \in Kinds /\ "Cluster" \in Kinds /\ "ClusterBackup" \in Kinds
  /\ "Ceph" \in Kinds /\ "FirewallSecurityGroup" \in Kinds /\ "CustomCPUModel" \in Kinds
  /\ "SDNController" \in Kinds /\ "SDNDNS" \in Kinds /\ "SDNFabric" \in Kinds
  /\ "SDNFabricNode" \in Kinds /\ "SDNIPAM" \in Kinds /\ "SDNPrefixList" \in Kinds
  /\ "SDNPrefixListEntry" \in Kinds /\ "SDNRouteMapEntry" \in Kinds /\ "VNet" \in Kinds
  /\ "VNetSubnet" \in Kinds /\ "Node" \in Kinds /\ "NodeService" \in Kinds
  /\ "NodeReplicationJob" \in Kinds /\ "CephMon" \in Kinds /\ "CephMgr" \in Kinds
  /\ "CephMDS" \in Kinds /\ "CephFS" \in Kinds /\ "CephOSD" \in Kinds /\ "CephPool" \in Kinds
  /\ "Task" \in Kinds /\ "Storage" \in Kinds /\ "PCIDevice" \in Kinds /\ "NodeNetwork" \in Kinds
  /\ "VzTmpl" \in Kinds /\ "Backup" \in Kinds /\ "ISO" \in Kinds /\ "VirtualMachine" \in Kinds
  /\ "VirtualMachineSnapshot" \in Kinds /\ "Container" \in Kinds /\ "ContainerSnapshot" \in Kinds
  /\ "NodeRule" \in Kinds /\ "GuestRule" \in Kinds /\ "ContainerRule" \in Kinds
  /\ "LooseRule" \in Kinds /\ "Appliance" \in Kinds /\ "ClusterStorage" \in Kinds
  /\ "Import" \in Kinds
<1>1. /\ "Client" \in Kinds /\ "Domain" \in Kinds /\ "Group" \in Kinds /\ "User" \in Kinds
      /\ "Role" \in Kinds /\ "Pool" \in Kinds /\ "Cluster" \in Kinds /\ "ClusterBackup" \in Kinds
      /\ "Ceph" \in Kinds /\ "FirewallSecurityGroup" \in Kinds /\ "CustomCPUModel" \in Kinds
      /\ "SDNController" \in Kinds
  BY DEF Kinds, Home
<1>2. /\ "SDNDNS" \in Kinds /\ "SDNFabric" \in Kinds /\ "SDNFabricNode" \in Kinds
      /\ "SDNIPAM" \in Kinds /\ "SDNPrefixList" \in Kinds /\ "SDNPrefixListEntry" \in Kinds
      /\ "SDNRouteMapEntry" \in Kinds /\ "VNet" \in Kinds /\ "VNetSubnet" \in Kinds
      /\ "Node" \in Kinds /\ "NodeService" \in Kinds /\ "NodeReplicationJob" \in Kinds
  BY DEF Kinds, Home
<1>3. /\ "CephMon" \in Kinds /\ "CephMgr" \in Kinds /\ "CephMDS" \in Kinds /\ "CephFS" \in Kinds
      /\ "CephOSD" \in Kinds /\ "CephPool" \in Kinds /\ "Task" \in Kinds /\ "Storage" \in Kinds
      /\ "PCIDevice" \in Kinds /\ "NodeNetwork" \in Kinds /\ "VzTmpl" \in Kinds /\ "Backup" \in Kinds
  BY DEF Kinds, Home
<1>4. /\ "ISO" \in Kinds /\ "VirtualMachine" \in Kinds /\ "VirtualMachineSnapshot" \in Kinds
      /\ "Container" \in Kinds /\ "ContainerSnapshot" \in Kinds /\ "NodeRule" \in Kinds
      /\ "GuestRule" \in Kinds /\ "ContainerRule" \in Kinds /\ "LooseRule" \in Kinds
      /\ "Appliance" \in Kinds /\ "ClusterStorage" \in Kinds /\ "Import" \in Kinds
  BY DEF Kinds, Home
<1> QED BY <1>1, <1>2, <1>3, <1>4

\* Where each kind of object lives: its path, and which names of it are fields.

LEMMA AtDomain ==
  /\ Home["Domain"] = <<"access", "domains", ".realm">>
  /\ "access" \notin Fields \cup Arguments /\ "domains" \notin Fields \cup Arguments
  /\ ".realm" \in Fields /\ 1..3 = {1, 2, 3}
BY DEF Home, Fields, Arguments

LEMMA AtGroup ==
  /\ Home["Group"] = <<"access", "groups", ".groupid">>
  /\ "access" \notin Fields \cup Arguments /\ "groups" \notin Fields \cup Arguments
  /\ ".groupid" \in Fields /\ 1..3 = {1, 2, 3}
BY DEF Home, Fields, Arguments

LEMMA AtUser ==
  /\ Home["User"] = <<"access", "users", ".userid">>
  /\ "access" \notin Fields \cup Arguments /\ "users" \notin Fields \cup Arguments
  /\ ".userid" \in Fields /\ 1..3 = {1, 2, 3}
BY DEF Home, Fields, Arguments

LEMMA AtRole ==
  /\ Home["Role"] = <<"access", "roles", ".roleid">>
  /\ "access" \notin Fields \cup Arguments /\ "roles" \notin Fields \cup Arguments
  /\ ".roleid" \in Fields /\ 1..3 = {1, 2, 3}
BY DEF Home, Fields, Arguments

LEMMA AtPool ==
  /\ Home["Pool"] = <<"pools", ".poolid">>
  /\ "pools" \notin Fields \cup Arguments /\ ".poolid" \in Fields /\ 1..2 = {1, 2}
BY DEF Home, Fields, Arguments

LEMMA AtCluster ==
  /\ Home["Cluster"] = <<"cluster">>
  /\ "cluster" \notin Fields \cup Arguments /\ 1..1 = {1}
BY DEF Home, Fields, Arguments

LEMMA AtClusterBackup ==
  /\ Home["ClusterBackup"] = <<"cluster", "backup", ".id">>
  /\ "cluster" \notin Fields \cup Arguments /\ "backup" \notin Fields \cup Arguments
  /\ ".id" \in Fields /\ 1..3 = {1, 2, 3}
BY DEF Home, Fields, Arguments

LEMMA AtTask ==
  /\ Home["Task"] = <<"nodes", ".node", "tasks", ".upid">>
  /\ "nodes" \notin Fields \cup Arguments /\ ".node" \in Fields
  /\ "tasks" \notin Fields \cup Arguments /\ ".upid" \in Fields /\ 1..4 = {1, 2, 3, 4}
BY DEF Home, Fields, Arguments

LEMMA AtCeph ==
  /\ Home["Ceph"] = <<"cluster", "ceph">>
  /\ "cluster" \notin Fields \cup Arguments /\ "ceph" \notin Fields \cup Arguments /\ 1..2 = {1, 2}
BY DEF Home, Fields, Arguments

LEMMA AtFirewallSecurityGroup ==
  /\ Home["FirewallSecurityGroup"] = <<"cluster", "firewall", "groups", ".group">>
  /\ "cluster" \notin Fields \cup Arguments /\ "firewall" \notin Fields \cup Arguments
  /\ "groups" \notin Fields \cup Arguments /\ ".group" \in Fields /\ 1..4 = {1, 2, 3, 4}
BY DEF Home, Fields, Arguments

LEMMA AtCustomCPUModel ==
  /\ Home["CustomCPUModel"] = <<"cluster", "qemu", "custom-cpu-models", ".cputype">>
  /\ "cluster" \notin Fields \cup Arguments /\ "qemu" \notin Fields \cup Arguments
  /\ "custom-cpu-models" \notin Fields \cup Arguments /\ ".cputype" \in Fields
  /\ 1..4 = {1, 2, 3, 4}
BY DEF Home, Fields, Arguments

LEMMA AtVNet ==
  /\ Home["VNet"] = <<"cluster", "sdn", "vnets", ".name">>
  /\ "cluster" \notin Fields \cup Arguments /\ "sdn" \notin Fields \cup Arguments
  /\ "vnets" \notin Fields \cup Arguments /\ ".name" \in Fields /\ 1..4 = {1, 2, 3, 4}
BY DEF Home, Fields, Arguments

LEMMA AtSDNController ==
  /\ Home["SDNController"] = <<"cluster", "sdn", "controllers", ".controller">>
  /\ "cluster" \notin Fields \cup Arguments /\ "sdn" \notin Fields \cup Arguments
  /\ "controllers" \notin Fields \cup Arguments /\ ".controller" \in Fields /\ 1..4 = {1, 2, 3, 4}
BY DEF Home, Fields, Arguments

LEMMA AtSDNDNS ==
  /\ Home["SDNDNS"] = <<"cluster", "sdn", "dns", ".dns">>
  /\ "cluster" \notin Fields \cup Arguments /\ "sdn" \notin Fields \cup Arguments
  /\ "dns" \notin Fields \cup Arguments /\ ".dns" \in Fields /\ 1..4 = {1, 2, 3, 4}
BY DEF Home, Fields, Arguments

LEMMA AtSDNFabric ==
  /\ Home["SDNFabric"] = <<"cluster", "sdn", "fabrics", "fabric", ".id">>
  /\ "cluster" \notin Fields \cup Arguments /\ "sdn" \notin Fields \cup Arguments
  /\ "fabrics" \notin Fields \cup Arguments /\ "fabric" \notin Fields \cup Arguments
  /\ ".id" \in Fields /\ 1..5 = {1, 2, 3, 4, 5}
BY DEF Home, Fields, Arguments

LEMMA AtSDNFabricNode ==
  /\ Home["SDNFabricNode"] = <<"cluster", "sdn", "fabrics", "node", ".fabricid", ".nodeid">>
  /\ "cluster" \notin Fields \cup Arguments /\ "sdn" \notin Fields \cup Arguments
  /\ "fabrics" \notin Fields \cup Arguments /\ "node" \notin Fields \cup Arguments
  /\ ".fabricid" \in Fields /\ ".nodeid" \in Fields /\ 1..6 = {1, 2, 3, 4, 5, 6}
BY DEF Home, Fields, Arguments

LEMMA AtSDNIPAM ==
  /\ Home["SDNIPAM"] = <<"cluster", "sdn", "ipams", ".ipam">>
  /\ "cluster" \notin Fields \cup Arguments /\ "sdn" \notin Fields \cup Arguments
  /\ "ipams" \notin Fields \cup Arguments /\ ".ipam" \in Fields /\ 1..4 = {1, 2, 3, 4}
BY DEF Home, Fields, Arguments

LEMMA AtSDNPrefixList ==
  /\ Home["SDNPrefixList"] = <<"cluster", "sdn", "prefix-lists", ".id">>
  /\ "cluster" \notin Fields \cup Arguments /\ "sdn" \notin Fields \cup Arguments
  /\ "prefix-lists" \notin Fields \cup Arguments /\ ".id" \in Fields /\ 1..4 = {1, 2, 3, 4}
BY DEF Home, Fields, Arguments

LEMMA AtSDNPrefixListEntry ==
  /\ Home["SDNPrefixListEntry"] = <<"cluster", "sdn", "prefix-lists", ".id", "entries", ".seq">>
  /\ "cluster" \notin Fields \cup Arguments /\ "sdn" \notin Fields \cup Arguments
  /\ "prefix-lists" \notin Fields \cup Arguments /\ ".id" \in Fields
  /\ "entries" \notin Fields \cup Arguments /\ ".seq" \in Fields /\ 1..6 = {1, 2, 3, 4, 5, 6}
BY DEF Home, Fields, Arguments

LEMMA AtSDNRouteMapEntry ==
  /\ Home["SDNRouteMapEntry"] = <<"cluster", "sdn", "route-maps", "entries", ".routemapid", "entry", ".order">>
  /\ "cluster" \notin Fields \cup Arguments /\ "sdn" \notin Fields \cup Arguments
  /\ "route-maps" \notin Fields \cup Arguments /\ "entries" \notin Fields \cup Arguments
  /\ ".routemapid" \in Fields /\ "entry" \notin Fields \cup Arguments /\ ".order" \in Fields
  /\ 1..7 = {1, 2, 3, 4, 5, 6, 7}
BY DEF Home, Fields, Arguments

LEMMA AtVNetSubnet ==
  /\ Home["VNetSubnet"] = <<"cluster", "sdn", "vnets", ".vnet", "subnets", ".id">>
  /\ "cluster" \notin Fields \cup Arguments /\ "sdn" \notin Fields \cup Arguments
  /\ "vnets" \notin Fields \cup Arguments /\ ".vnet" \in Fields
  /\ "subnets" \notin Fields \cup Arguments /\ ".id" \in Fields /\ 1..6 = {1, 2, 3, 4, 5, 6}
BY DEF Home, Fields, Arguments

LEMMA AtNode ==
  /\ Home["Node"] = <<"nodes", ".node">>
  /\ "nodes" \notin Fields \cup Arguments /\ ".node" \in Fields /\ 1..2 = {1, 2}
BY DEF Home, Fields, Arguments

LEMMA AtVirtualMachine ==
  /\ Home["VirtualMachine"] = <<"nodes", ".node", "qemu", ".vmid">>
  /\ "nodes" \notin Fields \cup Arguments /\ ".node" \in Fields
  /\ "qemu" \notin Fields \cup Arguments /\ ".vmid" \in Fields /\ 1..4 = {1, 2, 3, 4}
BY DEF Home, Fields, Arguments

LEMMA AtContainer ==
  /\ Home["Container"] = <<"nodes", ".node", "lxc", ".vmid">>
  /\ "nodes" \notin Fields \cup Arguments /\ ".node" \in Fields
  /\ "lxc" \notin Fields \cup Arguments /\ ".vmid" \in Fields /\ 1..4 = {1, 2, 3, 4}
BY DEF Home, Fields, Arguments

LEMMA AtAppliance ==
  /\ Home["Appliance"] = <<"nodes", ".node", "aplinfo">>
  /\ "nodes" \notin Fields \cup Arguments /\ ".node" \in Fields
  /\ "aplinfo" \notin Fields \cup Arguments /\ 1..3 = {1, 2, 3}
BY DEF Home, Fields, Arguments

LEMMA AtStorage ==
  /\ Home["Storage"] = <<"nodes", ".node", "storage", ".storage">>
  /\ "nodes" \notin Fields \cup Arguments /\ ".node" \in Fields
  /\ "storage" \notin Fields \cup Arguments /\ ".storage" \in Fields /\ 1..4 = {1, 2, 3, 4}
BY DEF Home, Fields, Arguments

LEMMA AtNodeRule ==
  /\ Home["NodeRule"] = <<"nodes", ".node", "firewall", "rules", ".pos">>
  /\ "nodes" \notin Fields \cup Arguments /\ ".node" \in Fields
  /\ "firewall" \notin Fields \cup Arguments /\ "rules" \notin Fields \cup Arguments
  /\ ".pos" \in Fields /\ 1..5 = {1, 2, 3, 4, 5}
BY DEF Home, Fields, Arguments

LEMMA AtNodeService ==
  /\ Home["NodeService"] = <<"nodes", ".node", "services", ".name">>
  /\ "nodes" \notin Fields \cup Arguments /\ ".node" \in Fields
  /\ "services" \notin Fields \cup Arguments /\ ".name" \in Fields /\ 1..4 = {1, 2, 3, 4}
BY DEF Home, Fields, Arguments

LEMMA AtNodeReplicationJob ==
  /\ Home["NodeReplicationJob"] = <<"nodes", ".node", "replication", ".id">>
  /\ "nodes" \notin Fields \cup Arguments /\ ".node" \in Fields
  /\ "replication" \notin Fields \cup Arguments /\ ".id" \in Fields /\ 1..4 = {1, 2, 3, 4}
BY DEF Home, Fields, Arguments

LEMMA AtCephMon ==
  /\ Home["CephMon"] = <<"nodes", ".node", "ceph", "mon", ".name">>
  /\ "nodes" \notin Fields \cup Arguments /\ ".node" \in Fields
  /\ "ceph" \notin Fields \cup Arguments /\ "mon" \notin Fields \cup Arguments /\ ".name" \in Fields
  /\ 1..5 = {1, 2, 3, 4, 5}
BY DEF Home, Fields, Arguments

LEMMA AtCephMgr ==
  /\ Home["CephMgr"] = <<"nodes", ".node", "ceph", "mgr", ".name">>
  /\ "nodes" \notin Fields \cup Arguments /\ ".node" \in Fields
  /\ "ceph" \notin Fields \cup Arguments /\ "mgr" \notin Fields \cup Arguments /\ ".name" \in Fields
  /\ 1..5 = {1, 2, 3, 4, 5}
BY DEF Home, Fields, Arguments

LEMMA AtCephMDS ==
  /\ Home["CephMDS"] = <<"nodes", ".node", "ceph", "mds", ".name">>
  /\ "nodes" \notin Fields \cup Arguments /\ ".node" \in Fields
  /\ "ceph" \notin Fields \cup Arguments /\ "mds" \notin Fields \cup Arguments /\ ".name" \in Fields
  /\ 1..5 = {1, 2, 3, 4, 5}
BY DEF Home, Fields, Arguments

LEMMA AtCephFS ==
  /\ Home["CephFS"] = <<"nodes", ".node", "ceph", "fs", ".name">>
  /\ "nodes" \notin Fields \cup Arguments /\ ".node" \in Fields
  /\ "ceph" \notin Fields \cup Arguments /\ "fs" \notin Fields \cup Arguments /\ ".name" \in Fields
  /\ 1..5 = {1, 2, 3, 4, 5}
BY DEF Home, Fields, Arguments

LEMMA AtCephOSD ==
  /\ Home["CephOSD"] = <<"nodes", ".node", "ceph", "osd", ".osdid">>
  /\ "nodes" \notin Fields \cup Arguments /\ ".node" \in Fields
  /\ "ceph" \notin Fields \cup Arguments /\ "osd" \notin Fields \cup Arguments
  /\ ".osdid" \in Fields /\ 1..5 = {1, 2, 3, 4, 5}
BY DEF Home, Fields, Arguments

LEMMA AtCephPool ==
  /\ Home["CephPool"] = <<"nodes", ".node", "ceph", "pool", ".poolname">>
  /\ "nodes" \notin Fields \cup Arguments /\ ".node" \in Fields
  /\ "ceph" \notin Fields \cup Arguments /\ "pool" \notin Fields \cup Arguments
  /\ ".poolname" \in Fields /\ 1..5 = {1, 2, 3, 4, 5}
BY DEF Home, Fields, Arguments

LEMMA AtPCIDevice ==
  /\ Home["PCIDevice"] = <<"nodes", ".node", "hardware", "pci", ".id">>
  /\ "nodes" \notin Fields \cup Arguments /\ ".node" \in Fields
  /\ "hardware" \notin Fields \cup Arguments /\ "pci" \notin Fields \cup Arguments
  /\ ".id" \in Fields /\ 1..5 = {1, 2, 3, 4, 5}
BY DEF Home, Fields, Arguments

LEMMA AtNodeNetwork ==
  /\ Home["NodeNetwork"] = <<"nodes", ".node", "network", ".iface">>
  /\ "nodes" \notin Fields \cup Arguments /\ ".node" \in Fields
  /\ "network" \notin Fields \cup Arguments /\ ".iface" \in Fields /\ 1..4 = {1, 2, 3, 4}
BY DEF Home, Fields, Arguments

LEMMA AtClusterStorage ==
  /\ Home["ClusterStorage"] = <<"storage", ".storage">>
  /\ "storage" \notin Fields \cup Arguments /\ ".storage" \in Fields /\ 1..2 = {1, 2}
BY DEF Home, Fields, Arguments

LEMMA AtISO ==
  /\ Home["ISO"] = <<"nodes", ".node", "storage", ".storage", "content", ".volid">>
  /\ "nodes" \notin Fields \cup Arguments /\ ".node" \in Fields
  /\ "storage" \notin Fields \cup Arguments /\ ".storage" \in Fields
  /\ "content" \notin Fields \cup Arguments /\ ".volid" \in Fields /\ 1..6 = {1, 2, 3, 4, 5, 6}
BY DEF Home, Fields, Arguments

LEMMA AtVzTmpl ==
  /\ Home["VzTmpl"] = <<"nodes", ".node", "storage", ".storage", "content", ".volid">>
  /\ "nodes" \notin Fields \cup Arguments /\ ".node" \in Fields
  /\ "storage" \notin Fields \cup Arguments /\ ".storage" \in Fields
  /\ "content" \notin Fields \cup Arguments /\ ".volid" \in Fields /\ 1..6 = {1, 2, 3, 4, 5, 6}
BY DEF Home, Fields, Arguments

LEMMA AtImport ==
  /\ Home["Import"] = <<"nodes", ".node", "storage", ".storage", "content", ".volid">>
  /\ "nodes" \notin Fields \cup Arguments /\ ".node" \in Fields
  /\ "storage" \notin Fields \cup Arguments /\ ".storage" \in Fields
  /\ "content" \notin Fields \cup Arguments /\ ".volid" \in Fields /\ 1..6 = {1, 2, 3, 4, 5, 6}
BY DEF Home, Fields, Arguments

LEMMA AtBackup ==
  /\ Home["Backup"] = <<"nodes", ".node", "storage", ".storage", "content", ".volid">>
  /\ "nodes" \notin Fields \cup Arguments /\ ".node" \in Fields
  /\ "storage" \notin Fields \cup Arguments /\ ".storage" \in Fields
  /\ "content" \notin Fields \cup Arguments /\ ".volid" \in Fields /\ 1..6 = {1, 2, 3, 4, 5, 6}
BY DEF Home, Fields, Arguments

LEMMA AtGuestRule ==
  /\ Home["GuestRule"] = <<"nodes", ".node", "qemu", ".vmid", "firewall", "rules", ".pos">>
  /\ "nodes" \notin Fields \cup Arguments /\ ".node" \in Fields
  /\ "qemu" \notin Fields \cup Arguments /\ ".vmid" \in Fields
  /\ "firewall" \notin Fields \cup Arguments /\ "rules" \notin Fields \cup Arguments
  /\ ".pos" \in Fields /\ 1..7 = {1, 2, 3, 4, 5, 6, 7}
BY DEF Home, Fields, Arguments

LEMMA AtVirtualMachineSnapshot ==
  /\ Home["VirtualMachineSnapshot"] = <<"nodes", ".node", "qemu", ".vmid", "snapshot", ".name">>
  /\ "nodes" \notin Fields \cup Arguments /\ ".node" \in Fields
  /\ "qemu" \notin Fields \cup Arguments /\ ".vmid" \in Fields
  /\ "snapshot" \notin Fields \cup Arguments /\ ".name" \in Fields /\ 1..6 = {1, 2, 3, 4, 5, 6}
BY DEF Home, Fields, Arguments

LEMMA AtContainerSnapshot ==
  /\ Home["ContainerSnapshot"] = <<"nodes", ".node", "lxc", ".vmid", "snapshot", ".name">>
  /\ "nodes" \notin Fields \cup Arguments /\ ".node" \in Fields
  /\ "lxc" \notin Fields \cup Arguments /\ ".vmid" \in Fields
  /\ "snapshot" \notin Fields \cup Arguments /\ ".name" \in Fields /\ 1..6 = {1, 2, 3, 4, 5, 6}
BY DEF Home, Fields, Arguments

LEMMA AtContainerRule ==
  /\ Home["ContainerRule"] = <<"nodes", ".node", "lxc", ".vmid", "firewall", "rules", ".pos">>
  /\ "nodes" \notin Fields \cup Arguments /\ ".node" \in Fields
  /\ "lxc" \notin Fields \cup Arguments /\ ".vmid" \in Fields
  /\ "firewall" \notin Fields \cup Arguments /\ "rules" \notin Fields \cup Arguments
  /\ ".pos" \in Fields /\ 1..7 = {1, 2, 3, 4, 5, 6, 7}
BY DEF Home, Fields, Arguments

LEMMA AccessRealmsAndGroupsOK == \A row \in AccessRealmsAndGroups : RowOK(row)
<1>1. RowOK(Get("Client", "Domain", <<"access", "domains", "<realm>">>, {},
                One("Domain", ".realm" :> "<realm>", Wired, "panic")))
  <2>1. Fills("Domain", ".realm" :> "<realm>",
              <<"access", "domains", "<realm>">>, NamedByReply("one", "Domain"))
    BY AtDomain DEF Fills, Placed, :>
  <2> QED BY <2>1, KindsAre, NamedOne DEF Get, Loose, Rules, TrustTheReply
<1>2. RowOK(Get("Client", "Domains", <<"access", "domains">>, {}, Each("Domain", FromReply, Wired)))
  <2>1. Fills("Domain", FromReply, <<"access", "domains">>, NamedByReply("each", "Domain"))
    BY AtDomain, NothingFilledIn DEF Fills, Placed, NamedByReply, LastKey, FullyListed
  <2> QED BY <2>1, KindsAre, NamedEach DEF Get, Loose, Rules
<1>3. RowOK(Get("Client", "Group", <<"access", "groups", "<groupid>">>, {},
                One("Group", ".groupid" :> "<groupid>", Wired, "panic")))
  <2>1. Fills("Group", ".groupid" :> "<groupid>",
              <<"access", "groups", "<groupid>">>, NamedByReply("one", "Group"))
    BY AtGroup DEF Fills, Placed, :>
  <2> QED BY <2>1, KindsAre, NamedOne DEF Get, Loose, Rules, TrustTheReply
<1>4. RowOK(Get("Client", "Groups", <<"access", "groups">>, {}, Each("Group", FromReply, Wired)))
  <2>1. Fills("Group", FromReply, <<"access", "groups">>, NamedByReply("each", "Group"))
    BY AtGroup, NothingFilledIn DEF Fills, Placed, NamedByReply, LastKey, FullyListed
  <2> QED BY <2>1, KindsAre, NamedEach DEF Get, Loose, Rules
<1> QED BY KindsAre, PlainCall, <1>1, <1>2, <1>3, <1>4
        DEF AccessRealmsAndGroups, Get, Put, Post, Delete, Plain, Rules

LEMMA AccessUsersAndRolesOK == \A row \in AccessUsersAndRoles : RowOK(row)
<1>1. RowOK(Get("Client", "User", <<"access", "users", "<userid>">>, {},
                One("User", ".userid" :> "<userid>", Wired, "panic")))
  <2>1. Fills("User", ".userid" :> "<userid>",
              <<"access", "users", "<userid>">>, NamedByReply("one", "User"))
    BY AtUser DEF Fills, Placed, :>
  <2> QED BY <2>1, KindsAre, NamedOne DEF Get, Loose, Rules, TrustTheReply
<1>2. RowOK(Get("Client", "Users", <<"access", "users">>, {}, Each("User", FromReply, Wired)))
  <2>1. Fills("User", FromReply, <<"access", "users">>, NamedByReply("each", "User"))
    BY AtUser, NothingFilledIn DEF Fills, Placed, NamedByReply, LastKey, FullyListed
  <2> QED BY <2>1, KindsAre, NamedEach DEF Get, Loose, Rules
<1>3. RowOK(Get("Client", "Roles", <<"access", "roles">>, {}, Each("Role", FromReply, Wired)))
  <2>1. Fills("Role", FromReply, <<"access", "roles">>, NamedByReply("each", "Role"))
    BY AtRole, NothingFilledIn DEF Fills, Placed, NamedByReply, LastKey, FullyListed
  <2> QED BY <2>1, KindsAre, NamedEach DEF Get, Loose, Rules
<1> QED BY KindsAre, PlainCall, <1>1, <1>2, <1>3
        DEF AccessUsersAndRoles, Get, Put, Post, Delete, Plain, Rules

LEMMA AccessIndexesOK == \A row \in AccessIndexes : RowOK(row)
BY KindsAre, PlainCall DEF AccessIndexes, Get, Post, Plain, Rules

LEMMA AccessOpenIDOK == \A row \in AccessOpenID : RowOK(row)
BY KindsAre, PlainCall DEF AccessOpenID, Post, Plain, Rules

LEMMA AccessTFAOK == \A row \in AccessTFA : RowOK(row)
BY KindsAre, PlainCall DEF AccessTFA, Get, Put, Post, Delete, Plain, Rules

LEMMA ResourcePoolsOK == \A row \in ResourcePools : RowOK(row)
<1>1. RowOK(Get("Client", "Pools", <<"pools">>, {}, Each("Pool", FromReply, Wired)))
  <2>1. Fills("Pool", FromReply, <<"pools">>, NamedByReply("each", "Pool"))
    BY AtPool, NothingFilledIn DEF Fills, Placed, NamedByReply, LastKey, FullyListed
  <2> QED BY <2>1, KindsAre, NamedEach DEF Get, Loose, Rules
<1>2. RowOK(Get("Client", "Pool", <<"pools", "<poolid>">>, {}, Found("Pool", FromReply, Wired)))
  <2>1. Fills("Pool", FromReply, <<"pools", "<poolid>">>, NamedByReply("found", "Pool"))
    BY AtPool, NothingFilledIn DEF Fills, Placed, NamedByReply, LastKey, FullyListed
  <2> QED BY <2>1, KindsAre, NamedFound DEF Get, Loose, Rules
<1>3. RowOK(Get("Pool", "GetDeprecated", <<"pools", ".poolid">>, {},
                One("Pool", ".poolid" :> ".poolid", Wired, "kept")))
  <2>1. Fills("Pool", ".poolid" :> ".poolid", <<"pools", ".poolid">>, {})
    BY AtPool DEF Fills, Placed, :>
  <2> QED BY <2>1, KindsAre, FilledOne DEF Get, Loose, Rules
<1> QED BY KindsAre, PlainCall, <1>1, <1>2, <1>3
        DEF ResourcePools, Get, Put, Post, Delete, Plain, Rules

LEMMA ApiAccessOK == \A row \in ApiAccessOps : RowOK(row)
BY AccessRealmsAndGroupsOK, AccessUsersAndRolesOK, AccessIndexesOK, AccessOpenIDOK, AccessTFAOK,
   ResourcePoolsOK
DEF ApiAccessOps

LEMMA ClusterCoreOK == \A row \in ClusterCore : RowOK(row)
<1>1. RowOK(Tolerant(Get("Client", "Cluster", <<"cluster", "status">>, {},
                One("Cluster", FromReply, Wired, "kept"))))
  <2>1. Fills("Cluster", FromReply, <<"cluster", "status">>, {})
    BY AtCluster, NothingFilledIn DEF Fills, Placed
  <2> QED BY <2>1, KindsAre, FilledOne DEF Get, Loose, Rules
<1>2. RowOK(Lazy("Cluster", "New", <<"cluster">>, {}, One("Cluster", FromReply, Wired, "kept")))
  <2>1. Fills("Cluster", FromReply, <<"cluster">>, {})
    BY AtCluster, NothingFilledIn DEF Fills, Placed
  <2> QED BY <2>1, KindsAre, FilledOne DEF Lazy, Loose, Rules
<1>3. RowOK(Get("Cluster", "Backups", <<"cluster", "backup">>, {},
                Each("ClusterBackup", FromReply, Wired)))
  <2>1. Fills("ClusterBackup", FromReply,
              <<"cluster", "backup">>, NamedByReply("each", "ClusterBackup"))
    BY AtClusterBackup, NothingFilledIn DEF Fills, Placed, NamedByReply, LastKey, FullyListed
  <2> QED BY <2>1, KindsAre, NamedEach DEF Get, Loose, Rules
<1>4. RowOK(Get("Cluster", "Backup", <<"cluster", "backup", "<id>">>, {"<id>"},
                One("ClusterBackup", ".id" :> "<id>", Wired, "kept")))
  <2>1. Fills("ClusterBackup", ".id" :> "<id>", <<"cluster", "backup", "<id>">>, {})
    BY AtClusterBackup DEF Fills, Placed, :>
  <2> QED BY <2>1, KindsAre, FilledOne DEF Get, Loose, Rules
<1>5. RowOK(Get("Cluster", "Tasks", <<"cluster", "tasks">>, {}, Each("Task", FromReply, Wired)))
  <2>1. Fills("Task", FromReply, <<"cluster", "tasks">>, NamedByReply("each", "Task"))
    BY AtTask, NothingFilledIn, KindsAre DEF Fills, Placed, NamedByReply, Keys, FullyListed
  <2> QED BY <2>1, KindsAre, NamedEach DEF Get, Loose, Rules
<1>6. RowOK(Lazy("Cluster", "Ceph", <<"cluster", "ceph">>, {}, One("Ceph", FromReply, Wired, "kept")))
  <2>1. Fills("Ceph", FromReply, <<"cluster", "ceph">>, {})
    BY AtCeph, NothingFilledIn DEF Fills, Placed
  <2> QED BY <2>1, KindsAre, FilledOne DEF Lazy, Loose, Rules
<1> QED BY KindsAre, PlainCall, <1>1, <1>2, <1>3, <1>4, <1>5, <1>6
        DEF ClusterCore, Get, Put, Post, Delete, Lazy, Plain, Rules

LEMMA CephStateOK == \A row \in CephState : RowOK(row)
BY KindsAre, PlainCall DEF CephState, Get, Plain, Rules

LEMMA AcmeAccountsOK == \A row \in AcmeAccounts : RowOK(row)
BY KindsAre, PlainCall DEF AcmeAccounts, Get, Put, Post, Delete, Plain, Rules

LEMMA AcmePluginsOK == \A row \in AcmePlugins : RowOK(row)
BY KindsAre, PlainCall DEF AcmePlugins, Get, Put, Post, Delete, Plain, Rules

LEMMA BackupCoverageOK == \A row \in BackupCoverage : RowOK(row)
BY KindsAre, PlainCall DEF BackupCoverage, Get, Plain, Rules

LEMMA BulkActionsOK == \A row \in BulkActions : RowOK(row)
BY KindsAre, PlainCall DEF BulkActions, Get, Post, Plain, Rules

LEMMA CephFlagsOK == \A row \in CephFlags : RowOK(row)
BY KindsAre, PlainCall DEF CephFlags, Get, Put, Plain, Rules

LEMMA ClusterConfigOK == \A row \in ClusterConfig : RowOK(row)
BY KindsAre, PlainCall DEF ClusterConfig, Get, Post, Delete, Plain, Rules

LEMMA ClusterIndexesOK == \A row \in ClusterIndexes : RowOK(row)
BY KindsAre, PlainCall DEF ClusterIndexes, Get, Plain, Rules

LEMMA ClusterFirewallRulesOK == \A row \in ClusterFirewallRules : RowOK(row)
<1>1. RowOK(Get("Cluster", "FWGroups", <<"cluster", "firewall", "groups">>, {},
                Each("FirewallSecurityGroup", FromReply, Wired)))
  <2>1. Fills("FirewallSecurityGroup", FromReply,
              <<"cluster", "firewall", "groups">>, NamedByReply("each", "FirewallSecurityGroup"))
    BY AtFirewallSecurityGroup, NothingFilledIn DEF Fills, Placed, NamedByReply, LastKey, FullyListed
  <2> QED BY <2>1, KindsAre, NamedEach DEF Get, Loose, Rules
<1>2. RowOK(Get("Cluster", "FWGroup", <<"cluster", "firewall", "groups", "<name>">>, {},
                One("FirewallSecurityGroup", ".group" :> "<name>", Wired, "kept")))
  <2>1. Fills("FirewallSecurityGroup", ".group" :> "<name>",
              <<"cluster", "firewall", "groups", "<name>">>, {})
    BY AtFirewallSecurityGroup DEF Fills, Placed, :>
  <2> QED BY <2>1, KindsAre, FilledOne DEF Get, Loose, Rules
<1>3. RowOK(Get("FirewallSecurityGroup", "GetRules", <<"cluster", "firewall", "groups", ".group">>, {},
                Each("LooseRule", FromReply, Unwired)))
  BY KindsAre, LooseMaker DEF Get, Loose, Rules
<1>4. RowOK(Get("Cluster", "FirewallRules", <<"cluster", "firewall", "rules">>, {},
                Each("LooseRule", FromReply, Unwired)))
  BY KindsAre, LooseMaker DEF Get, Loose, Rules
<1>5. RowOK(Get("Cluster", "FirewallRule", <<"cluster", "firewall", "rules", "<pos>">>, {},
                One("LooseRule", FromReply, Unwired, "kept")))
  BY KindsAre, LooseMaker DEF Get, Loose, Rules
<1> QED BY KindsAre, PlainCall, <1>1, <1>2, <1>3, <1>4, <1>5
        DEF ClusterFirewallRules, Get, Put, Post, Delete, Plain, Rules

LEMMA ClusterFirewallIPSetsOK == \A row \in ClusterFirewallIPSets : RowOK(row)
BY KindsAre, PlainCall DEF ClusterFirewallIPSets, Get, Put, Post, Delete, Plain, Rules

LEMMA HaGroupsAndResourcesOK == \A row \in HaGroupsAndResources : RowOK(row)
BY KindsAre, PlainCall DEF HaGroupsAndResources, Get, Put, Post, Delete, Plain, Rules

LEMMA HaRulesAndStatusOK == \A row \in HaRulesAndStatus : RowOK(row)
BY KindsAre, PlainCall DEF HaRulesAndStatus, Get, Put, Post, Delete, Plain, Rules

LEMMA ClusterJobsOK == \A row \in ClusterJobs : RowOK(row)
BY KindsAre, PlainCall DEF ClusterJobs, Get, Put, Post, Delete, Plain, Rules

LEMMA DirAndPciMappingsOK == \A row \in DirAndPciMappings : RowOK(row)
BY KindsAre, PlainCall DEF DirAndPciMappings, Get, Put, Post, Delete, Plain, Rules

LEMMA UsbMappingsOK == \A row \in UsbMappings : RowOK(row)
BY KindsAre, PlainCall DEF UsbMappings, Get, Put, Post, Delete, Plain, Rules

LEMMA MetricServersOK == \A row \in MetricServers : RowOK(row)
BY KindsAre, PlainCall DEF MetricServers, Get, Put, Post, Delete, Plain, Rules

LEMMA ClusterLogOK == \A row \in ClusterLog : RowOK(row)
<1>1. RowOK(Get("FirewallSecurityGroup", "GetRule", <<"cluster", "firewall", "groups", ".group", "<pos>">>, {".group"},
                One("LooseRule", FromReply, Unwired, "kept")))
  BY KindsAre, LooseMaker DEF Get, Loose, Rules
<1> QED BY KindsAre, PlainCall, <1>1
        DEF ClusterLog, Get, Plain, Rules

LEMMA NotificationMatchersOK == \A row \in NotificationMatchers : RowOK(row)
BY KindsAre, PlainCall DEF NotificationMatchers, Get, Put, Post, Delete, Plain, Rules

LEMMA NotificationEndpointsOK == \A row \in NotificationEndpoints : RowOK(row)
BY KindsAre, PlainCall DEF NotificationEndpoints, Get, Put, Post, Delete, Plain, Rules

LEMMA NotificationRelaysOK == \A row \in NotificationRelays : RowOK(row)
BY KindsAre, PlainCall DEF NotificationRelays, Get, Put, Post, Delete, Plain, Rules

LEMMA DatacenterOptionsOK == \A row \in DatacenterOptions : RowOK(row)
BY KindsAre, PlainCall DEF DatacenterOptions, Get, Put, Plain, Rules

LEMMA CpuModelsOK == \A row \in CpuModels : RowOK(row)
<1>1. RowOK(Get("Cluster", "CustomCPUModels", <<"cluster", "qemu", "custom-cpu-models">>, {},
                Each("CustomCPUModel", FromReply, Wired)))
  <2>1. Fills("CustomCPUModel", FromReply,
              <<"cluster", "qemu", "custom-cpu-models">>, NamedByReply("each", "CustomCPUModel"))
    BY AtCustomCPUModel, NothingFilledIn DEF Fills, Placed, NamedByReply, LastKey, FullyListed
  <2> QED BY <2>1, KindsAre, NamedEach DEF Get, Loose, Rules
<1>2. RowOK(Lazy("Cluster", "CustomCPUModel", <<"cluster", "qemu", "custom-cpu-models", "<cputype>">>, {},
                One("CustomCPUModel", ".cputype" :> "<cputype>", Wired, "kept")))
  <2>1. Fills("CustomCPUModel", ".cputype" :> "<cputype>",
              <<"cluster", "qemu", "custom-cpu-models", "<cputype>">>, {})
    BY AtCustomCPUModel DEF Fills, Placed, :>
  <2> QED BY <2>1, KindsAre, FilledOne DEF Lazy, Loose, Rules
<1> QED BY KindsAre, PlainCall, <1>1, <1>2
        DEF CpuModels, Get, Put, Post, Delete, Lazy, Plain, Rules

LEMMA ReplicationJobsOK == \A row \in ReplicationJobs : RowOK(row)
BY KindsAre, PlainCall DEF ReplicationJobs, Get, Put, Post, Delete, Plain, Rules

LEMMA SdnVNetsAndZonesOK == \A row \in SdnVNetsAndZones : RowOK(row)
<1>1. RowOK(Get("Cluster", "SDNSubnets", <<"cluster", "sdn", "vnets", "<vnetname>", "subnets">>, {},
                Each("VNetSubnet", FromReply, Unwired)))
  BY KindsAre, LooseMaker DEF Get, Loose, Rules, LeftUnwired
<1>2. RowOK(Get("Cluster", "SDNVNets", <<"cluster", "sdn", "vnets">>, {},
                Each("VNet", FromReply, Wired)))
  <2>1. Fills("VNet", FromReply, <<"cluster", "sdn", "vnets">>, NamedByReply("each", "VNet"))
    BY AtVNet, NothingFilledIn DEF Fills, Placed, NamedByReply, LastKey, FullyListed
  <2> QED BY <2>1, KindsAre, NamedEach DEF Get, Loose, Rules
<1>3. RowOK(Get("Cluster", "SDNVNet", <<"cluster", "sdn", "vnets", "<name>">>, {},
                One("VNet", FromReply, Wired, "nil")))
  <2>1. Fills("VNet", FromReply,
              <<"cluster", "sdn", "vnets", "<name>">>, NamedByReply("one", "VNet"))
    BY AtVNet, NothingFilledIn DEF Fills, Placed, NamedByReply, LastKey, FullyListed, SelfNaming
  <2> QED BY <2>1, KindsAre, NamedOne DEF Get, Loose, Rules, MayBeNil
<1> QED BY KindsAre, PlainCall, <1>1, <1>2, <1>3
        DEF SdnVNetsAndZones, Get, Put, Post, Delete, Plain, Rules

LEMMA SdnControllersOK == \A row \in SdnControllers : RowOK(row)
<1>1. RowOK(Get("Cluster", "SDNControllers", <<"cluster", "sdn", "controllers">>, {},
                Each("SDNController", FromReply, Wired)))
  <2>1. Fills("SDNController", FromReply,
              <<"cluster", "sdn", "controllers">>, NamedByReply("each", "SDNController"))
    BY AtSDNController, NothingFilledIn DEF Fills, Placed, NamedByReply, LastKey, FullyListed
  <2> QED BY <2>1, KindsAre, NamedEach DEF Get, Loose, Rules
<1>2. RowOK(Lazy("Cluster", "SDNController", <<"cluster", "sdn", "controllers", "<name>">>, {},
                One("SDNController", ".controller" :> "<name>", Wired, "kept")))
  <2>1. Fills("SDNController", ".controller" :> "<name>",
              <<"cluster", "sdn", "controllers", "<name>">>, {})
    BY AtSDNController DEF Fills, Placed, :>
  <2> QED BY <2>1, KindsAre, FilledOne DEF Lazy, Loose, Rules
<1> QED BY KindsAre, PlainCall, <1>1, <1>2
        DEF SdnControllers, Get, Put, Post, Delete, Lazy, Plain, Rules

LEMMA SdnDnsPluginsOK == \A row \in SdnDnsPlugins : RowOK(row)
<1>1. RowOK(Get("Cluster", "SDNDNSList", <<"cluster", "sdn", "dns">>, {},
                Each("SDNDNS", FromReply, Wired)))
  <2>1. Fills("SDNDNS", FromReply, <<"cluster", "sdn", "dns">>, NamedByReply("each", "SDNDNS"))
    BY AtSDNDNS, NothingFilledIn DEF Fills, Placed, NamedByReply, LastKey, FullyListed
  <2> QED BY <2>1, KindsAre, NamedEach DEF Get, Loose, Rules
<1>2. RowOK(Lazy("Cluster", "SDNDNS", <<"cluster", "sdn", "dns", "<name>">>, {},
                One("SDNDNS", ".dns" :> "<name>", Wired, "kept")))
  <2>1. Fills("SDNDNS", ".dns" :> "<name>", <<"cluster", "sdn", "dns", "<name>">>, {})
    BY AtSDNDNS DEF Fills, Placed, :>
  <2> QED BY <2>1, KindsAre, FilledOne DEF Lazy, Loose, Rules
<1> QED BY KindsAre, PlainCall, <1>1, <1>2
        DEF SdnDnsPlugins, Get, Put, Post, Delete, Lazy, Plain, Rules

LEMMA SdnFabricsOK == \A row \in SdnFabrics : RowOK(row)
<1>1. RowOK(Get("Cluster", "SDNFabrics", <<"cluster", "sdn", "fabrics", "fabric">>, {},
                Each("SDNFabric", FromReply, Wired)))
  <2>1. Fills("SDNFabric", FromReply,
              <<"cluster", "sdn", "fabrics", "fabric">>, NamedByReply("each", "SDNFabric"))
    BY AtSDNFabric, NothingFilledIn DEF Fills, Placed, NamedByReply, LastKey, FullyListed
  <2> QED BY <2>1, KindsAre, NamedEach DEF Get, Loose, Rules
<1>2. RowOK(Lazy("Cluster", "SDNFabric", <<"cluster", "sdn", "fabrics", "fabric", "<id>">>, {},
                One("SDNFabric", ".id" :> "<id>", Wired, "kept")))
  <2>1. Fills("SDNFabric", ".id" :> "<id>", <<"cluster", "sdn", "fabrics", "fabric", "<id>">>, {})
    BY AtSDNFabric DEF Fills, Placed, :>
  <2> QED BY <2>1, KindsAre, FilledOne DEF Lazy, Loose, Rules
<1> QED BY KindsAre, PlainCall, <1>1, <1>2
        DEF SdnFabrics, Get, Put, Post, Delete, Lazy, Plain, Rules

LEMMA SdnFabricNodesOK == \A row \in SdnFabricNodes : RowOK(row)
<1>1. RowOK(Get("SDNFabric", "Nodes", <<"cluster", "sdn", "fabrics", "node", ".id">>, {".id"},
                Each("SDNFabricNode", ".fabricid" :> ".id", Wired)))
  <2>1. Fills("SDNFabricNode", ".fabricid" :> ".id",
              <<"cluster", "sdn", "fabrics", "node", ".id">>, NamedByReply("each", "SDNFabricNode"))
    BY AtSDNFabricNode, KindsAre DEF Fills, Placed, :>, NamedByReply, Keys, FullyListed
  <2> QED BY <2>1, KindsAre, NamedEach DEF Get, Loose, Rules
<1>2. RowOK(Lazy("SDNFabric", "Node", <<"cluster", "sdn", "fabrics", "node", ".id", "<nodeid>">>, {},
                One("SDNFabricNode", ".fabricid" :> ".id" @@ ".nodeid" :> "<nodeid>", Wired, "kept")))
  <2>1. Fills("SDNFabricNode", ".fabricid" :> ".id" @@ ".nodeid" :> "<nodeid>",
              <<"cluster", "sdn", "fabrics", "node", ".id", "<nodeid>">>, {})
    BY AtSDNFabricNode DEF Fills, Placed, :>, @@
  <2> QED BY <2>1, KindsAre, FilledOne DEF Lazy, Loose, Rules
<1>3. RowOK(Get("Cluster", "SDNFabricNodes", <<"cluster", "sdn", "fabrics", "node">>, {},
                Each("SDNFabricNode", FromReply, Wired)))
  <2>1. Fills("SDNFabricNode", FromReply,
              <<"cluster", "sdn", "fabrics", "node">>, NamedByReply("each", "SDNFabricNode"))
    BY AtSDNFabricNode, NothingFilledIn, KindsAre DEF Fills, Placed, NamedByReply, Keys, FullyListed
  <2> QED BY <2>1, KindsAre, NamedEach DEF Get, Loose, Rules
<1> QED BY KindsAre, PlainCall, <1>1, <1>2, <1>3
        DEF SdnFabricNodes, Get, Put, Post, Delete, Lazy, Plain, Rules

LEMMA SdnIpamsOK == \A row \in SdnIpams : RowOK(row)
<1>1. RowOK(Get("Cluster", "SDNIPAMs", <<"cluster", "sdn", "ipams">>, {},
                Each("SDNIPAM", FromReply, Wired)))
  <2>1. Fills("SDNIPAM", FromReply, <<"cluster", "sdn", "ipams">>, NamedByReply("each", "SDNIPAM"))
    BY AtSDNIPAM, NothingFilledIn DEF Fills, Placed, NamedByReply, LastKey, FullyListed
  <2> QED BY <2>1, KindsAre, NamedEach DEF Get, Loose, Rules
<1>2. RowOK(Lazy("Cluster", "SDNIPAM", <<"cluster", "sdn", "ipams", "<name>">>, {},
                One("SDNIPAM", ".ipam" :> "<name>", Wired, "kept")))
  <2>1. Fills("SDNIPAM", ".ipam" :> "<name>", <<"cluster", "sdn", "ipams", "<name>">>, {})
    BY AtSDNIPAM DEF Fills, Placed, :>
  <2> QED BY <2>1, KindsAre, FilledOne DEF Lazy, Loose, Rules
<1> QED BY KindsAre, PlainCall, <1>1, <1>2
        DEF SdnIpams, Get, Put, Post, Delete, Lazy, Plain, Rules

LEMMA SdnLockingOK == \A row \in SdnLocking : RowOK(row)
BY KindsAre, PlainCall DEF SdnLocking, Get, Post, Delete, Plain, Rules

LEMMA SdnPrefixListsOK == \A row \in SdnPrefixLists : RowOK(row)
<1>1. RowOK(Get("Cluster", "SDNPrefixLists", <<"cluster", "sdn", "prefix-lists">>, {},
                Each("SDNPrefixList", FromReply, Wired)))
  <2>1. Fills("SDNPrefixList", FromReply,
              <<"cluster", "sdn", "prefix-lists">>, NamedByReply("each", "SDNPrefixList"))
    BY AtSDNPrefixList, NothingFilledIn DEF Fills, Placed, NamedByReply, LastKey, FullyListed
  <2> QED BY <2>1, KindsAre, NamedEach DEF Get, Loose, Rules
<1>2. RowOK(Lazy("Cluster", "SDNPrefixList", <<"cluster", "sdn", "prefix-lists", "<id>">>, {},
                One("SDNPrefixList", ".id" :> "<id>", Wired, "kept")))
  <2>1. Fills("SDNPrefixList", ".id" :> "<id>", <<"cluster", "sdn", "prefix-lists", "<id>">>, {})
    BY AtSDNPrefixList DEF Fills, Placed, :>
  <2> QED BY <2>1, KindsAre, FilledOne DEF Lazy, Loose, Rules
<1> QED BY KindsAre, PlainCall, <1>1, <1>2
        DEF SdnPrefixLists, Get, Put, Post, Delete, Lazy, Plain, Rules

LEMMA SdnPrefixListEntriesOK == \A row \in SdnPrefixListEntries : RowOK(row)
<1>1. RowOK(Get("SDNPrefixList", "ListEntries", <<"cluster", "sdn", "prefix-lists", ".id", "entries">>, {".id"},
                Each("SDNPrefixListEntry", ".id" :> ".id", Wired)))
  <2>1. Fills("SDNPrefixListEntry", ".id" :> ".id",
              <<"cluster", "sdn", "prefix-lists", ".id", "entries">>, NamedByReply("each", "SDNPrefixListEntry"))
    BY AtSDNPrefixListEntry DEF Fills, Placed, :>, NamedByReply, LastKey, FullyListed
  <2> QED BY <2>1, KindsAre, NamedEach DEF Get, Loose, Rules
<1>2. RowOK(Lazy("SDNPrefixList", "Entry", <<"cluster", "sdn", "prefix-lists", ".id", "entries", "<seq>">>, {},
                One("SDNPrefixListEntry", ".id" :> ".id" @@ ".seq" :> "<seq>", Wired, "kept")))
  <2>1. Fills("SDNPrefixListEntry", ".id" :> ".id" @@ ".seq" :> "<seq>",
              <<"cluster", "sdn", "prefix-lists", ".id", "entries", "<seq>">>, {})
    BY AtSDNPrefixListEntry DEF Fills, Placed, :>, @@
  <2> QED BY <2>1, KindsAre, FilledOne DEF Lazy, Loose, Rules
<1> QED BY KindsAre, PlainCall, <1>1, <1>2
        DEF SdnPrefixListEntries, Get, Put, Post, Delete, Lazy, Plain, Rules

LEMMA SdnRouteMapsOK == \A row \in SdnRouteMaps : RowOK(row)
<1>1. RowOK(Get("Cluster", "SDNRouteMapEntries", <<"cluster", "sdn", "route-maps", "entries">>, {},
                Each("SDNRouteMapEntry", FromReply, Wired)))
  <2>1. Fills("SDNRouteMapEntry", FromReply,
              <<"cluster", "sdn", "route-maps", "entries">>, NamedByReply("each", "SDNRouteMapEntry"))
    BY AtSDNRouteMapEntry, NothingFilledIn, KindsAre DEF Fills, Placed, NamedByReply, Keys, FullyListed
  <2> QED BY <2>1, KindsAre, NamedEach DEF Get, Loose, Rules
<1>2. RowOK(Get("Cluster", "SDNRouteMapEntriesFor", <<"cluster", "sdn", "route-maps", "entries", "<routemapid>">>, {"<routemapid>"},
                Each("SDNRouteMapEntry", ".routemapid" :> "<routemapid>", Wired)))
  <2>1. Fills("SDNRouteMapEntry", ".routemapid" :> "<routemapid>",
              <<"cluster", "sdn", "route-maps", "entries", "<routemapid>">>, NamedByReply("each", "SDNRouteMapEntry"))
    BY AtSDNRouteMapEntry, KindsAre DEF Fills, Placed, :>, NamedByReply, Keys, FullyListed
  <2> QED BY <2>1, KindsAre, NamedEach DEF Get, Loose, Rules
<1>3. RowOK(Lazy("Cluster", "SDNRouteMapEntry", <<"cluster", "sdn", "route-maps", "entries", "<routemapid>", "entry", "<order>">>, {},
                One("SDNRouteMapEntry", ".routemapid" :> "<routemapid>" @@ ".order" :> "<order>", Wired, "kept")))
  <2>1. Fills("SDNRouteMapEntry", ".routemapid" :> "<routemapid>" @@ ".order" :> "<order>",
              <<"cluster", "sdn", "route-maps", "entries", "<routemapid>", "entry", "<order>">>, {})
    BY AtSDNRouteMapEntry DEF Fills, Placed, :>, @@
  <2> QED BY <2>1, KindsAre, FilledOne DEF Lazy, Loose, Rules
<1> QED BY KindsAre, PlainCall, <1>1, <1>2, <1>3
        DEF SdnRouteMaps, Get, Put, Post, Delete, Lazy, Plain, Rules

LEMMA VNetFirewallOK == \A row \in VNetFirewall : RowOK(row)
BY KindsAre, PlainCall DEF VNetFirewall, Get, Put, Post, Delete, Plain, Rules

LEMMA VNetIPsOK == \A row \in VNetIPs : RowOK(row)
BY KindsAre, PlainCall DEF VNetIPs, Put, Post, Delete, Plain, Rules

LEMMA VNetSubnetsOK == \A row \in VNetSubnets : RowOK(row)
<1>1. RowOK(Get("VNet", "Subnets", <<"cluster", "sdn", "vnets", ".name", "subnets">>, {".name"},
                Each("VNetSubnet", ".vnet" :> ".name", Wired)))
  <2>1. Fills("VNetSubnet", ".vnet" :> ".name",
              <<"cluster", "sdn", "vnets", ".name", "subnets">>, NamedByReply("each", "VNetSubnet"))
    BY AtVNetSubnet, KindsAre DEF Fills, Placed, :>, NamedByReply, Keys, FullyListed
  <2> QED BY <2>1, KindsAre, NamedEach DEF Get, Loose, Rules
<1>2. RowOK(Lazy("VNet", "Subnet", <<"cluster", "sdn", "vnets", ".name", "subnets", "<name>">>, {},
                One("VNetSubnet", ".vnet" :> ".name" @@ ".id" :> "<name>", Wired, "kept")))
  <2>1. Fills("VNetSubnet", ".vnet" :> ".name" @@ ".id" :> "<name>",
              <<"cluster", "sdn", "vnets", ".name", "subnets", "<name>">>, {})
    BY AtVNetSubnet DEF Fills, Placed, :>, @@
  <2> QED BY <2>1, KindsAre, FilledOne DEF Lazy, Loose, Rules
<1> QED BY KindsAre, PlainCall, <1>1, <1>2
        DEF VNetSubnets, Get, Put, Post, Delete, Lazy, Plain, Rules

LEMMA ApiClusterOK == \A row \in ApiClusterOps : RowOK(row)
BY ClusterCoreOK, CephStateOK, AcmeAccountsOK, AcmePluginsOK, BackupCoverageOK, BulkActionsOK,
   CephFlagsOK, ClusterConfigOK, ClusterIndexesOK, ClusterFirewallRulesOK, ClusterFirewallIPSetsOK,
   HaGroupsAndResourcesOK, HaRulesAndStatusOK, ClusterJobsOK, DirAndPciMappingsOK, UsbMappingsOK,
   MetricServersOK, ClusterLogOK, NotificationMatchersOK, NotificationEndpointsOK,
   NotificationRelaysOK, DatacenterOptionsOK, CpuModelsOK, ReplicationJobsOK, SdnVNetsAndZonesOK,
   SdnControllersOK, SdnDnsPluginsOK, SdnFabricsOK, SdnFabricNodesOK, SdnIpamsOK, SdnLockingOK,
   SdnPrefixListsOK, SdnPrefixListEntriesOK, SdnRouteMapsOK, VNetFirewallOK, VNetIPsOK,
   VNetSubnetsOK
DEF ApiClusterOps

LEMMA NodeGuestsOK == \A row \in NodeGuests : RowOK(row)
<1>1. RowOK(Tolerant(Get("Client", "Node", <<"nodes", "<name>", "status">>, {},
                One("Node", ".node" :> "<name>", Wired, "kept"))))
  <2>1. Fills("Node", ".node" :> "<name>", <<"nodes", "<name>", "status">>, {})
    BY AtNode DEF Fills, Placed, :>
  <2> QED BY <2>1, KindsAre, FilledOne DEF Get, Loose, Rules
<1>2. RowOK(Lazy("Node", "New", <<"nodes", "<name>">>, {},
                One("Node", ".node" :> "<name>", Wired, "kept")))
  <2>1. Fills("Node", ".node" :> "<name>", <<"nodes", "<name>">>, {})
    BY AtNode DEF Fills, Placed, :>
  <2> QED BY <2>1, KindsAre, FilledOne DEF Lazy, Loose, Rules
<1>3. RowOK(Get("Node", "VirtualMachines", <<"nodes", ".node", "qemu">>, {},
                Each("VirtualMachine", ".node" :> ".node", Wired)))
  <2>1. Fills("VirtualMachine", ".node" :> ".node",
              <<"nodes", ".node", "qemu">>, NamedByReply("each", "VirtualMachine"))
    BY AtVirtualMachine DEF Fills, Placed, :>, NamedByReply, LastKey, FullyListed
  <2> QED BY <2>1, KindsAre, NamedEach DEF Get, Loose, Rules
<1>4. RowOK(Get("Node", "VirtualMachine", <<"nodes", ".node", "qemu", "<vmid>", "status", "current">>, {},
                One("VirtualMachine", ".node" :> ".node", Wired, "panic")))
  <2>1. Fills("VirtualMachine", ".node" :> ".node",
              <<"nodes", ".node", "qemu", "<vmid>", "status", "current">>, NamedByReply("one", "VirtualMachine"))
    BY AtVirtualMachine DEF Fills, Placed, :>, NamedByReply, LastKey, FullyListed, SelfNaming
  <2> QED BY <2>1, KindsAre, NamedOne DEF Get, Loose, Rules, TrustTheReply
<1>5. RowOK(Get("Node", "Containers", <<"nodes", ".node", "lxc">>, {},
                Each("Container", ".node" :> ".node", Wired)))
  <2>1. Fills("Container", ".node" :> ".node",
              <<"nodes", ".node", "lxc">>, NamedByReply("each", "Container"))
    BY AtContainer DEF Fills, Placed, :>, NamedByReply, LastKey, FullyListed
  <2> QED BY <2>1, KindsAre, NamedEach DEF Get, Loose, Rules
<1>6. RowOK(Get("Node", "Container", <<"nodes", ".node", "lxc", "<vmid>", "status", "current">>, {},
                One("Container", ".node" :> ".node", Wired, "panic")))
  <2>1. Fills("Container", ".node" :> ".node",
              <<"nodes", ".node", "lxc", "<vmid>", "status", "current">>, NamedByReply("one", "Container"))
    BY AtContainer DEF Fills, Placed, :>, NamedByReply, LastKey, FullyListed, SelfNaming
  <2> QED BY <2>1, KindsAre, NamedOne DEF Get, Loose, Rules, TrustTheReply
<1> QED BY KindsAre, PlainCall, <1>1, <1>2, <1>3, <1>4, <1>5, <1>6
        DEF NodeGuests, Get, Post, Lazy, Dial, Plain, Rules

LEMMA NodeStoragesOK == \A row \in NodeStorages : RowOK(row)
<1>1. RowOK(Get("Node", "Appliances", <<"nodes", ".node", "aplinfo">>, {},
                Each("Appliance", ".node" :> ".node", Wired)))
  <2>1. Fills("Appliance", ".node" :> ".node",
              <<"nodes", ".node", "aplinfo">>, NamedByReply("each", "Appliance"))
    BY AtAppliance DEF Fills, Placed, :>
  <2> QED BY <2>1, KindsAre, NamedEach DEF Get, Loose, Rules
<1>2. RowOK(Get("Node", "VzTmpls", <<"nodes", ".node", "storage", "<storage>", "content">>, {},
                Each("VzTmpl", FromReply, Unwired)))
  BY KindsAre, LooseMaker DEF Get, Loose, Rules, LeftUnwired
<1>3. RowOK(Get("Node", "VzTmpl", <<"nodes", ".node", "storage", "<storage>", "content">>, {},
                Found("VzTmpl", FromReply, Unwired)))
  BY KindsAre, LooseMaker DEF Get, Loose, Rules, LeftUnwired
<1>4. RowOK(Get("Node", "Storages", <<"nodes", ".node", "storage">>, {},
                Each("Storage", ".node" :> ".node", Wired)))
  <2>1. Fills("Storage", ".node" :> ".node",
              <<"nodes", ".node", "storage">>, NamedByReply("each", "Storage"))
    BY AtStorage DEF Fills, Placed, :>, NamedByReply, LastKey, FullyListed
  <2> QED BY <2>1, KindsAre, NamedEach DEF Get, Loose, Rules
<1>5. RowOK(Get("Node", "Storage", <<"nodes", ".node", "storage", "<name>", "status">>, {},
                One("Storage", ".node" :> ".node" @@ ".storage" :> "<name>", Wired, "error")))
  <2>1. Fills("Storage", ".node" :> ".node" @@ ".storage" :> "<name>",
              <<"nodes", ".node", "storage", "<name>", "status">>, NamedByReply("one", "Storage"))
    BY AtStorage DEF Fills, Placed, :>, @@
  <2> QED BY <2>1, KindsAre, NamedOne DEF Get, Loose, Rules
<1>6. RowOK(Get("Node", "StorageISO", <<"nodes", ".node", "storage">>, {},
                Found("Storage", ".node" :> ".node", Wired)))
  <2>1. Fills("Storage", ".node" :> ".node",
              <<"nodes", ".node", "storage">>, NamedByReply("found", "Storage"))
    BY AtStorage DEF Fills, Placed, :>, NamedByReply, LastKey, FullyListed
  <2> QED BY <2>1, KindsAre, NamedFound DEF Get, Loose, Rules
<1>7. RowOK(Get("Node", "StorageVZTmpl", <<"nodes", ".node", "storage">>, {},
                Found("Storage", ".node" :> ".node", Wired)))
  <2>1. Fills("Storage", ".node" :> ".node",
              <<"nodes", ".node", "storage">>, NamedByReply("found", "Storage"))
    BY AtStorage DEF Fills, Placed, :>, NamedByReply, LastKey, FullyListed
  <2> QED BY <2>1, KindsAre, NamedFound DEF Get, Loose, Rules
<1>8. RowOK(Get("Node", "StorageBackup", <<"nodes", ".node", "storage">>, {},
                Found("Storage", ".node" :> ".node", Wired)))
  <2>1. Fills("Storage", ".node" :> ".node",
              <<"nodes", ".node", "storage">>, NamedByReply("found", "Storage"))
    BY AtStorage DEF Fills, Placed, :>, NamedByReply, LastKey, FullyListed
  <2> QED BY <2>1, KindsAre, NamedFound DEF Get, Loose, Rules
<1>9. RowOK(Get("Node", "StorageSnippets", <<"nodes", ".node", "storage">>, {},
                Found("Storage", ".node" :> ".node", Wired)))
  <2>1. Fills("Storage", ".node" :> ".node",
              <<"nodes", ".node", "storage">>, NamedByReply("found", "Storage"))
    BY AtStorage DEF Fills, Placed, :>, NamedByReply, LastKey, FullyListed
  <2> QED BY <2>1, KindsAre, NamedFound DEF Get, Loose, Rules
<1>10. RowOK(Get("Node", "StorageRootDir", <<"nodes", ".node", "storage">>, {},
                 Found("Storage", ".node" :> ".node", Wired)))
  <2>1. Fills("Storage", ".node" :> ".node",
              <<"nodes", ".node", "storage">>, NamedByReply("found", "Storage"))
    BY AtStorage DEF Fills, Placed, :>, NamedByReply, LastKey, FullyListed
  <2> QED BY <2>1, KindsAre, NamedFound DEF Get, Loose, Rules
<1>11. RowOK(Get("Node", "StorageImages", <<"nodes", ".node", "storage">>, {},
                 Found("Storage", ".node" :> ".node", Wired)))
  <2>1. Fills("Storage", ".node" :> ".node",
              <<"nodes", ".node", "storage">>, NamedByReply("found", "Storage"))
    BY AtStorage DEF Fills, Placed, :>, NamedByReply, LastKey, FullyListed
  <2> QED BY <2>1, KindsAre, NamedFound DEF Get, Loose, Rules
<1> QED BY KindsAre, PlainCall, <1>1, <1>2, <1>3, <1>4, <1>5, <1>6, <1>7, <1>8, <1>9, <1>10, <1>11
        DEF NodeStorages, Get, Post, Plain, Rules

LEMMA NodeFirewallOK == \A row \in NodeFirewall : RowOK(row)
<1>1. RowOK(Get("Node", "FirewallRules", <<"nodes", ".node", "firewall", "rules">>, {},
                Each("NodeRule", ".node" :> ".node", Wired)))
  <2>1. Fills("NodeRule", ".node" :> ".node",
              <<"nodes", ".node", "firewall", "rules">>, NamedByReply("each", "NodeRule"))
    BY AtNodeRule DEF Fills, Placed, :>, NamedByReply, LastKey, FullyListed
  <2> QED BY <2>1, KindsAre, NamedEach DEF Get, Loose, Rules
<1>2. RowOK(Lazy("Node", "FirewallRule", <<"nodes", ".node", "firewall", "rules", "<pos>">>, {},
                One("NodeRule", ".node" :> ".node" @@ ".pos" :> "<pos>", Wired, "kept")))
  <2>1. Fills("NodeRule", ".node" :> ".node" @@ ".pos" :> "<pos>",
              <<"nodes", ".node", "firewall", "rules", "<pos>">>, {})
    BY AtNodeRule DEF Fills, Placed, :>, @@
  <2> QED BY <2>1, KindsAre, FilledOne DEF Lazy, Loose, Rules
<1>3. RowOK(Get("Node", "FirewallGetRule", <<"nodes", ".node", "firewall", "rules", "<rulepos>">>, {},
                One("LooseRule", FromReply, Unwired, "nil")))
  BY KindsAre, LooseMaker DEF Get, Loose, Rules, MayBeNil
<1>4. RowOK(Post("Node", "NewFirewallRule", <<"nodes", ".node", "firewall", "rules">>, {},
                 Created("NodeRule", ".node" :> ".node" @@ ".pos" :> "<pos>")))
  <2> DEFINE keys == ".node" :> ".node" @@ ".pos" :> "<pos>"
             path == <<"nodes", ".node", "firewall", "rules">>
  <2>1. \A i \in DOMAIN Home["NodeRule"] : Home["NodeRule"][i] \in Fields \ {".pos"} => Placed("NodeRule", keys, path, i)
    BY AtNodeRule DEF Placed, :>, @@
  <2>2. DOMAIN keys = Keys["NodeRule"] /\ keys[".pos"] = "<pos>"
    BY AtNodeRule, KindsAre DEF Keys, :>, @@
  <2>3. Len(path) \in Nat /\ DOMAIN path = 1..Len(path)
    OBVIOUS
  <2>4. <<"Node", "NewFirewallRule">> \in KeepThePosition /\ "Node" \in Kinds \ (Loose \cup Rules) /\ "NodeRule" \in Rules
    BY KindsAre DEF KeepThePosition, Loose, Rules
  <2> HIDE DEF keys, path
  <2> QED BY <2>1, <2>2, <2>3, <2>4, CreatedRule DEF Post, keys, path
<1> QED BY KindsAre, PlainCall, <1>1, <1>2, <1>3, <1>4
        DEF NodeFirewall, Get, Put, Post, Delete, Lazy, Plain, Rules

LEMMA NodeCertificatesOK == \A row \in NodeCertificates : RowOK(row)
BY KindsAre, PlainCall DEF NodeCertificates, Get, Put, Post, Delete, Plain, Rules

LEMMA NodeServicesOK == \A row \in NodeServices : RowOK(row)
<1>1. RowOK(Get("Node", "Services", <<"nodes", ".node", "services">>, {},
                Each("NodeService", ".node" :> ".node", Wired)))
  <2>1. Fills("NodeService", ".node" :> ".node",
              <<"nodes", ".node", "services">>, NamedByReply("each", "NodeService"))
    BY AtNodeService DEF Fills, Placed, :>, NamedByReply, LastKey, FullyListed
  <2> QED BY <2>1, KindsAre, NamedEach DEF Get, Loose, Rules
<1>2. RowOK(Lazy("Node", "Service", <<"nodes", ".node", "services", "<name>">>, {},
                One("NodeService", ".node" :> ".node" @@ ".name" :> "<name>", Wired, "kept")))
  <2>1. Fills("NodeService", ".node" :> ".node" @@ ".name" :> "<name>",
              <<"nodes", ".node", "services", "<name>">>, {})
    BY AtNodeService DEF Fills, Placed, :>, @@
  <2> QED BY <2>1, KindsAre, FilledOne DEF Lazy, Loose, Rules
<1> QED BY KindsAre, PlainCall, <1>1, <1>2
        DEF NodeServices, Get, Put, Post, Lazy, Plain, Rules

LEMMA NodeSubscriptionOK == \A row \in NodeSubscription : RowOK(row)
BY KindsAre, PlainCall DEF NodeSubscription, Get, Put, Post, Delete, Plain, Rules

LEMMA NodeReplicationOK == \A row \in NodeReplication : RowOK(row)
<1>1. RowOK(Get("Node", "Replications", <<"nodes", ".node", "replication">>, {},
                Each("NodeReplicationJob", ".node" :> ".node", Wired)))
  <2>1. Fills("NodeReplicationJob", ".node" :> ".node",
              <<"nodes", ".node", "replication">>, NamedByReply("each", "NodeReplicationJob"))
    BY AtNodeReplicationJob DEF Fills, Placed, :>, NamedByReply, LastKey, FullyListed
  <2> QED BY <2>1, KindsAre, NamedEach DEF Get, Loose, Rules
<1>2. RowOK(Lazy("Node", "Replication", <<"nodes", ".node", "replication", "<id>">>, {},
                One("NodeReplicationJob", ".node" :> ".node" @@ ".id" :> "<id>", Wired, "kept")))
  <2>1. Fills("NodeReplicationJob", ".node" :> ".node" @@ ".id" :> "<id>",
              <<"nodes", ".node", "replication", "<id>">>, {})
    BY AtNodeReplicationJob DEF Fills, Placed, :>, @@
  <2> QED BY <2>1, KindsAre, FilledOne DEF Lazy, Loose, Rules
<1> QED BY KindsAre, PlainCall, <1>1, <1>2
        DEF NodeReplication, Get, Post, Lazy, Plain, Rules

LEMMA NodeAdminOK == \A row \in NodeAdmin : RowOK(row)
BY KindsAre, PlainCall DEF NodeAdmin, Get, Put, Post, Plain, Rules

LEMMA NodeLogsOK == \A row \in NodeLogs : RowOK(row)
BY KindsAre, PlainCall DEF NodeLogs, Get, Post, Plain, Rules

LEMMA NodeShellsOK == \A row \in NodeShells : RowOK(row)
<1>1. RowOK(Get("Node", "Tasks", <<"nodes", ".node", "tasks">>, {}, Each("Task", FromReply, Wired)))
  <2>1. Fills("Task", FromReply, <<"nodes", ".node", "tasks">>, NamedByReply("each", "Task"))
    BY AtTask, NothingFilledIn, KindsAre DEF Fills, Placed, NamedByReply, Keys, FullyListed
  <2> QED BY <2>1, KindsAre, NamedEach DEF Get, Loose, Rules
<1> QED BY KindsAre, PlainCall, <1>1
        DEF NodeShells, Get, Post, Delete, Plain, Rules

LEMMA AptPackagesOK == \A row \in AptPackages : RowOK(row)
BY KindsAre, PlainCall DEF AptPackages, Get, Put, Post, Plain, Rules

LEMMA NodeCapabilitiesOK == \A row \in NodeCapabilities : RowOK(row)
BY KindsAre, PlainCall DEF NodeCapabilities, Get, Plain, Rules

LEMMA CephControlOK == \A row \in CephControl : RowOK(row)
BY KindsAre, PlainCall DEF CephControl, Get, Post, Plain, Rules

LEMMA CephConfigOK == \A row \in CephConfig : RowOK(row)
BY KindsAre, PlainCall DEF CephConfig, Get, Plain, Rules

LEMMA CephMonsAndMgrsOK == \A row \in CephMonsAndMgrs : RowOK(row)
<1>1. RowOK(Get("Node", "CephMons", <<"nodes", ".node", "ceph", "mon">>, {},
                Each("CephMon", ".node" :> ".node", Wired)))
  <2>1. Fills("CephMon", ".node" :> ".node",
              <<"nodes", ".node", "ceph", "mon">>, NamedByReply("each", "CephMon"))
    BY AtCephMon DEF Fills, Placed, :>, NamedByReply, LastKey, FullyListed
  <2> QED BY <2>1, KindsAre, NamedEach DEF Get, Loose, Rules
<1>2. RowOK(Lazy("Node", "CephMon", <<"nodes", ".node", "ceph", "mon", "<monid>">>, {},
                One("CephMon", ".node" :> ".node" @@ ".name" :> "<monid>", Wired, "kept")))
  <2>1. Fills("CephMon", ".node" :> ".node" @@ ".name" :> "<monid>",
              <<"nodes", ".node", "ceph", "mon", "<monid>">>, {})
    BY AtCephMon DEF Fills, Placed, :>, @@
  <2> QED BY <2>1, KindsAre, FilledOne DEF Lazy, Loose, Rules
<1>3. RowOK(Get("Node", "CephMgrs", <<"nodes", ".node", "ceph", "mgr">>, {},
                Each("CephMgr", ".node" :> ".node", Wired)))
  <2>1. Fills("CephMgr", ".node" :> ".node",
              <<"nodes", ".node", "ceph", "mgr">>, NamedByReply("each", "CephMgr"))
    BY AtCephMgr DEF Fills, Placed, :>, NamedByReply, LastKey, FullyListed
  <2> QED BY <2>1, KindsAre, NamedEach DEF Get, Loose, Rules
<1>4. RowOK(Lazy("Node", "CephMgr", <<"nodes", ".node", "ceph", "mgr", "<id>">>, {},
                One("CephMgr", ".node" :> ".node" @@ ".name" :> "<id>", Wired, "kept")))
  <2>1. Fills("CephMgr", ".node" :> ".node" @@ ".name" :> "<id>",
              <<"nodes", ".node", "ceph", "mgr", "<id>">>, {})
    BY AtCephMgr DEF Fills, Placed, :>, @@
  <2> QED BY <2>1, KindsAre, FilledOne DEF Lazy, Loose, Rules
<1> QED BY KindsAre, PlainCall, <1>1, <1>2, <1>3, <1>4
        DEF CephMonsAndMgrs, Get, Post, Delete, Lazy, Plain, Rules

LEMMA CephMDSsOK == \A row \in CephMDSs : RowOK(row)
<1>1. RowOK(Get("Node", "CephMDSs", <<"nodes", ".node", "ceph", "mds">>, {},
                Each("CephMDS", ".node" :> ".node", Wired)))
  <2>1. Fills("CephMDS", ".node" :> ".node",
              <<"nodes", ".node", "ceph", "mds">>, NamedByReply("each", "CephMDS"))
    BY AtCephMDS DEF Fills, Placed, :>, NamedByReply, LastKey, FullyListed
  <2> QED BY <2>1, KindsAre, NamedEach DEF Get, Loose, Rules
<1>2. RowOK(Lazy("Node", "CephMDS", <<"nodes", ".node", "ceph", "mds", "<name>">>, {},
                One("CephMDS", ".node" :> ".node" @@ ".name" :> "<name>", Wired, "kept")))
  <2>1. Fills("CephMDS", ".node" :> ".node" @@ ".name" :> "<name>",
              <<"nodes", ".node", "ceph", "mds", "<name>">>, {})
    BY AtCephMDS DEF Fills, Placed, :>, @@
  <2> QED BY <2>1, KindsAre, FilledOne DEF Lazy, Loose, Rules
<1> QED BY KindsAre, PlainCall, <1>1, <1>2
        DEF CephMDSs, Get, Post, Delete, Lazy, Plain, Rules

LEMMA CephFileSystemsOK == \A row \in CephFileSystems : RowOK(row)
<1>1. RowOK(Get("Node", "CephFSs", <<"nodes", ".node", "ceph", "fs">>, {},
                Each("CephFS", ".node" :> ".node", Wired)))
  <2>1. Fills("CephFS", ".node" :> ".node",
              <<"nodes", ".node", "ceph", "fs">>, NamedByReply("each", "CephFS"))
    BY AtCephFS DEF Fills, Placed, :>, NamedByReply, LastKey, FullyListed
  <2> QED BY <2>1, KindsAre, NamedEach DEF Get, Loose, Rules
<1>2. RowOK(Lazy("Node", "CephFS", <<"nodes", ".node", "ceph", "fs", "<name>">>, {},
                One("CephFS", ".node" :> ".node" @@ ".name" :> "<name>", Wired, "kept")))
  <2>1. Fills("CephFS", ".node" :> ".node" @@ ".name" :> "<name>",
              <<"nodes", ".node", "ceph", "fs", "<name>">>, {})
    BY AtCephFS DEF Fills, Placed, :>, @@
  <2> QED BY <2>1, KindsAre, FilledOne DEF Lazy, Loose, Rules
<1> QED BY KindsAre, PlainCall, <1>1, <1>2
        DEF CephFileSystems, Get, Post, Delete, Lazy, Plain, Rules

LEMMA CephOSDsOK == \A row \in CephOSDs : RowOK(row)
<1>1. RowOK(Lazy("Node", "CephOSD", <<"nodes", ".node", "ceph", "osd", "<osdid>">>, {},
                One("CephOSD", ".node" :> ".node" @@ ".osdid" :> "<osdid>", Wired, "kept")))
  <2>1. Fills("CephOSD", ".node" :> ".node" @@ ".osdid" :> "<osdid>",
              <<"nodes", ".node", "ceph", "osd", "<osdid>">>, {})
    BY AtCephOSD DEF Fills, Placed, :>, @@
  <2> QED BY <2>1, KindsAre, FilledOne DEF Lazy, Loose, Rules
<1> QED BY KindsAre, PlainCall, <1>1
        DEF CephOSDs, Get, Post, Delete, Lazy, Plain, Rules

LEMMA CephPoolsOK == \A row \in CephPools : RowOK(row)
<1>1. RowOK(Get("Node", "CephPools", <<"nodes", ".node", "ceph", "pool">>, {},
                Each("CephPool", ".node" :> ".node", Wired)))
  <2>1. Fills("CephPool", ".node" :> ".node",
              <<"nodes", ".node", "ceph", "pool">>, NamedByReply("each", "CephPool"))
    BY AtCephPool DEF Fills, Placed, :>, NamedByReply, LastKey, FullyListed
  <2> QED BY <2>1, KindsAre, NamedEach DEF Get, Loose, Rules
<1>2. RowOK(Lazy("Node", "CephPool", <<"nodes", ".node", "ceph", "pool", "<name>">>, {},
                One("CephPool", ".node" :> ".node" @@ ".poolname" :> "<name>", Wired, "kept")))
  <2>1. Fills("CephPool", ".node" :> ".node" @@ ".poolname" :> "<name>",
              <<"nodes", ".node", "ceph", "pool", "<name>">>, {})
    BY AtCephPool DEF Fills, Placed, :>, @@
  <2> QED BY <2>1, KindsAre, FilledOne DEF Lazy, Loose, Rules
<1> QED BY KindsAre, PlainCall, <1>1, <1>2
        DEF CephPools, Get, Put, Post, Delete, Lazy, Plain, Rules

LEMMA NodeIndexesOK == \A row \in NodeIndexes : RowOK(row)
BY KindsAre, PlainCall DEF NodeIndexes, Get, Plain, Rules

LEMMA DisksAndDirectoriesOK == \A row \in DisksAndDirectories : RowOK(row)
BY KindsAre, PlainCall DEF DisksAndDirectories, Get, Put, Post, Delete, Plain, Rules

LEMMA VolumeGroupsOK == \A row \in VolumeGroups : RowOK(row)
BY KindsAre, PlainCall DEF VolumeGroups, Get, Post, Delete, Plain, Rules

LEMMA NodeDnsOK == \A row \in NodeDns : RowOK(row)
BY KindsAre, PlainCall DEF NodeDns, Get, Put, Plain, Rules

LEMMA NodeHardwareOK == \A row \in NodeHardware : RowOK(row)
<1>1. RowOK(Get("Node", "ListPCIDevices", <<"nodes", ".node", "hardware", "pci">>, {},
                Each("PCIDevice", ".node" :> ".node", Wired)))
  <2>1. Fills("PCIDevice", ".node" :> ".node",
              <<"nodes", ".node", "hardware", "pci">>, NamedByReply("each", "PCIDevice"))
    BY AtPCIDevice DEF Fills, Placed, :>, NamedByReply, LastKey, FullyListed
  <2> QED BY <2>1, KindsAre, NamedEach DEF Get, Loose, Rules
<1>2. RowOK(Lazy("Node", "PCIDevice", <<"nodes", ".node", "hardware", "pci", "<id>">>, {},
                One("PCIDevice", ".node" :> ".node" @@ ".id" :> "<id>", Wired, "kept")))
  <2>1. Fills("PCIDevice", ".node" :> ".node" @@ ".id" :> "<id>",
              <<"nodes", ".node", "hardware", "pci", "<id>">>, {})
    BY AtPCIDevice DEF Fills, Placed, :>, @@
  <2> QED BY <2>1, KindsAre, FilledOne DEF Lazy, Loose, Rules
<1> QED BY KindsAre, PlainCall, <1>1, <1>2
        DEF NodeHardware, Get, Lazy, Plain, Rules

LEMMA NodeMetricsOK == \A row \in NodeMetrics : RowOK(row)
BY KindsAre, PlainCall DEF NodeMetrics, Get, Plain, Rules

LEMMA NodeNetworksOK == \A row \in NodeNetworks : RowOK(row)
<1>1. RowOK(Get("Node", "Network", <<"nodes", ".node", "network", "<iface>">>, {},
                One("NodeNetwork", ".node" :> ".node" @@ ".iface" :> "<iface>", Wired, "nil")))
  <2>1. Fills("NodeNetwork", ".node" :> ".node" @@ ".iface" :> "<iface>",
              <<"nodes", ".node", "network", "<iface>">>, NamedByReply("one", "NodeNetwork"))
    BY AtNodeNetwork DEF Fills, Placed, :>, @@
  <2> QED BY <2>1, KindsAre, NamedOne DEF Get, Loose, Rules, MayBeNil
<1>2. RowOK(Get("Node", "Networks", <<"nodes", ".node", "network">>, {},
                Each("NodeNetwork", ".node" :> ".node", Wired)))
  <2>1. Fills("NodeNetwork", ".node" :> ".node",
              <<"nodes", ".node", "network">>, NamedByReply("each", "NodeNetwork"))
    BY AtNodeNetwork DEF Fills, Placed, :>, NamedByReply, LastKey, FullyListed
  <2> QED BY <2>1, KindsAre, NamedEach DEF Get, Loose, Rules
<1>3. RowOK(Post("Node", "NewNetwork", <<"nodes", ".node", "network">>, {}, Created("NodeNetwork", ".node" :> ".node")))
  <2>1. Fills("NodeNetwork", ".node" :> ".node",
              <<"nodes", ".node", "network">>, NamedByReply("created", "NodeNetwork"))
    BY AtNodeNetwork DEF Fills, Placed, :>, NamedByReply, LastKey, FullyListed
  <2> QED BY <2>1, KindsAre, NamedCreated DEF Post, Loose, Rules
<1> QED BY KindsAre, PlainCall, <1>1, <1>2, <1>3
        DEF NodeNetworks, Get, Put, Post, Delete, Plain, Rules

LEMMA StorageScansOK == \A row \in StorageScans : RowOK(row)
BY KindsAre, PlainCall DEF StorageScans, Get, Plain, Rules

LEMMA NodeSdnOK == \A row \in NodeSdn : RowOK(row)
BY KindsAre, PlainCall DEF NodeSdn, Get, Plain, Rules

LEMMA ClusterStoragesOK == \A row \in ClusterStorages : RowOK(row)
<1>1. RowOK(Get("Client", "ClusterStorages", <<"storage">>, {},
                Each("ClusterStorage", FromReply, Wired)))
  <2>1. Fills("ClusterStorage", FromReply, <<"storage">>, NamedByReply("each", "ClusterStorage"))
    BY AtClusterStorage, NothingFilledIn DEF Fills, Placed, NamedByReply, LastKey, FullyListed
  <2> QED BY <2>1, KindsAre, NamedEach DEF Get, Loose, Rules
<1>2. RowOK(Get("Client", "ClusterStorage", <<"storage", "<name>">>, {},
                One("ClusterStorage", FromReply, Wired, "panic")))
  <2>1. Fills("ClusterStorage", FromReply,
              <<"storage", "<name>">>, NamedByReply("one", "ClusterStorage"))
    BY AtClusterStorage, NothingFilledIn DEF Fills, Placed, NamedByReply, LastKey, FullyListed, SelfNaming
  <2> QED BY <2>1, KindsAre, NamedOne DEF Get, Loose, Rules, TrustTheReply
<1> QED BY KindsAre, PlainCall, <1>1, <1>2
        DEF ClusterStorages, Get, Put, Post, Delete, Plain, Rules

LEMMA StorageTransfersOK == \A row \in StorageTransfers : RowOK(row)
BY KindsAre, PlainCall DEF StorageTransfers, Post, Plain, Rules

LEMMA StorageVolumesOK == \A row \in StorageVolumes : RowOK(row)
<1>1. RowOK(Get("Storage", "ISO", <<"nodes", ".node", "storage", ".storage", "content", "<name>">>, {},
                One("ISO", ".node" :> ".node" @@ ".storage" :> ".storage" @@ ".volid" :> "<name>", Wired, "error")))
  <2>1. Fills("ISO", ".node" :> ".node" @@ ".storage" :> ".storage" @@ ".volid" :> "<name>",
              <<"nodes", ".node", "storage", ".storage", "content", "<name>">>, NamedByReply("one", "ISO"))
    BY AtISO DEF Fills, Placed, :>, @@
  <2> QED BY <2>1, KindsAre, NamedOne DEF Get, Loose, Rules
<1>2. RowOK(Get("Storage", "VzTmpl", <<"nodes", ".node", "storage", ".storage", "content", "<name>">>, {},
                One("VzTmpl", ".node" :> ".node" @@ ".storage" :> ".storage" @@ ".volid" :> "<name>", Wired, "error")))
  <2>1. Fills("VzTmpl", ".node" :> ".node" @@ ".storage" :> ".storage" @@ ".volid" :> "<name>",
              <<"nodes", ".node", "storage", ".storage", "content", "<name>">>, NamedByReply("one", "VzTmpl"))
    BY AtVzTmpl DEF Fills, Placed, :>, @@
  <2> QED BY <2>1, KindsAre, NamedOne DEF Get, Loose, Rules
<1>3. RowOK(Get("Storage", "Import", <<"nodes", ".node", "storage", ".storage", "content", "<name>">>, {},
                One("Import", ".node" :> ".node" @@ ".storage" :> ".storage" @@ ".volid" :> "<name>", Wired, "error")))
  <2>1. Fills("Import", ".node" :> ".node" @@ ".storage" :> ".storage" @@ ".volid" :> "<name>",
              <<"nodes", ".node", "storage", ".storage", "content", "<name>">>, NamedByReply("one", "Import"))
    BY AtImport DEF Fills, Placed, :>, @@
  <2> QED BY <2>1, KindsAre, NamedOne DEF Get, Loose, Rules
<1>4. RowOK(Get("Storage", "Backup", <<"nodes", ".node", "storage", ".storage", "content", "<name>">>, {},
                One("Backup", ".node" :> ".node" @@ ".storage" :> ".storage", Wired, "error")))
  <2>1. Fills("Backup", ".node" :> ".node" @@ ".storage" :> ".storage",
              <<"nodes", ".node", "storage", ".storage", "content", "<name>">>, NamedByReply("one", "Backup"))
    BY AtBackup DEF Fills, Placed, :>, @@, NamedByReply, LastKey, FullyListed, SelfNaming
  <2> QED BY <2>1, KindsAre, NamedOne DEF Get, Loose, Rules
<1> QED BY KindsAre, PlainCall, <1>1, <1>2, <1>3, <1>4
        DEF StorageVolumes, Get, Delete, Plain, Rules

LEMMA StorageUpkeepOK == \A row \in StorageUpkeep : RowOK(row)
BY KindsAre, PlainCall DEF StorageUpkeep, Get, Delete, Plain, Rules

LEMMA StorageContentsOK == \A row \in StorageContents : RowOK(row)
BY KindsAre, PlainCall DEF StorageContents, Get, Put, Post, Plain, Rules

LEMMA ApiNodeOK == \A row \in ApiNodeOps : RowOK(row)
BY NodeGuestsOK, NodeStoragesOK, NodeFirewallOK, NodeCertificatesOK, NodeServicesOK,
   NodeSubscriptionOK, NodeReplicationOK, NodeAdminOK, NodeLogsOK, NodeShellsOK, AptPackagesOK,
   NodeCapabilitiesOK, CephControlOK, CephConfigOK, CephMonsAndMgrsOK, CephMDSsOK,
   CephFileSystemsOK, CephOSDsOK, CephPoolsOK, NodeIndexesOK, DisksAndDirectoriesOK, VolumeGroupsOK,
   NodeDnsOK, NodeHardwareOK, NodeMetricsOK, NodeNetworksOK, StorageScansOK, NodeSdnOK,
   ClusterStoragesOK, StorageTransfersOK, StorageVolumesOK, StorageUpkeepOK, StorageContentsOK
DEF ApiNodeOps

LEMMA GuestConfigOK == \A row \in GuestConfig : RowOK(row)
BY KindsAre, PlainCall, CallOfItselfTwice DEF GuestConfig, Get, Put, Post, Plain, Rules, TrustTheReply

LEMMA GuestPowerOK == \A row \in GuestPower : RowOK(row)
BY KindsAre, PlainCall DEF GuestPower, Post, Dial, Plain, Rules

LEMMA GuestMigrationOK == \A row \in GuestMigration : RowOK(row)
BY KindsAre, PlainCall DEF GuestMigration, Get, Post, Plain, Rules

LEMMA GuestDisksOK == \A row \in GuestDisks : RowOK(row)
BY KindsAre, PlainCall DEF GuestDisks, Get, Put, Post, Plain, Rules

LEMMA GuestAgentExecOK == \A row \in GuestAgentExec : RowOK(row)
BY KindsAre, PlainCall DEF GuestAgentExec, Get, Post, Plain, Rules

LEMMA GuestFirewallOK == \A row \in GuestFirewall : RowOK(row)
<1>1. RowOK(Get("VirtualMachine", "FirewallRules", <<"nodes", ".node", "qemu", ".vmid", "firewall", "rules">>, {},
                Each("GuestRule", ".node" :> ".node" @@ ".vmid" :> ".vmid", Wired)))
  <2>1. Fills("GuestRule", ".node" :> ".node" @@ ".vmid" :> ".vmid",
              <<"nodes", ".node", "qemu", ".vmid", "firewall", "rules">>, NamedByReply("each", "GuestRule"))
    BY AtGuestRule DEF Fills, Placed, :>, @@, NamedByReply, LastKey, FullyListed
  <2> QED BY <2>1, KindsAre, NamedEach DEF Get, Loose, Rules
<1>2. RowOK(Lazy("VirtualMachine", "FirewallRule", <<"nodes", ".node", "qemu", ".vmid", "firewall", "rules", "<pos>">>, {},
                One("GuestRule", ".node" :> ".node" @@ ".vmid" :> ".vmid" @@ ".pos" :> "<pos>", Wired, "kept")))
  <2>1. Fills("GuestRule", ".node" :> ".node" @@ ".vmid" :> ".vmid" @@ ".pos" :> "<pos>",
              <<"nodes", ".node", "qemu", ".vmid", "firewall", "rules", "<pos>">>, {})
    BY AtGuestRule DEF Fills, Placed, :>, @@
  <2> QED BY <2>1, KindsAre, FilledOne DEF Lazy, Loose, Rules
<1>3. RowOK(Post("VirtualMachine", "NewFirewallRule", <<"nodes", ".node", "qemu", ".vmid", "firewall", "rules">>, {},
                 Created("GuestRule", ".node" :> ".node" @@ ".vmid" :> ".vmid" @@ ".pos" :> "<pos>")))
  <2> DEFINE keys == ".node" :> ".node" @@ ".vmid" :> ".vmid" @@ ".pos" :> "<pos>"
             path == <<"nodes", ".node", "qemu", ".vmid", "firewall", "rules">>
  <2>1. \A i \in DOMAIN Home["GuestRule"] : Home["GuestRule"][i] \in Fields \ {".pos"} => Placed("GuestRule", keys, path, i)
    BY AtGuestRule DEF Placed, :>, @@
  <2>2. DOMAIN keys = Keys["GuestRule"] /\ keys[".pos"] = "<pos>"
    BY AtGuestRule, KindsAre DEF Keys, :>, @@
  <2>3. Len(path) \in Nat /\ DOMAIN path = 1..Len(path)
    OBVIOUS
  <2>4. <<"VirtualMachine", "NewFirewallRule">> \in KeepThePosition /\ "VirtualMachine" \in Kinds \ (Loose \cup Rules) /\ "GuestRule" \in Rules
    BY KindsAre DEF KeepThePosition, Loose, Rules
  <2> HIDE DEF keys, path
  <2> QED BY <2>1, <2>2, <2>3, <2>4, CreatedRule DEF Post, keys, path
<1> QED BY KindsAre, PlainCall, <1>1, <1>2, <1>3
        DEF GuestFirewall, Get, Put, Post, Delete, Lazy, Plain, Rules

LEMMA GuestSnapshotsOK == \A row \in GuestSnapshots : RowOK(row)
<1>1. RowOK(Get("VirtualMachine", "Snapshots", <<"nodes", ".node", "qemu", ".vmid", "snapshot">>, {},
                Each("VirtualMachineSnapshot", ".node" :> ".node" @@ ".vmid" :> ".vmid", Wired)))
  <2>1. Fills("VirtualMachineSnapshot", ".node" :> ".node" @@ ".vmid" :> ".vmid",
              <<"nodes", ".node", "qemu", ".vmid", "snapshot">>, NamedByReply("each", "VirtualMachineSnapshot"))
    BY AtVirtualMachineSnapshot DEF Fills, Placed, :>, @@, NamedByReply, LastKey, FullyListed
  <2> QED BY <2>1, KindsAre, NamedEach DEF Get, Loose, Rules
<1>2. RowOK(Lazy("VirtualMachine", "Snapshot", <<"nodes", ".node", "qemu", ".vmid", "snapshot", "<name>">>, {},
                One("VirtualMachineSnapshot", ".node" :> ".node" @@ ".vmid" :> ".vmid" @@ ".name" :> "<name>", Wired, "kept")))
  <2>1. Fills("VirtualMachineSnapshot", ".node" :> ".node" @@ ".vmid" :> ".vmid" @@ ".name" :> "<name>",
              <<"nodes", ".node", "qemu", ".vmid", "snapshot", "<name>">>, {})
    BY AtVirtualMachineSnapshot DEF Fills, Placed, :>, @@
  <2> QED BY <2>1, KindsAre, FilledOne DEF Lazy, Loose, Rules
<1> QED BY KindsAre, PlainCall, <1>1, <1>2
        DEF GuestSnapshots, Get, Put, Post, Delete, Lazy, Plain, Rules

LEMMA GuestTunnelsOK == \A row \in GuestTunnels : RowOK(row)
BY KindsAre, PlainCall DEF GuestTunnels, Get, Post, Lazy, Plain, Rules

LEMMA AgentFactsOK == \A row \in AgentFacts : RowOK(row)
BY KindsAre, PlainCall DEF AgentFacts, Get, Post, Plain, Rules

LEMMA AgentCommandsOK == \A row \in AgentCommands : RowOK(row)
BY KindsAre, PlainCall DEF AgentCommands, Get, Post, Plain, Rules

LEMMA CloudInitStateOK == \A row \in CloudInitState : RowOK(row)
BY KindsAre, PlainCall DEF CloudInitState, Get, Put, Plain, Rules

LEMMA GuestFirewallAliasesOK == \A row \in GuestFirewallAliases : RowOK(row)
BY KindsAre, PlainCall DEF GuestFirewallAliases, Get, Put, Post, Delete, Plain, Rules

LEMMA ContainerPowerOK == \A row \in ContainerPower : RowOK(row)
BY KindsAre, PlainCall DEF ContainerPower, Get, Put, Post, Delete, Dial, Plain, Rules

LEMMA ContainerSnapshotsOK == \A row \in ContainerSnapshots : RowOK(row)
<1>1. RowOK(Get("Container", "Snapshots", <<"nodes", ".node", "lxc", ".vmid", "snapshot">>, {},
                Each("ContainerSnapshot", ".node" :> ".node" @@ ".vmid" :> ".vmid", Wired)))
  <2>1. Fills("ContainerSnapshot", ".node" :> ".node" @@ ".vmid" :> ".vmid",
              <<"nodes", ".node", "lxc", ".vmid", "snapshot">>, NamedByReply("each", "ContainerSnapshot"))
    BY AtContainerSnapshot DEF Fills, Placed, :>, @@, NamedByReply, LastKey, FullyListed
  <2> QED BY <2>1, KindsAre, NamedEach DEF Get, Loose, Rules
<1>2. RowOK(Lazy("Container", "Snapshot", <<"nodes", ".node", "lxc", ".vmid", "snapshot", "<name>">>, {},
                One("ContainerSnapshot", ".node" :> ".node" @@ ".vmid" :> ".vmid" @@ ".name" :> "<name>", Wired, "kept")))
  <2>1. Fills("ContainerSnapshot", ".node" :> ".node" @@ ".vmid" :> ".vmid" @@ ".name" :> "<name>",
              <<"nodes", ".node", "lxc", ".vmid", "snapshot", "<name>">>, {})
    BY AtContainerSnapshot DEF Fills, Placed, :>, @@
  <2> QED BY <2>1, KindsAre, FilledOne DEF Lazy, Loose, Rules
<1> QED BY KindsAre, PlainCall, <1>1, <1>2
        DEF ContainerSnapshots, Get, Put, Post, Delete, Lazy, Plain, Rules

LEMMA ContainerFirewallOK == \A row \in ContainerFirewall : RowOK(row)
<1>1. RowOK(Get("Container", "FirewallRules", <<"nodes", ".node", "lxc", ".vmid", "firewall", "rules">>, {},
                Each("ContainerRule", ".node" :> ".node" @@ ".vmid" :> ".vmid", Wired)))
  <2>1. Fills("ContainerRule", ".node" :> ".node" @@ ".vmid" :> ".vmid",
              <<"nodes", ".node", "lxc", ".vmid", "firewall", "rules">>, NamedByReply("each", "ContainerRule"))
    BY AtContainerRule DEF Fills, Placed, :>, @@, NamedByReply, LastKey, FullyListed
  <2> QED BY <2>1, KindsAre, NamedEach DEF Get, Loose, Rules
<1>2. RowOK(Lazy("Container", "FirewallRule", <<"nodes", ".node", "lxc", ".vmid", "firewall", "rules", "<pos>">>, {},
                One("ContainerRule", ".node" :> ".node" @@ ".vmid" :> ".vmid" @@ ".pos" :> "<pos>", Wired, "kept")))
  <2>1. Fills("ContainerRule", ".node" :> ".node" @@ ".vmid" :> ".vmid" @@ ".pos" :> "<pos>",
              <<"nodes", ".node", "lxc", ".vmid", "firewall", "rules", "<pos>">>, {})
    BY AtContainerRule DEF Fills, Placed, :>, @@
  <2> QED BY <2>1, KindsAre, FilledOne DEF Lazy, Loose, Rules
<1>3. RowOK(Post("Container", "NewFirewallRule", <<"nodes", ".node", "lxc", ".vmid", "firewall", "rules">>, {},
                 Created("ContainerRule", ".node" :> ".node" @@ ".vmid" :> ".vmid" @@ ".pos" :> "<pos>")))
  <2> DEFINE keys == ".node" :> ".node" @@ ".vmid" :> ".vmid" @@ ".pos" :> "<pos>"
             path == <<"nodes", ".node", "lxc", ".vmid", "firewall", "rules">>
  <2>1. \A i \in DOMAIN Home["ContainerRule"] : Home["ContainerRule"][i] \in Fields \ {".pos"} => Placed("ContainerRule", keys, path, i)
    BY AtContainerRule DEF Placed, :>, @@
  <2>2. DOMAIN keys = Keys["ContainerRule"] /\ keys[".pos"] = "<pos>"
    BY AtContainerRule, KindsAre DEF Keys, :>, @@
  <2>3. Len(path) \in Nat /\ DOMAIN path = 1..Len(path)
    OBVIOUS
  <2>4. <<"Container", "NewFirewallRule">> \in KeepThePosition /\ "Container" \in Kinds \ (Loose \cup Rules) /\ "ContainerRule" \in Rules
    BY KindsAre DEF KeepThePosition, Loose, Rules
  <2> HIDE DEF keys, path
  <2> QED BY <2>1, <2>2, <2>3, <2>4, CreatedRule DEF Post, keys, path
<1> QED BY KindsAre, PlainCall, <1>1, <1>2, <1>3
        DEF ContainerFirewall, Get, Put, Post, Delete, Lazy, Plain, Rules

LEMMA ContainerTunnelsOK == \A row \in ContainerTunnels : RowOK(row)
BY KindsAre, PlainCall DEF ContainerTunnels, Get, Post, Lazy, Plain, Rules

LEMMA AttachedRulesOK == \A row \in AttachedRules : RowOK(row)
<1>1. \A op, verb : \A gives \in {Itself, Nothing} :
        /\ RowOK(Call("NodeRule", op, verb, <<"nodes", ".node", "firewall", "rules", ".pos">>, {".client"}, gives))
        /\ RowOK(Call("GuestRule", op, verb, <<"nodes", ".node", "qemu", ".vmid", "firewall", "rules", ".pos">>,
                      {".client"}, gives))
        /\ RowOK(Call("ContainerRule", op, verb, <<"nodes", ".node", "lxc", ".vmid", "firewall", "rules", ".pos">>,
                      {".client"}, gives))
  BY RuleCall, AtNodeRule, AtGuestRule, AtContainerRule DEF Rules
<1>2. \A op, verb : \A gives \in {Itself, Nothing} : RowOK(Call("LooseRule", op, verb, <<>>, {".client"}, gives))
  BY KindsAre, PlainCall DEF Plain, Rules
<1> QED BY <1>1, <1>2 DEF AttachedRules, Get, Put, Delete

LEMMA ApiGuestOK == \A row \in ApiGuestOps : RowOK(row)
BY GuestConfigOK, GuestPowerOK, GuestMigrationOK, GuestDisksOK, GuestAgentExecOK, GuestFirewallOK,
   GuestSnapshotsOK, GuestTunnelsOK, AgentFactsOK, AgentCommandsOK, CloudInitStateOK,
   GuestFirewallAliasesOK, ContainerPowerOK, ContainerSnapshotsOK, ContainerFirewallOK,
   ContainerTunnelsOK, AttachedRulesOK
DEF ApiGuestOps
\* Every method of the library, as far as it makes handles.
LEMMA EveryRowIsOK == \A row \in Ops : RowOK(row)
BY ApiAccessOK, ApiClusterOK, ApiNodeOK, ApiGuestOK DEF Ops

LEMMA NextKeeps == IndInv /\ [Next]_vars => IndInv'
<1> SUFFICES ASSUME IndInv, [Next]_vars PROVE IndInv'
  OBVIOUS
<1>1. CASE /\ last = NoCall
           /\ \E row \in OpsOf[hand.kind] : \E args \in Choices(row) :
                 \/ Refuse(row, args) \/ Crash(row, args)
                 \/ Make(row, args) \/ Fail(row, args) \/ NotAuthorized(row, args)
                 \/ AnswerNull(row, args) \/ Answer(row, args)
  <2>1. PICK row \in OpsOf[hand.kind] : \E args \in Choices(row) :
                 \/ Refuse(row, args) \/ Crash(row, args)
                 \/ Make(row, args) \/ Fail(row, args) \/ NotAuthorized(row, args)
                 \/ AnswerNull(row, args) \/ Answer(row, args)
    BY <1>1
  <2> PICK args \in Choices(row) :
                 \/ Refuse(row, args) \/ Crash(row, args)
                 \/ Make(row, args) \/ Fail(row, args) \/ NotAuthorized(row, args)
                 \/ AnswerNull(row, args) \/ Answer(row, args)
    BY <2>1
  <2>2. RowOK(row) /\ hand.kind = row.on
    <3>1. hand.kind \in Kinds
      BY DEF IndInv, TypeOK
    <3> QED BY <3>1, EveryRowIsOK DEF OpsOf
  <2>3. CASE Refuse(row, args)
    BY <2>3, RefuseKeeps
  <2>4. CASE Crash(row, args)
    BY <2>2, <2>4, CrashKeeps
  <2>5. CASE Make(row, args)
    BY <2>2, <2>5, MakeKeeps
  <2>6. CASE Fail(row, args)
    BY <2>2, <2>6, FailKeeps
  <2>7. CASE NotAuthorized(row, args)
    BY <2>2, <2>7, NotAuthorizedKeeps
  <2>8. CASE AnswerNull(row, args)
    BY <2>2, <2>8, AnswerNullKeeps
  <2>9. CASE Answer(row, args)
    BY <2>2, <2>9, AnswerKeeps
  <2> QED BY <2>3, <2>4, <2>5, <2>6, <2>7, <2>8, <2>9
<1>2. CASE GoOn
  BY <1>2, GoOnKeeps
<1>3. CASE StartOver
  BY <1>3, StartOverKeeps
<1>4. CASE UNCHANGED vars
  BY <1>4 DEF vars, IndInv, TypeOK, HandInv, KnowsIt, NothingPanics, HandlesReachTheServer, NullIsSurvived,
              RequestsNameTheirObject
<1> QED BY <1>1, <1>2, <1>3, <1>4 DEF Next

\* The inductive invariant holds of every program that calls the methods one after
\* another: a handle that has its client knows the object it was asked for.
THEOREM InvariantHolds == Spec => []IndInv
BY InitIsFine, NextKeeps, PTL DEF Spec

\* Handles are of a known kind and have the fields of that kind, each a name,
\* empty or zero.
THEOREM TypeCorrect == Spec => []TypeOK
<1>1. IndInv => TypeOK
  BY DEF IndInv
<1> QED BY <1>1, InvariantHolds, PTL

\* Whatever methods are called on whatever handles they return, nothing panics but
\* what the two lists of Api name.
THEOREM NothingPanicsHolds == Spec => []NothingPanics
<1>1. IndInv => NothingPanics
  BY DEF IndInv
<1> QED BY <1>1, InvariantHolds, PTL

\* Whatever row of the tables a handle was come by, its requests are about the object
\* it was asked for; those of the handle of a new firewall rule go to the firewall the
\* rule was created on, and may differ in the position alone.
THEOREM RequestsNameTheirObjectHolds == Spec => []RequestsNameTheirObject
<1>1. IndInv => RequestsNameTheirObject
  BY DEF IndInv
<1> QED BY <1>1, InvariantHolds, PTL
==============================================================================
