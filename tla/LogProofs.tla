------------------------------ MODULE LogProofs ------------------------------
(***************************************************************************)
(* What the logging of sim-core can never do: concurrent registrations of  *)
(* debug categories, for any number of threads, names and ids; the log     *)
(* sessions that the two threads write to, for any number of files,        *)
(* transcripts and sessions and any amount of text.                        *)
(***************************************************************************)
EXTENDS DebugRegistry, Logging, SequenceTheorems, TLAPS

(***************************************************************************)
(* The registry of debug categories.                                       *)
(***************************************************************************)
\* A thread that registers a category, and has its id.
Naming(th) == ~Idle(th) /\ call[th].op \in {"name", "lookup"}

\* Whatever can be enabled is in the map of names: the maps are written in the
\* order that keeps it so.
TokensAreListed == \A tok \in tokens : tok[2] \in DOMAIN names

\* The map of ids holds tokens, and has a key for each.
KeysAreTokens ==
  /\ \A key \in DOMAIN nameToId :
       \E tok \in tokens : Upper[tok[1]] = key /\ tok[2] = nameToId[key]
  /\ \A tok \in tokens : Upper[tok[1]] \in DOMAIN nameToId

\* An id that is allocated is given to one registration.
IdsAreFresh ==
  /\ \A tok \in tokens : tok[2] < nextId \/ tok[2] < First
  /\ \A th \in Threads : Naming(th) /\ call[th].id >= First =>
       /\ call[th].id < nextId
       /\ \A tok \in tokens : tok[2] # call[th].id
       /\ \A other \in Threads \ {th} : Naming(other) => call[other].id # call[th].id

RegistryInvariant ==
  /\ RegistryTypeOK
  /\ EnabledIsListed
  /\ TokensAreListed
  /\ KeysAreTokens
  /\ IdsAreFresh
  /\ TokensDistinct

-----------------------------------------------------------------------------

\* What a partial map is: a function from some of the keys.
LEMMA PartialMapFacts ==
  ASSUME NEW S, NEW T, NEW f
  PROVE  f \in PartialMap(S, T) <=> f \in [DOMAIN f -> T] /\ DOMAIN f \subseteq S
<1>1. ASSUME f \in PartialMap(S, T) PROVE f \in [DOMAIN f -> T] /\ DOMAIN f \subseteq S
  <2>1. PICK D \in SUBSET S : f \in [D -> T]
    BY <1>1 DEF PartialMap
  <2> QED
    BY <2>1
<1>2. ASSUME f \in [DOMAIN f -> T], DOMAIN f \subseteq S PROVE f \in PartialMap(S, T)
  BY <1>2 DEF PartialMap
<1> QED
  BY <1>1, <1>2

\* An entry added to a partial map is found, and leaves the other keys alone.
LEMMA WithFacts ==
  ASSUME NEW S, NEW T, NEW f \in PartialMap(S, T), NEW key \in S, NEW value \in T
  PROVE  /\ With(f, key, value) \in PartialMap(S, T)
         /\ DOMAIN With(f, key, value) = DOMAIN f \cup {key}
         /\ With(f, key, value)[key] = value
         /\ \A k \in DOMAIN f : k # key => With(f, key, value)[k] = f[k]
<1>1. f \in [DOMAIN f -> T] /\ DOMAIN f \subseteq S
  BY PartialMapFacts
<1>2. /\ DOMAIN With(f, key, value) = DOMAIN f \cup {key}
      /\ With(f, key, value)[key] = value
      /\ \A k \in DOMAIN f : k # key => With(f, key, value)[k] = f[k]
  BY DEF With
<1>3. With(f, key, value) \in [DOMAIN f \cup {key} -> T]
  BY <1>1 DEF With
<1>4. With(f, key, value) \in PartialMap(S, T)
  BY <1>1, <1>2, <1>3, PartialMapFacts
<1> QED
  BY <1>2, <1>4

\* The two kinds of call that a thread can be in.
LEMMA CallFacts ==
  ASSUME RegistryTypeOK, NEW th \in Threads, ~Idle(th)
  PROVE  /\ Naming(th) => call[th] \in [op : {"name", "lookup"}, name : Names, id : Ids]
         /\ ~Naming(th) => call[th] \in [op : {"enable", "disable"}, ids : SUBSET Ids]
  BY DEF RegistryTypeOK, Call, Idle, Naming

\* Ids are numbers, and those of the core lie below the allocated ones.
LEMMA IdFacts == Ids \subseteq Nat /\ \A id \in Core : id < First
  BY RegistryAssumption DEF Ids

-----------------------------------------------------------------------------

\* The core's categories are a sound registry.
LEMMA RegistryInitHolds == RegistryInit => RegistryInvariant
<1> SUFFICES ASSUME RegistryInit PROVE RegistryInvariant
  OBVIOUS
<1>1. DOMAIN names = {} /\ DOMAIN nameToId = {}
  BY DEF RegistryInit
<1>2. \A S, T : names \in PartialMap(S, T) /\ nameToId \in PartialMap(S, T)
  <2>1. names \in [{} -> {}] /\ nameToId \in [{} -> {}]
    BY DEF RegistryInit
  <2> QED
    BY <1>1, <2>1, PartialMapFacts
<1>3. RegistryTypeOK
  <2>1. names \in PartialMap(Ids, Names) /\ nameToId \in PartialMap(Strings, Ids)
    BY <1>2
  <2>2. nextId \in First .. LastId + 1
    BY RegistryAssumption DEF RegistryInit
  <2>3. call \in [Threads -> Call]
    BY DEF RegistryInit, Call
  <2> QED
    BY <2>1, <2>2, <2>3 DEF RegistryInit, RegistryTypeOK
<1>4. active = {} /\ tokens = {} /\ \A th \in Threads : Idle(th)
  BY DEF RegistryInit, Idle
<1> QED
  BY <1>1, <1>3, <1>4 DEF RegistryInvariant, EnabledIsListed, TokensAreListed, KeysAreTokens,
                          IdsAreFresh, TokensDistinct, Naming

\* A thread that starts or ends a call leaves what the others have in hand.
LEMMA GoesFacts ==
  ASSUME RegistryTypeOK, NEW th \in Threads, NEW next \in Call, Goes(th, next)
  PROVE  /\ call' \in [Threads -> Call]
         /\ call'[th] = next
         /\ \A other \in Threads \ {th} : call'[other] = call[other]
  BY DEF RegistryTypeOK, Goes

\* The start of a registration.
LEMMA RegistryStartKeeps ==
  ASSUME RegistryInvariant, NEW th \in Threads, NEW name \in Names, NEW id \in Ids,
         Goes(th, [op |-> "name", name |-> name, id |-> id]),
         nextId' \in First .. LastId + 1, nextId <= nextId',
         id >= First => id = nextId /\ nextId' = nextId + 1,
         UNCHANGED <<maps, tokens>>
  PROVE  RegistryInvariant'
<1> DEFINE next == [op |-> "name", name |-> name, id |-> id]
<1>1. next \in Call
  BY DEF Call
<1>2. /\ call' \in [Threads -> Call] /\ call'[th] = next
      /\ \A other \in Threads \ {th} : call'[other] = call[other]
  BY <1>1, GoesFacts DEF RegistryInvariant
<1>3. UNCHANGED <<active, names, nameToId, tokens>>
  BY DEF maps
<1>4. RegistryTypeOK'
  BY <1>2, <1>3 DEF RegistryInvariant, RegistryTypeOK
<1>5. EnabledIsListed'
  BY <1>2, <1>3 DEF RegistryInvariant, EnabledIsListed, Idle
<1>6. TokensAreListed' /\ KeysAreTokens' /\ TokensDistinct'
  BY <1>3 DEF RegistryInvariant, TokensAreListed, KeysAreTokens, TokensDistinct
<1>7. IdsAreFresh'
  <2>1. nextId \in Nat /\ nextId' \in Nat /\ First \in Nat /\ First <= nextId
    BY RegistryAssumption DEF RegistryInvariant, RegistryTypeOK
  <2>2. \A tok \in tokens : tok[2] \in Nat
    BY IdFacts DEF RegistryInvariant, RegistryTypeOK
  <2>3. \A tok \in tokens : tok[2] < nextId' \/ tok[2] < First
    BY <2>1, <2>2 DEF RegistryInvariant, IdsAreFresh
  <2>4. \A other \in Threads : Naming(other) => call[other].id \in Nat
    BY CallFacts, IdFacts DEF RegistryInvariant, Naming
  <2>5. id \in Nat
    BY IdFacts
  <2>6. ASSUME NEW one \in Threads, Naming(one)', call'[one].id >= First
        PROVE  /\ call'[one].id < nextId'
               /\ \A tok \in tokens : tok[2] # call'[one].id
               /\ \A other \in Threads \ {one} : Naming(other)' => call'[other].id # call'[one].id
    <3>1. CASE one = th
      <4>1. call'[one].id = nextId /\ nextId' = nextId + 1
        BY <1>2, <2>6, <3>1
      <4>2. \A tok \in tokens : tok[2] # nextId
        BY <2>1, <2>2 DEF RegistryInvariant, IdsAreFresh
      <4>3. ASSUME NEW other \in Threads \ {one}, Naming(other)'
            PROVE  call'[other].id # nextId
        <5>1. call'[other] = call[other] /\ Naming(other)
          BY <1>2, <3>1, <4>3 DEF Naming, Idle
        <5>2. call[other].id >= First => call[other].id < nextId
          BY <5>1 DEF RegistryInvariant, IdsAreFresh
        <5> QED
          BY <2>1, <2>4, <5>1, <5>2
      <4> QED
        BY <2>1, <4>1, <4>2, <4>3
    <3>2. CASE one # th
      <4>1. call'[one] = call[one] /\ Naming(one)
        BY <1>2, <2>6, <3>2 DEF Naming, Idle
      <4>2. /\ call[one].id < nextId
            /\ \A tok \in tokens : tok[2] # call[one].id
            /\ \A other \in Threads \ {one} : Naming(other) => call[other].id # call[one].id
        BY <2>6, <4>1 DEF RegistryInvariant, IdsAreFresh
      <4>3. id # call[one].id
        BY <2>1, <2>4, <2>5, <2>6, <4>1, <4>2
      <4>4. ASSUME NEW other \in Threads \ {one}, Naming(other)'
            PROVE  call'[other].id # call[one].id
        <5>1. CASE other = th
          BY <1>2, <4>3, <5>1
        <5>2. CASE other # th
          <6>1. call'[other] = call[other] /\ Naming(other)
            BY <1>2, <4>4, <5>2 DEF Naming, Idle
          <6> QED
            BY <4>2, <6>1
        <5> QED
          BY <5>1, <5>2
      <4> QED
        BY <2>1, <2>4, <4>1, <4>2, <4>4
    <3> QED
      BY <3>1, <3>2
  <2> QED
    BY <1>3, <2>3, <2>6 DEF IdsAreFresh
<1> QED
  BY <1>4, <1>5, <1>6, <1>7 DEF RegistryInvariant

\* A step that registers nothing leaves the ids as they are.
LEMMA FreshStays ==
  ASSUME RegistryInvariant, UNCHANGED <<names, nameToId, nextId, tokens>>,
         \A th \in Threads : Naming(th)' => Naming(th) /\ call'[th] = call[th]
  PROVE  TokensAreListed' /\ KeysAreTokens' /\ IdsAreFresh' /\ TokensDistinct'
<1>1. TokensAreListed' /\ KeysAreTokens' /\ TokensDistinct'
  BY DEF RegistryInvariant, TokensAreListed, KeysAreTokens, TokensDistinct
<1>2. IdsAreFresh'
  BY DEF RegistryInvariant, IdsAreFresh
<1> QED
  BY <1>1, <1>2

\* The name goes in first, under an id that nobody else has.
LEMMA InsertNameKeeps ==
  ASSUME RegistryInvariant, NEW th \in Threads, InsertName(th)
  PROVE  RegistryInvariant'
<1>1. Naming(th) /\ call[th] \in [op : {"name", "lookup"}, name : Names, id : Ids]
  BY CallFacts DEF InsertName, Naming, RegistryInvariant
<1> DEFINE next == [call[th] EXCEPT !.op = "lookup"]
<1>2. next = [op |-> "lookup", name |-> call[th].name, id |-> call[th].id]
  BY <1>1
<1>3. next \in Call
  BY <1>1, <1>2 DEF Call
<1>4. /\ call' \in [Threads -> Call] /\ call'[th] = next
      /\ \A other \in Threads \ {th} : call'[other] = call[other]
  BY <1>3, GoesFacts DEF InsertName, RegistryInvariant
<1>5. names' = With(names, call[th].id, call[th].name)
      /\ UNCHANGED <<active, nameToId, nextId, tokens>>
  BY DEF InsertName
<1>6. names' \in PartialMap(Ids, Names) /\ DOMAIN names' = DOMAIN names \cup {call[th].id}
  <2>1. call[th].id \in Ids /\ call[th].name \in Names /\ names \in PartialMap(Ids, Names)
    BY <1>1 DEF RegistryInvariant, RegistryTypeOK
  <2> DEFINE id == call[th].id
             name == call[th].name
  <2>2. names' = With(names, id, name)
    BY <1>5
  <2>3. id \in Ids /\ name \in Names
    BY <2>1
  <2> HIDE DEF id, name, next
  <2>4. With(names, id, name) \in PartialMap(Ids, Names)
        /\ DOMAIN With(names, id, name) = DOMAIN names \cup {id}
    <3>1. names \in PartialMap(Ids, Names)
      BY <2>1
    <3>2. With(names, id, name) \in PartialMap(Ids, Names)
      BY <2>3, <3>1, WithFacts
    <3>3. DOMAIN With(names, id, name) = DOMAIN names \cup {id}
      BY DEF With
    <3> QED
      BY <3>2, <3>3
  <2>5. names' \in PartialMap(Ids, Names) /\ DOMAIN names' = DOMAIN names \cup {id}
    BY <2>2, <2>4, Zenon
  <2> QED
    BY <2>5 DEF id
<1>7. RegistryTypeOK'
  BY <1>4, <1>5, <1>6 DEF RegistryInvariant, RegistryTypeOK
<1>8. EnabledIsListed'
  <2>1. active' \subseteq DOMAIN names' /\ \A key \in DOMAIN nameToId' : nameToId'[key] \in DOMAIN names'
    BY <1>5, <1>6 DEF RegistryInvariant, EnabledIsListed
  <2>2. ASSUME NEW one \in Threads, ~Idle(one)'
        PROVE  /\ call'[one].op = "enable" => call'[one].ids \subseteq DOMAIN names'
               /\ call'[one].op = "lookup" => call'[one].id \in DOMAIN names'
    <3>1. CASE one = th
      BY <1>2, <1>4, <1>6, <3>1
    <3>2. CASE one # th
      BY <1>4, <1>6, <2>2, <3>2 DEF RegistryInvariant, EnabledIsListed, Idle
    <3> QED
      BY <3>1, <3>2
  <2> QED
    BY <2>1, <2>2 DEF EnabledIsListed
<1>9. TokensAreListed' /\ KeysAreTokens' /\ TokensDistinct'
  BY <1>5, <1>6 DEF RegistryInvariant, TokensAreListed, KeysAreTokens, TokensDistinct
<1>10. \A one \in Threads : Naming(one)' => Naming(one) /\ call'[one].id = call[one].id
  BY <1>1, <1>2, <1>4 DEF Naming, Idle
<1>11. IdsAreFresh'
  BY <1>5, <1>10 DEF RegistryInvariant, IdsAreFresh
<1> QED
  BY <1>7, <1>8, <1>9, <1>11 DEF RegistryInvariant

\* The key goes in second: whoever finds it finds an id that is listed.
LEMMA InsertLookupKeeps ==
  ASSUME RegistryInvariant, NEW th \in Threads, InsertLookup(th)
  PROVE  RegistryInvariant'
<1>1. Naming(th) /\ call[th] \in [op : {"name", "lookup"}, name : Names, id : Ids]
  BY CallFacts DEF InsertLookup, Naming, RegistryInvariant
<1> DEFINE name == call[th].name
           id   == call[th].id
           new  == <<name, id>>
<1>2. name \in Names /\ id \in Ids /\ Upper[name] \in Strings /\ new \in Names \X Ids
  BY <1>1 DEF Strings
<1>3. /\ call' \in [Threads -> Call] /\ call'[th] = NoCall
      /\ \A other \in Threads \ {th} : call'[other] = call[other]
  BY GoesFacts DEF InsertLookup, RegistryInvariant, Call
<1>4. /\ nameToId' = With(nameToId, Upper[name], id) /\ tokens' = tokens \cup {new}
      /\ UNCHANGED <<active, names, nextId>>
  BY DEF InsertLookup
<1>5. /\ nameToId' \in PartialMap(Strings, Ids)
      /\ DOMAIN nameToId' = DOMAIN nameToId \cup {Upper[name]}
      /\ nameToId'[Upper[name]] = id
      /\ \A k \in DOMAIN nameToId : k # Upper[name] => nameToId'[k] = nameToId[k]
  <2>1. nameToId \in PartialMap(Strings, Ids)
    BY DEF RegistryInvariant, RegistryTypeOK
  <2> HIDE DEF name, id
  <2> QED
    BY <1>2, <1>4, <2>1, WithFacts
<1>6. RegistryTypeOK'
  BY <1>2, <1>3, <1>4, <1>5 DEF RegistryInvariant, RegistryTypeOK
<1>7. id \in DOMAIN names
  BY DEF RegistryInvariant, EnabledIsListed, InsertLookup
<1>8. \A one \in Threads : ~Idle(one)' => ~Idle(one) /\ call'[one] = call[one] /\ one # th
  BY <1>3 DEF Idle
<1>9. EnabledIsListed'
  BY <1>4, <1>5, <1>7, <1>8 DEF RegistryInvariant, EnabledIsListed
<1>10. TokensAreListed'
  BY <1>4, <1>7 DEF RegistryInvariant, TokensAreListed
<1>11. KeysAreTokens'
  <2>1. ASSUME NEW key \in DOMAIN nameToId'
        PROVE  \E tok \in tokens' : Upper[tok[1]] = key /\ tok[2] = nameToId'[key]
    <3>1. CASE key = Upper[name]
      <4>1. new \in tokens' /\ Upper[new[1]] = key /\ new[2] = nameToId'[key]
        BY <1>4, <1>5, <3>1
      <4> QED
        BY <4>1
    <3>2. CASE key # Upper[name]
      <4>1. key \in DOMAIN nameToId /\ nameToId'[key] = nameToId[key]
        BY <1>5, <3>2
      <4> QED
        BY <1>4, <4>1 DEF RegistryInvariant, KeysAreTokens
    <3> QED
      BY <3>1, <3>2
  <2>2. \A tok \in tokens' : Upper[tok[1]] \in DOMAIN nameToId'
    BY <1>4, <1>5 DEF RegistryInvariant, KeysAreTokens
  <2> QED
    BY <2>1, <2>2 DEF KeysAreTokens
<1>12. id \in Nat /\ First \in Nat /\ \A tok \in tokens : tok[2] \in Nat
  BY <1>2, IdFacts, RegistryAssumption DEF RegistryInvariant, RegistryTypeOK
<1>13. id >= First =>
         /\ id < nextId
         /\ \A tok \in tokens : tok[2] # id
         /\ \A other \in Threads \ {th} : Naming(other) => call[other].id # id
  BY <1>1 DEF RegistryInvariant, IdsAreFresh
<1>14. IdsAreFresh'
  <2>1. \A tok \in tokens' : tok[2] < nextId' \/ tok[2] < First
    BY <1>4, <1>12, <1>13 DEF RegistryInvariant, IdsAreFresh
  <2>2. ASSUME NEW one \in Threads, Naming(one)', call'[one].id >= First
        PROVE  /\ call'[one].id < nextId'
               /\ \A tok \in tokens' : tok[2] # call'[one].id
               /\ \A other \in Threads \ {one} : Naming(other)' => call'[other].id # call'[one].id
    <3>1. one # th /\ call'[one] = call[one] /\ Naming(one)
      BY <1>8, <2>2 DEF Naming
    <3>2. /\ call[one].id < nextId
          /\ \A tok \in tokens : tok[2] # call[one].id
          /\ \A other \in Threads \ {one} : Naming(other) => call[other].id # call[one].id
      BY <2>2, <3>1 DEF RegistryInvariant, IdsAreFresh
    <3>3. id # call[one].id
      BY <1>1, <3>1, <3>2
    <3>4. \A other \in Threads : Naming(other)' => Naming(other) /\ call'[other] = call[other]
      BY <1>8 DEF Naming
    <3> QED
      BY <1>4, <3>1, <3>2, <3>3, <3>4
  <2> QED
    BY <2>1, <2>2 DEF IdsAreFresh
<1>15. TokensDistinct'
  BY <1>4, <1>12, <1>13 DEF RegistryInvariant, TokensDistinct
<1> QED
  BY <1>6, <1>9, <1>10, <1>11, <1>14, <1>15 DEF RegistryInvariant

\* Requests to enable or disable by name, or everything.
LEMMA RequestKeeps ==
  ASSUME RegistryInvariant, NEW th \in Threads, NEW op \in {"enable", "disable"},
         NEW ids \in SUBSET Ids, ids \subseteq DOMAIN names,
         Goes(th, [op |-> op, ids |-> ids]), UNCHANGED <<maps, nextId, tokens>>
  PROVE  RegistryInvariant'
<1> DEFINE next == [op |-> op, ids |-> ids]
<1>1. next \in Call /\ next.op \notin {"name", "lookup"}
  BY DEF Call
<1>2. /\ call' \in [Threads -> Call] /\ call'[th] = next
      /\ \A other \in Threads \ {th} : call'[other] = call[other]
  BY <1>1, GoesFacts DEF RegistryInvariant
<1>3. UNCHANGED <<active, names, nameToId, nextId, tokens>>
  BY DEF maps
<1>4. RegistryTypeOK'
  BY <1>2, <1>3 DEF RegistryInvariant, RegistryTypeOK
<1>5. EnabledIsListed'
  BY <1>1, <1>2, <1>3 DEF RegistryInvariant, EnabledIsListed, Idle
<1>6. \A one \in Threads : Naming(one)' => Naming(one) /\ call'[one] = call[one]
  BY <1>1, <1>2 DEF Naming, Idle
<1> QED
  BY <1>3, <1>4, <1>5, <1>6, FreshStays DEF RegistryInvariant

\* Whatever is done to the set of enabled ids.
LEMMA SwitchKeeps ==
  ASSUME RegistryInvariant, NEW th \in Threads,
         Goes(th, NoCall) \/ call' = call,
         active' \subseteq DOMAIN names, active' \subseteq Ids,
         UNCHANGED <<names, nameToId, nextId, tokens>>
  PROVE  RegistryInvariant'
<1>1. call' \in [Threads -> Call] /\ \A one \in Threads : ~Idle(one)' =>
        ~Idle(one) /\ call'[one] = call[one]
  BY GoesFacts DEF RegistryInvariant, RegistryTypeOK, Call, Idle
<1>2. RegistryTypeOK'
  BY <1>1 DEF RegistryInvariant, RegistryTypeOK
<1>3. EnabledIsListed'
  BY <1>1 DEF RegistryInvariant, EnabledIsListed
<1>4. \A one \in Threads : Naming(one)' => Naming(one) /\ call'[one] = call[one]
  BY <1>1 DEF Naming
<1> QED
  BY <1>2, <1>3, <1>4, FreshStays DEF RegistryInvariant

\* Every step of a registration, of a switch or of a request.
LEMMA RegistryStepKeeps ==
  ASSUME RegistryInvariant, NEW th \in Threads, RegistryStep(th)
  PROVE  RegistryInvariant'
<1>1. DOMAIN names \subseteq Ids
  BY PartialMapFacts DEF RegistryInvariant, RegistryTypeOK
<1>2. ASSUME NEW name \in Names, Allocate(th, name)
      PROVE  RegistryInvariant'
  <2>1. nextId \in Ids /\ nextId' = nextId + 1 /\ nextId' \in First .. LastId + 1 /\ nextId <= nextId'
    BY <1>2, RegistryAssumption DEF Allocate, RegistryInvariant, RegistryTypeOK, Ids
  <2> QED
    BY <1>2, <2>1, RegistryStartKeeps DEF Allocate
<1>3. ASSUME NEW name \in Names, NEW id \in Core, AllocateCore(th, name, id)
      PROVE  RegistryInvariant'
  <2>1. id \in Ids /\ ~(id >= First) /\ nextId' = nextId /\ nextId' \in First .. LastId + 1
        /\ nextId <= nextId'
    BY <1>3, IdFacts, RegistryAssumption
    DEF AllocateCore, RegistryInvariant, RegistryTypeOK, Ids
  <2> QED
    BY <1>3, <2>1, RegistryStartKeeps DEF AllocateCore
<1>4. ASSUME NEW name \in Names, NEW op \in {"enable", "disable"}, LookUp(th, name, op)
      PROVE  RegistryInvariant'
  <2>1. {nameToId[Upper[name]]} \subseteq DOMAIN names
    BY <1>4 DEF LookUp, RegistryInvariant, EnabledIsListed
  <2> QED
    BY <1>1, <1>4, <2>1, RequestKeeps DEF LookUp
<1>5. CASE Collect(th)
  BY <1>1, <1>5, RequestKeeps DEF Collect
<1>6. CASE Enable(th)
  <2>1. call[th].ids \subseteq DOMAIN names
    BY <1>6 DEF Enable, RegistryInvariant, EnabledIsListed
  <2>2. active' \subseteq DOMAIN names /\ active' \subseteq Ids
    BY <1>1, <1>6, <2>1 DEF Enable, RegistryInvariant, EnabledIsListed
  <2> QED
    BY <1>6, <2>2, SwitchKeeps DEF Enable
<1>7. CASE Disable(th)
  <2>1. active' \subseteq DOMAIN names /\ active' \subseteq Ids
    BY <1>1, <1>7 DEF Disable, RegistryInvariant, EnabledIsListed
  <2> QED
    BY <1>7, <2>1, SwitchKeeps DEF Disable
<1>8. ASSUME NEW tok \in tokens, EnableToken(th, tok) \/ DisableToken(th, tok)
      PROVE  RegistryInvariant'
  <2>1. tok[2] \in DOMAIN names
    BY DEF RegistryInvariant, TokensAreListed
  <2>2. active' \subseteq DOMAIN names /\ active' \subseteq Ids
    BY <1>1, <1>8, <2>1 DEF EnableToken, DisableToken, RegistryInvariant, EnabledIsListed
  <2> QED
    BY <1>8, <2>2, SwitchKeeps DEF EnableToken, DisableToken
<1>9. CASE DisableAll(th)
  BY <1>9, SwitchKeeps DEF DisableAll
<1> QED
  BY <1>2, <1>3, <1>4, <1>5, <1>6, <1>7, <1>8, <1>9, InsertNameKeeps, InsertLookupKeeps
  DEF RegistryStep

\* Steps of others leave the registry alone.
LEMMA RegistryStutterKeeps ==
  ASSUME RegistryInvariant, UNCHANGED registryVars
  PROVE  RegistryInvariant'
<1>1. UNCHANGED <<active, names, nameToId, nextId, call, tokens>>
  BY DEF registryVars, maps
<1>2. RegistryTypeOK' /\ EnabledIsListed'
  BY <1>1 DEF RegistryInvariant, RegistryTypeOK, EnabledIsListed, Idle
<1>3. \A one \in Threads : Naming(one)' => Naming(one) /\ call'[one] = call[one]
  BY <1>1 DEF Naming, Idle
<1> QED
  BY <1>1, <1>2, <1>3, FreshStays DEF RegistryInvariant

-----------------------------------------------------------------------------
\* The registry's invariant holds in every behaviour.
THEOREM RegistryIsSound == RegistrySpec => []RegistryInvariant
<1>1. ASSUME RegistryInvariant, [\E th \in Threads : RegistryStep(th)]_registryVars
      PROVE  RegistryInvariant'
  BY <1>1, RegistryStepKeeps, RegistryStutterKeeps
<1> QED
  BY <1>1, RegistryInitHolds, PTL DEF RegistrySpec

\* Whatever is enabled is in the list that SHOW DEBUG prints, at every moment
\* of concurrent registrations (debug.rs:113-118, 158-187).
THEOREM EnabledAreListed == RegistrySpec => []EnabledIsListed
<1>1. RegistryInvariant => EnabledIsListed
  BY DEF RegistryInvariant
<1> QED
  BY <1>1, RegistryIsSound, PTL

\* No two registrations share an id that was allocated (debug.rs:114).
THEOREM TokensDiffer == RegistrySpec => []TokensDistinct
<1>1. RegistryInvariant => TokensDistinct
  BY DEF RegistryInvariant
<1> QED
  BY <1>1, RegistryIsSound, PTL

\* A name that one registration used finds that registration's id
\* (debug.rs:169-180).
THEOREM NamesFindTokens == RegistrySpec => []NameFindsToken
<1>1. RegistryInvariant => NameFindsToken
  <2> SUFFICES ASSUME RegistryInvariant, NEW tok \in tokens,
                      {other \in tokens : Upper[other[1]] = Upper[tok[1]]} = {tok}
               PROVE  /\ Upper[tok[1]] \in DOMAIN nameToId
                      /\ nameToId[Upper[tok[1]]] = tok[2]
    BY DEF NameFindsToken
  <2>1. Upper[tok[1]] \in DOMAIN nameToId
    BY DEF RegistryInvariant, KeysAreTokens
  <2>2. PICK other \in tokens :
          Upper[other[1]] = Upper[tok[1]] /\ other[2] = nameToId[Upper[tok[1]]]
    BY <2>1 DEF RegistryInvariant, KeysAreTokens
  <2>3. other = tok
    BY <2>2
  <2> QED
    BY <2>1, <2>2, <2>3
<1> QED
  BY <1>1, RegistryIsSound, PTL

-----------------------------------------------------------------------------
(***************************************************************************)
(* The log sessions.                                                       *)
(***************************************************************************)
\* The order in which mutexes are taken: DebugState, TranscriptInner, SharedSink.
Rank(l) == IF l \in Sessions THEN 0 ELSE IF l \in Transcripts THEN 1 ELSE 2

Needed(th) == {doing[th].need[i] : i \in DOMAIN doing[th].need}

\* What a thread still needs comes after what it holds, in order.
Ordered(th) ==
  doing[th] # None =>
    /\ \A i, j \in DOMAIN doing[th].need :
         i < j => Rank(doing[th].need[i]) < Rank(doing[th].need[j])
    /\ \A l \in Held(th), k \in Needed(th) : Rank(l) < Rank(k)

\* Only the CLI gives a transcript characters of the console.
MayPush(th, op, t) == op \in {"char", "newline"} => th = Cli /\ pushed[t] < MaxChars

\* A call is about one file: the one its transcript writes to.
InHand(th) ==
  doing[th] # None =>
    \A t \in Transcripts \cap (Held(th) \cup Needed(th)) :
      /\ transcript[t].writer # None
      /\ \A s \in Sinks \cap (Held(th) \cup Needed(th)) : s = transcript[t].writer
      /\ MayPush(th, doing[th].op, t)

LocksSound ==
  /\ owner \in [Locks -> Writers \cup {None}]
  /\ doing \in [Writers -> Calls \cup {None}]
  /\ \A l \in Locks : owner[l] # None => doing[owner[l]] # None
  /\ \A th \in Writers : Ordered(th) /\ InHand(th)

\* The sessions in use are complete, and share a transcript with its own file.
SessionsSound ==
  /\ session \in [Sessions -> [sink : Sinks \cup {None}, transcript : Transcripts \cup {None}]]
  /\ \A d \in Sessions : session[d].transcript # None =>
       /\ transcript[session[d].transcript].writer # None
       /\ session[d].sink = transcript[session[d].transcript].writer
  /\ cliLog \in Transcripts \cup {None}
  /\ cliLog # None => transcript[cliLog].writer # None
  /\ cliDebug \in Sessions \cup {None} /\ simDebug = cliDebug
  /\ cliDebug # None => session[cliDebug].sink # None
  /\ doing[Cli] # None =>
       /\ doing[Cli].op = "share log" => cliLog # None
       /\ doing[Cli].op = "share debug" => cliDebug # None

\* A transcript that was never opened has received nothing.
UnusedAreEmpty ==
  \A t \in Unused :
    /\ transcript[t].buffer = <<>> /\ pushed[t] = 0
    /\ \A s \in Sinks : \A i \in DOMAIN file[s] : ~OfConsole(t, file[s][i])

FilesSound ==
  /\ file \in [Sinks -> Seq(Entry)]
  /\ transcript \in [Transcripts -> [writer : Sinks \cup {None}, buffer : Seq(1 .. MaxChars)]]
  /\ pushed \in [Transcripts -> 0 .. MaxChars]
  /\ UnusedAreEmpty
  /\ ConsoleKept
  /\ MarkersAnnounce

LoggingInvariant == LocksSound /\ SessionsSound /\ FilesSound

-----------------------------------------------------------------------------
(***************************************************************************)
(* Sequences of entries.                                                   *)
(***************************************************************************)

\* A sequence with one more element.
LEMMA AppendFacts ==
  ASSUME NEW S, NEW es \in Seq(S), NEW x \in S
  PROVE  /\ Append(es, x) \in Seq(S)
         /\ Len(es) \in Nat /\ DOMAIN es = 1 .. Len(es)
         /\ Len(Append(es, x)) = Len(es) + 1 /\ DOMAIN Append(es, x) = 1 .. Len(es) + 1
         /\ Append(es, x)[Len(es) + 1] = x
         /\ \A i \in 1 .. Len(es) : Append(es, x)[i] = es[i]
<1>1. Append(es, x) \in Seq(S) /\ Len(Append(es, x)) = Len(es) + 1
  BY AppendProperties
<1> QED
  BY <1>1, AppendProperties, LenProperties

\* Characters stay in order when every line of `new' that has any is one of
\* `old', in its order, and none is left out.
LEMMA SameLines ==
  ASSUME NEW t, NEW old, NEW new, NEW n \in Nat, NEW back,
         InOrder(t, old, n),
         DOMAIN old \subseteq Int, DOMAIN new \subseteq Int,
         \A i \in DOMAIN new : OfConsole(t, new[i]) /\ new[i].text # <<>> =>
           /\ back[i] \in DOMAIN old /\ OfConsole(t, old[back[i]])
           /\ old[back[i]].text = new[i].text,
         \A i, j \in DOMAIN new :
           OfConsole(t, new[i]) /\ new[i].text # <<>> /\ OfConsole(t, new[j]) /\ new[j].text # <<>>
             /\ i < j => back[i] < back[j],
         \A k \in DOMAIN old : OfConsole(t, old[k]) =>
           \E i \in DOMAIN new : OfConsole(t, new[i]) /\ new[i].text = old[k].text
  PROVE  InOrder(t, new, n)
<1> DEFINE Lines(es) == {i \in DOMAIN es : OfConsole(t, es[i])}
<1>1. \A i \in Lines(new) : new[i].text # <<>> =>
        back[i] \in Lines(old) /\ old[back[i]].text = new[i].text
  OBVIOUS
<1>2. \A i \in Lines(new) : \A a \in DOMAIN new[i].text : new[i].text # <<>>
  OBVIOUS
<1>3. \A i \in Lines(new) : \A a \in DOMAIN new[i].text : new[i].text[a] <= n
  BY <1>1, <1>2 DEF InOrder
<1>4. \A c \in 1 .. n : \E i \in Lines(new) : \E a \in DOMAIN new[i].text : new[i].text[a] = c
  <2> SUFFICES ASSUME NEW c \in 1 .. n
               PROVE  \E i \in Lines(new) : \E a \in DOMAIN new[i].text : new[i].text[a] = c
    OBVIOUS
  <2>1. PICK k \in Lines(old) : \E a \in DOMAIN old[k].text : old[k].text[a] = c
    BY DEF InOrder
  <2>2. PICK i \in Lines(new) : new[i].text = old[k].text
    BY <2>1
  <2> QED
    BY <2>1, <2>2
<1>5. ASSUME NEW i \in Lines(new), NEW j \in Lines(new), NEW a \in DOMAIN new[i].text,
             NEW b \in DOMAIN new[j].text, i < j \/ (i = j /\ a < b)
      PROVE  new[i].text[a] < new[j].text[b]
  <2>1. /\ back[i] \in Lines(old) /\ old[back[i]].text = new[i].text
        /\ back[j] \in Lines(old) /\ old[back[j]].text = new[j].text
    BY <1>1, <1>2
  <2>2. back[i] < back[j] \/ (back[i] = back[j] /\ a < b)
    BY <1>2, <1>5
  <2>3. old[back[i]].text[a] < old[back[j]].text[b]
    BY <2>1, <2>2 DEF InOrder
  <2> QED
    BY <2>1, <2>3
<1> QED
  BY <1>3, <1>4, <1>5 DEF InOrder

\* An entry that is not a console line goes in before the last one.
LEMMA OthersGoBefore ==
  ASSUME NEW t, NEW es \in Seq(Entry), NEW x \in Entry, NEW last \in Entry, NEW n \in Nat,
         ~OfConsole(t, x), InOrder(t, Append(es, last), n)
  PROVE  InOrder(t, Append(Append(es, x), last), n)
<1> DEFINE old == Append(es, last)
           new == Append(Append(es, x), last)
           back == [i \in DOMAIN new |-> IF i <= Len(es) THEN i ELSE Len(es) + 1]
<1>1. /\ Len(es) \in Nat /\ DOMAIN old = 1 .. Len(es) + 1
      /\ old[Len(es) + 1] = last /\ \A i \in 1 .. Len(es) : old[i] = es[i]
  BY AppendFacts
<1>2. /\ Append(es, x) \in Seq(Entry) /\ Len(Append(es, x)) = Len(es) + 1
      /\ Append(es, x)[Len(es) + 1] = x /\ \A i \in 1 .. Len(es) : Append(es, x)[i] = es[i]
  BY AppendFacts
<1>3. /\ DOMAIN new = 1 .. Len(es) + 2 /\ new[Len(es) + 2] = last
      /\ \A i \in 1 .. Len(es) + 1 : new[i] = Append(es, x)[i]
  BY <1>1, <1>2, AppendFacts
<1> HIDE DEF old, new
<1>4. new[Len(es) + 1] = x /\ \A i \in 1 .. Len(es) : new[i] = old[i]
  BY <1>1, <1>2, <1>3
<1>5. \A i \in DOMAIN new : OfConsole(t, new[i]) => i <= Len(es) \/ i = Len(es) + 2
  BY <1>1, <1>3, <1>4
<1>6. \A i \in DOMAIN new : OfConsole(t, new[i]) =>
        back[i] \in DOMAIN old /\ old[back[i]] = new[i]
  BY <1>1, <1>3, <1>4, <1>5
<1>7. \A i, j \in DOMAIN new : OfConsole(t, new[i]) /\ OfConsole(t, new[j]) /\ i < j => back[i] < back[j]
  BY <1>1, <1>3, <1>5
<1>8. \A k \in DOMAIN old : \E i \in DOMAIN new : new[i] = old[k]
  <2> SUFFICES ASSUME NEW k \in DOMAIN old PROVE \E i \in DOMAIN new : new[i] = old[k]
    OBVIOUS
  <2>1. CASE k <= Len(es)
    BY <1>1, <1>3, <1>4, <2>1
  <2>2. CASE k = Len(es) + 1
    <3>1. Len(es) + 2 \in DOMAIN new
      BY <1>1, <1>3
    <3> QED
      BY <1>1, <1>3, <2>2, <3>1
  <2> QED
    BY <1>1, <2>1, <2>2
<1>9. InOrder(t, old, n) /\ DOMAIN old \subseteq Int /\ DOMAIN new \subseteq Int
  BY <1>1, <1>3 DEF old
<1> HIDE DEF back
<1>10. InOrder(t, new, n)
  BY <1>6, <1>7, <1>8, <1>9, SameLines
<1> QED
  BY <1>10 DEF new

\* The last line is followed by an empty one: the line buffer is taken over.
LEMMA BufferIsTakenOver ==
  ASSUME NEW t, NEW es \in Seq(Entry), NEW last \in Entry, NEW empty \in Entry, NEW n \in Nat,
         empty.text = <<>>, InOrder(t, Append(es, last), n)
  PROVE  InOrder(t, Append(Append(es, last), empty), n)
<1> DEFINE old == Append(es, last)
           new == Append(old, empty)
           back == [i \in DOMAIN new |-> i]
<1>1. Len(es) \in Nat /\ old \in Seq(Entry) /\ Len(old) = Len(es) + 1 /\ DOMAIN old = 1 .. Len(es) + 1
  BY AppendFacts
<1>2. /\ DOMAIN new = 1 .. Len(es) + 2 /\ new[Len(es) + 2] = empty
      /\ \A i \in 1 .. Len(es) + 1 : new[i] = old[i]
  <2> HIDE DEF old
  <2> QED
    BY <1>1, AppendFacts
<1> HIDE DEF old, new
<1>3. \A i \in DOMAIN new : new[i].text # <<>> => i \in DOMAIN old
  BY <1>1, <1>2
<1>4. \A k \in DOMAIN old : k \in DOMAIN new /\ new[k] = old[k]
  BY <1>1, <1>2
<1>5. InOrder(t, old, n) /\ DOMAIN old \subseteq Int /\ DOMAIN new \subseteq Int
  BY <1>1, <1>2 DEF old
<1>6. \A i \in DOMAIN new : back[i] = i
  OBVIOUS
<1> HIDE DEF back
<1>7. \A i \in DOMAIN new : OfConsole(t, new[i]) /\ new[i].text # <<>> =>
        back[i] \in DOMAIN old /\ OfConsole(t, old[back[i]]) /\ old[back[i]].text = new[i].text
  BY <1>3, <1>4, <1>6
<1>8. \A i, j \in DOMAIN new :
        OfConsole(t, new[i]) /\ new[i].text # <<>> /\ OfConsole(t, new[j]) /\ new[j].text # <<>>
          /\ i < j => back[i] < back[j]
  BY <1>6
<1>9. \A k \in DOMAIN old : OfConsole(t, old[k]) =>
        \E i \in DOMAIN new : OfConsole(t, new[i]) /\ new[i].text = old[k].text
  BY <1>4
<1>10. InOrder(t, new, n)
  BY <1>5, <1>7, <1>8, <1>9, SameLines
<1> QED
  BY <1>10 DEF new, old

\* The next character goes at the end of the last line.
LEMMA LastLineGrows ==
  ASSUME NEW t, NEW es \in Seq(Entry), NEW last \in Entry, NEW grown \in Entry, NEW n \in Nat,
         OfConsole(t, last), OfConsole(t, grown), grown.text = Append(last.text, n + 1),
         last.text \in Seq(Int), InOrder(t, Append(es, last), n)
  PROVE  InOrder(t, Append(es, grown), n + 1)
<1> DEFINE old == Append(es, last)
           new == Append(es, grown)
           L == Len(es) + 1
           m == Len(last.text)
<1>1. /\ Len(es) \in Nat /\ DOMAIN old = 1 .. L /\ old[L] = last
      /\ DOMAIN new = 1 .. L /\ new[L] = grown
      /\ \A i \in 1 .. Len(es) : old[i] = es[i] /\ new[i] = es[i]
  BY AppendFacts
<1>2. /\ m \in Nat /\ DOMAIN last.text = 1 .. m /\ DOMAIN grown.text = 1 .. m + 1
      /\ grown.text[m + 1] = n + 1
      /\ \A a \in 1 .. m : grown.text[a] = last.text[a]
  BY AppendFacts
<1>3. InOrder(t, old, n)
  OBVIOUS
<1> HIDE DEF old, new, m
<1> DEFINE lines == {i \in DOMAIN old : OfConsole(t, old[i])}
<1>4. L \in lines /\ lines = {i \in DOMAIN new : OfConsole(t, new[i])} /\ lines \subseteq 1 .. L
  <2>1. \A i \in 1 .. L : i = L \/ new[i] = old[i]
    BY <1>1
  <2>2. OfConsole(t, old[L]) /\ OfConsole(t, new[L]) /\ L \in 1 .. L
    BY <1>1
  <2>3. \A i \in 1 .. L : OfConsole(t, old[i]) <=> OfConsole(t, new[i])
    BY <2>1, <2>2
  <2> QED
    BY <1>1, <2>2, <2>3
<1>5. \A i \in lines : i # L => new[i] = old[i]
  BY <1>1
<1>6. \A i \in lines : \A a \in DOMAIN old[i].text : old[i].text[a] <= n
  BY <1>3 DEF InOrder
<1>7. \A i \in lines : \A a \in DOMAIN new[i].text :
        \/ i = L /\ a = m + 1 /\ new[i].text[a] = n + 1
        \/ a \in DOMAIN old[i].text /\ new[i].text[a] = old[i].text[a] /\ (i = L => a \in 1 .. m)
  BY <1>1, <1>2, <1>5
<1>8. \A i \in lines : \A a \in DOMAIN old[i].text :
        a \in DOMAIN new[i].text /\ new[i].text[a] = old[i].text[a]
  <2> SUFFICES ASSUME NEW i \in lines, NEW a \in DOMAIN old[i].text
               PROVE  a \in DOMAIN new[i].text /\ new[i].text[a] = old[i].text[a]
    OBVIOUS
  <2>1. CASE i = L
    <3>1. old[i] = last /\ new[i] = grown
      BY <1>1, <2>1
    <3>2. a \in 1 .. m
      BY <1>2, <3>1
    <3>3. a \in DOMAIN grown.text /\ grown.text[a] = last.text[a]
      BY <1>2, <3>2
    <3> HIDE DEF L
    <3> QED
      BY <3>1, <3>3
  <2>2. CASE i # L
    BY <1>5, <2>2
  <2> QED
    BY <2>1, <2>2
<1>9. \A i \in lines : \A a \in DOMAIN old[i].text : old[i].text[a] \in Int
  <2> SUFFICES ASSUME NEW i \in lines, NEW a \in DOMAIN old[i].text PROVE old[i].text[a] \in Int
    OBVIOUS
  <2>1. CASE i = L
    BY <1>1, <1>2, <2>1, ElementOfSeq DEF m
  <2>2. CASE i # L
    <3>1. es[i] \in Entry /\ old[i] = es[i]
      BY <1>1, <1>4, <2>2, ElementOfSeq
    <3>2. es[i].text \in Seq(1 .. MaxChars)
      BY <3>1 DEF Entry
    <3>3. a \in 1 .. Len(es[i].text)
      BY <3>1, <3>2, LenProperties
    <3> QED
      <4>1. es[i].text[a] \in 1 .. MaxChars
        BY <3>2, <3>3, ElementOfSeq
      <4> QED
        BY <3>1, <4>1
  <2> QED
    BY <2>1, <2>2
<1>10. \A i \in lines : \A a \in DOMAIN new[i].text : new[i].text[a] <= n + 1
  BY <1>6, <1>7, <1>9
<1>11. \A c \in 1 .. n + 1 : \E i \in lines : \E a \in DOMAIN new[i].text : new[i].text[a] = c
  <2> SUFFICES ASSUME NEW c \in 1 .. n + 1
               PROVE  \E i \in lines : \E a \in DOMAIN new[i].text : new[i].text[a] = c
    OBVIOUS
  <2>1. CASE c = n + 1
    <3>1. m + 1 \in DOMAIN new[L].text /\ new[L].text[m + 1] = n + 1
      BY <1>1, <1>2
    <3> QED
      BY <1>4, <2>1, <3>1
  <2>2. CASE c \in 1 .. n
    <3>1. PICK i \in lines : \E a \in DOMAIN old[i].text : old[i].text[a] = c
      BY <1>3, <2>2 DEF InOrder
    <3>2. PICK a \in DOMAIN old[i].text : old[i].text[a] = c
      BY <3>1
    <3> QED
      BY <1>8, <3>2
  <2> QED
    BY <2>1, <2>2
<1>12. ASSUME NEW i \in lines, NEW j \in lines, NEW a \in DOMAIN new[i].text,
              NEW b \in DOMAIN new[j].text, i < j \/ (i = j /\ a < b)
       PROVE  new[i].text[a] < new[j].text[b]
  <2>1. CASE i = L /\ a = m + 1
    <3>1. j = L /\ b \in 1 .. m + 1
      BY <1>1, <1>2, <1>4, <1>12, <2>1
    <3> QED
      BY <1>2, <1>12, <2>1, <3>1
  <2>2. CASE a \in DOMAIN old[i].text /\ new[i].text[a] = old[i].text[a]
    <3>1. old[i].text[a] \in Int /\ old[i].text[a] <= n
      BY <1>6, <1>9, <2>2
    <3>2. CASE j = L /\ b = m + 1 /\ new[j].text[b] = n + 1
      BY <2>2, <3>1, <3>2
    <3>3. CASE b \in DOMAIN old[j].text /\ new[j].text[b] = old[j].text[b]
      BY <1>3, <1>12, <2>2, <3>3 DEF InOrder
    <3> QED
      BY <1>7, <3>2, <3>3
  <2> QED
    BY <1>7, <2>1, <2>2
<1>13. InOrder(t, new, n + 1)
  BY <1>4, <1>10, <1>11, <1>12 DEF InOrder
<1> QED
  BY <1>13 DEF new
-----------------------------------------------------------------------------
(***************************************************************************)
(* Files.                                                                  *)
(***************************************************************************)

\* Three entries are appended one after the other.
LEMMA ThreeEntries ==
  ASSUME NEW es \in Seq(Entry), NEW x \in Entry, NEW y \in Entry, NEW z \in Entry
  PROVE  es \o <<x, y, z>> = Append(Append(Append(es, x), y), z)
<1> DEFINE left == es \o <<x, y, z>>
           right == Append(Append(Append(es, x), y), z)
           L == Len(es)
<1>1. <<x, y, z>> \in Seq(Entry) /\ Len(<<x, y, z>>) = 3
      /\ <<x, y, z>>[1] = x /\ <<x, y, z>>[2] = y /\ <<x, y, z>>[3] = z
  OBVIOUS
<1>2. /\ left \in Seq(Entry) /\ Len(left) = L + 3 /\ L \in Nat
      /\ \A i \in 1 .. L + 3 : left[i] = IF i <= L THEN es[i] ELSE <<x, y, z>>[i - L]
  BY <1>1, ConcatProperties, LenProperties
<1>3. /\ Append(es, x) \in Seq(Entry) /\ Len(Append(es, x)) = L + 1 /\ Append(es, x)[L + 1] = x
      /\ \A i \in 1 .. L : Append(es, x)[i] = es[i]
  BY AppendFacts
<1> DEFINE two == Append(Append(es, x), y)
<1>4. /\ two \in Seq(Entry) /\ Len(two) = L + 2 /\ two[L + 2] = y
      /\ \A i \in 1 .. L + 1 : two[i] = Append(es, x)[i]
  BY <1>2, <1>3, AppendFacts
<1> HIDE DEF two
<1>5. /\ Append(two, z) \in Seq(Entry) /\ Len(Append(two, z)) = L + 3 /\ Append(two, z)[L + 3] = z
      /\ \A i \in 1 .. L + 2 : Append(two, z)[i] = two[i]
  BY <1>2, <1>4, AppendFacts
<1>6. right = Append(two, z)
  BY DEF two
<1> HIDE DEF left, right, L
<1>7. \A i \in 1 .. L + 3 : left[i] = right[i]
  <2> SUFFICES ASSUME NEW i \in 1 .. L + 3 PROVE left[i] = right[i]
    OBVIOUS
  <2>1. CASE i <= L
    <3>1. i \in 1 .. L /\ i \in 1 .. L + 1 /\ i \in 1 .. L + 2
      BY <1>2, <2>1
    <3> QED
      BY <1>2, <1>3, <1>4, <1>5, <1>6, <2>1, <3>1
  <2>2. CASE i = L + 1
    BY <1>1, <1>2, <1>3, <1>4, <1>5, <1>6, <2>2
  <2>3. CASE i = L + 2
    BY <1>1, <1>2, <1>4, <1>5, <1>6, <2>3
  <2>4. CASE i = L + 3
    BY <1>1, <1>2, <1>5, <1>6, <2>4
  <2> QED
    BY <1>2, <2>1, <2>2, <2>3, <2>4
<1>8. left = right
  BY <1>2, <1>5, <1>6, <1>7, SeqEqual
<1> QED
  BY <1>8 DEF left, right

\* MarkersAnnounce, of one file.
Announced(es) ==
  \A i \in DOMAIN es : es[i].kind = "marker" =>
    /\ i > 1 /\ es[i - 1].kind = "cut"
    /\ i < Len(es) /\ es[i + 1].kind = "record"

\* An entry that is not a marker can follow what is there.
LEMMA EntriesKeepMarkers ==
  ASSUME NEW es \in Seq(Entry), NEW x \in Entry, x.kind # "marker", Announced(es)
  PROVE  Announced(Append(es, x))
<1> DEFINE new == Append(es, x)
           L == Len(es)
<1>1. /\ L \in Nat /\ DOMAIN es = 1 .. L /\ Len(new) = L + 1 /\ DOMAIN new = 1 .. L + 1
      /\ new[L + 1] = x /\ \A i \in 1 .. L : new[i] = es[i]
  BY AppendFacts
<1> HIDE DEF new, L
<1> SUFFICES ASSUME NEW i \in DOMAIN new, new[i].kind = "marker"
             PROVE  /\ i > 1 /\ new[i - 1].kind = "cut"
                    /\ i < Len(new) /\ new[i + 1].kind = "record"
  BY DEF Announced, new
<1>2. i \in 1 .. L /\ es[i].kind = "marker"
  BY <1>1
<1>3. i > 1 /\ es[i - 1].kind = "cut" /\ i < L /\ es[i + 1].kind = "record"
  BY <1>1, <1>2 DEF Announced, L
<1> QED
  BY <1>1, <1>2, <1>3

\* The three entries of an announced record can follow what is there.
LEMMA RecordsAreAnnounced ==
  ASSUME NEW es \in Seq(Entry), NEW x \in Entry, NEW y \in Entry, NEW z \in Entry,
         x.kind = "cut", y.kind = "marker", z.kind = "record", Announced(es)
  PROVE  Announced(es \o <<x, y, z>>)
<1> DEFINE one == Append(es, x)
           new == es \o <<x, y, z>>
           L == Len(es)
<1>1. /\ L \in Nat /\ one \in Seq(Entry) /\ Len(one) = L + 1 /\ DOMAIN one = 1 .. L + 1 /\ one[L + 1] = x
      /\ Announced(one)
  BY AppendFacts, EntriesKeepMarkers
<1>2. /\ <<x, y, z>> \in Seq(Entry) /\ Len(<<x, y, z>>) = 3 /\ DOMAIN es = 1 .. L
      /\ <<x, y, z>>[1] = x /\ <<x, y, z>>[2] = y /\ <<x, y, z>>[3] = z
  BY LenProperties
<1>3. /\ new \in Seq(Entry) /\ Len(new) = L + 3
      /\ \A i \in 1 .. L + 3 : new[i] = IF i <= L THEN es[i] ELSE <<x, y, z>>[i - L]
  BY <1>2, ConcatProperties
<1>4. DOMAIN new = 1 .. L + 3
  BY <1>3, LenProperties
<1>5. /\ \A i \in 1 .. L : new[i] = es[i]
      /\ new[L + 1] = x /\ new[L + 2] = y /\ new[L + 3] = z
  BY <1>1, <1>2, <1>3
<1> HIDE DEF new, L, one
<1> SUFFICES ASSUME NEW i \in DOMAIN new, new[i].kind = "marker"
             PROVE  /\ i > 1 /\ new[i - 1].kind = "cut"
                    /\ i < Len(new) /\ new[i + 1].kind = "record"
  BY DEF Announced, new
<1>6. CASE i \in 1 .. L
  <2>1. i > 1 /\ es[i - 1].kind = "cut" /\ i < L /\ es[i + 1].kind = "record"
    BY <1>2, <1>5, <1>6 DEF Announced, L
  <2> QED
    BY <1>1, <1>3, <1>5, <1>6, <2>1
<1>7. CASE i = L + 2
  BY <1>1, <1>3, <1>5, <1>7
<1> QED
  BY <1>1, <1>4, <1>5, <1>6, <1>7

\* The entries without characters of the console.
LEMMA PlainFacts ==
  ASSUME NEW kind \in {"part", "line", "marker", "record"}
  PROVE  Plain(kind) \in Entry /\ Plain(kind).kind = kind
<1>1. <<>> \in Seq(1 .. MaxChars)
  BY EmptySeq
<1> QED
  BY <1>1 DEF Plain, Entry

\* The entries that hold the line buffer.
LEMMA TextFacts ==
  ASSUME FilesSound, NEW t \in Transcripts, NEW kind \in {"console", "cut"}
  PROVE  /\ Text(kind, t) \in Entry /\ Text(kind, t).kind = kind /\ Text(kind, t).by = t
         /\ Text(kind, t).text = transcript[t].buffer
<1>1. transcript[t].buffer \in Seq(1 .. MaxChars)
  BY DEF FilesSound
<1> QED
  BY <1>1 DEF Text, Entry

\* What holds of a file's console lines when the file alone has grown.
LEMMA FilesGrow ==
  ASSUME FilesSound, NEW s \in Sinks, NEW es \in Seq(Entry),
         file' = [file EXCEPT ![s] = es], UNCHANGED <<transcript, pushed>>,
         Announced(es),
         \A t \in Transcripts : \A i \in DOMAIN es : OfConsole(t, es[i]) =>
           \E k \in DOMAIN file[s] : OfConsole(t, file[s][k]),
         \A t \in Transcripts : transcript[t].writer = s /\ InOrder(t, Received(t), pushed[t]) =>
           InOrder(t, Append(es, Text("console", t)), pushed[t])
  PROVE  FilesSound'
<1>1. /\ file' \in [Sinks -> Seq(Entry)] /\ file'[s] = es
      /\ \A r \in Sinks : r # s => file'[r] = file[r]
  BY DEF FilesSound
<1>2. UnusedAreEmpty'
  BY <1>1 DEF FilesSound, UnusedAreEmpty, Unused
<1>3. ConsoleKept'
  <2> SUFFICES ASSUME NEW t \in Transcripts, transcript[t].writer # None
               PROVE  InOrder(t, Append(file'[transcript[t].writer], Text("console", t)), pushed[t])
    BY DEF ConsoleKept, Received, Text
  <2>1. InOrder(t, Received(t), pushed[t]) /\ transcript[t].writer \in Sinks
    BY DEF FilesSound, ConsoleKept
  <2> QED
    BY <1>1, <2>1 DEF Received
<1>4. MarkersAnnounce'
  BY <1>1 DEF FilesSound, MarkersAnnounce, Announced
<1> QED
  BY <1>1, <1>2, <1>3, <1>4 DEF FilesSound

\* An entry that is neither a marker nor of the console.
LEMMA EntriesKeep ==
  ASSUME FilesSound, NEW s \in Sinks, NEW x \in Entry, x.kind \notin {"marker", "console"},
         file' = [file EXCEPT ![s] = Append(@, x)], UNCHANGED <<transcript, pushed>>
  PROVE  FilesSound'
<1> DEFINE es == Append(file[s], x)
<1>1. file[s] \in Seq(Entry) /\ Announced(file[s])
  BY DEF FilesSound, MarkersAnnounce, Announced
<1>2. es \in Seq(Entry) /\ Announced(es)
  BY <1>1, EntriesKeepMarkers, AppendFacts
<1>3. \A t \in Transcripts : ~OfConsole(t, x)
  BY DEF OfConsole
<1>4. \A t \in Transcripts : \A i \in DOMAIN es : OfConsole(t, es[i]) =>
        \E k \in DOMAIN file[s] : OfConsole(t, file[s][k])
  <2> SUFFICES ASSUME NEW t \in Transcripts, NEW i \in DOMAIN es, OfConsole(t, es[i])
               PROVE  \E k \in DOMAIN file[s] : OfConsole(t, file[s][k])
    OBVIOUS
  <2>1. i \in DOMAIN file[s] /\ es[i] = file[s][i]
    BY <1>1, <1>3, AppendFacts
  <2> QED
    BY <2>1
<1>5. ASSUME NEW t \in Transcripts, transcript[t].writer = s, InOrder(t, Received(t), pushed[t])
      PROVE  InOrder(t, Append(es, Text("console", t)), pushed[t])
  <2>1. pushed[t] \in Nat
    BY LoggingAssumption DEF FilesSound
  <2> QED
    BY <1>1, <1>3, <1>5, <2>1, OthersGoBefore, TextFacts DEF Received
<1> HIDE DEF es
<1>6. file' = [file EXCEPT ![s] = es]
  BY DEF es
<1> QED
  BY <1>2, <1>4, <1>5, <1>6, FilesGrow

\* A record, with the copy of an unfinished line and the marker before it.
LEMMA RecordsKeep ==
  ASSUME FilesSound, NEW s \in Sinks, NEW t0 \in Transcripts,
         file' = [file EXCEPT ![s] = @ \o <<Text("cut", t0), Plain("marker"), Plain("record")>>],
         UNCHANGED <<transcript, pushed>>
  PROVE  FilesSound'
<1> DEFINE x == Text("cut", t0)
           y == Plain("marker")
           z == Plain("record")
           es == file[s] \o <<x, y, z>>
           two == Append(Append(file[s], x), y)
<1>1. file[s] \in Seq(Entry) /\ Announced(file[s])
  BY DEF FilesSound, MarkersAnnounce, Announced
<1>2. /\ x \in Entry /\ y \in Entry /\ z \in Entry
      /\ x.kind = "cut" /\ y.kind = "marker" /\ z.kind = "record"
  BY PlainFacts, TextFacts
<1>3. file' = [file EXCEPT ![s] = es]
  OBVIOUS
<1> HIDE DEF x, y, z
<1>4. Append(file[s], x) \in Seq(Entry) /\ two \in Seq(Entry) /\ es = Append(two, z)
      /\ es \in Seq(Entry)
  BY <1>1, <1>2, ThreeEntries, AppendProperties
<1>5. Announced(es)
  BY <1>1, <1>2, RecordsAreAnnounced
<1>6. \A t \in Transcripts : ~OfConsole(t, x) /\ ~OfConsole(t, y) /\ ~OfConsole(t, z)
  BY <1>2 DEF OfConsole
<1>7. \A t \in Transcripts : \A i \in DOMAIN es : OfConsole(t, es[i]) =>
        \E k \in DOMAIN file[s] : OfConsole(t, file[s][k])
  <2> SUFFICES ASSUME NEW t \in Transcripts, NEW i \in DOMAIN es, OfConsole(t, es[i])
               PROVE  \E k \in DOMAIN file[s] : OfConsole(t, file[s][k])
    OBVIOUS
  <2>1. i \in DOMAIN two /\ es[i] = two[i]
    <3> HIDE DEF two, es
    <3> QED
      BY <1>2, <1>4, <1>6, AppendFacts
  <2>2. i \in DOMAIN Append(file[s], x) /\ two[i] = Append(file[s], x)[i]
    BY <1>2, <1>4, <1>6, <2>1, AppendFacts
  <2>3. i \in DOMAIN file[s] /\ Append(file[s], x)[i] = file[s][i]
    BY <1>1, <1>2, <1>6, <2>1, <2>2, AppendFacts
  <2> QED
    BY <2>1, <2>2, <2>3
<1>8. ASSUME NEW t \in Transcripts, transcript[t].writer = s, InOrder(t, Received(t), pushed[t])
      PROVE  InOrder(t, Append(es, Text("console", t)), pushed[t])
  <2> DEFINE last == Text("console", t)
  <2>1. pushed[t] \in Nat /\ last \in Entry /\ InOrder(t, Append(file[s], last), pushed[t])
    BY <1>8, LoggingAssumption, TextFacts DEF FilesSound, Received
  <2> HIDE DEF last
  <2>2. InOrder(t, Append(Append(file[s], x), last), pushed[t])
    BY <1>1, <1>2, <1>6, <2>1, OthersGoBefore
  <2>3. InOrder(t, Append(two, last), pushed[t])
    BY <1>2, <1>4, <1>6, <2>1, <2>2, OthersGoBefore
  <2>4. InOrder(t, Append(Append(two, z), last), pushed[t])
    <3> HIDE DEF two
    <3> QED
      BY <1>2, <1>4, <1>6, <2>1, <2>3, OthersGoBefore
  <2> QED
    BY <1>4, <2>4 DEF last
<1> HIDE DEF es
<1> QED
  BY <1>3, <1>4, <1>5, <1>7, <1>8, FilesGrow

\* A line of the console goes to the transcript's file and empties the buffer.
\* `line' is what had been received last, with or without one more character.
LEMMA LinesKeep ==
  ASSUME FilesSound, NEW t0 \in Transcripts, transcript[t0].writer # None,
         NEW s, s = transcript[t0].writer, NEW line \in Entry, NEW n \in 0 .. MaxChars,
         OfConsole(t0, line), InOrder(t0, Append(file[s], line), n),
         file' = [file EXCEPT ![s] = Append(@, line)],
         transcript' = [transcript EXCEPT ![t0].buffer = <<>>],
         pushed' = [pushed EXCEPT ![t0] = n]
  PROVE  FilesSound'
<1>1. s \in Sinks /\ file[s] \in Seq(Entry) /\ Announced(file[s])
  BY DEF FilesSound, MarkersAnnounce, Announced
<1>2. Append(file[s], line) \in Seq(Entry) /\ Announced(Append(file[s], line))
  BY <1>1, EntriesKeepMarkers, AppendFacts DEF OfConsole
<1>3. /\ file' \in [Sinks -> Seq(Entry)] /\ file'[s] = Append(file[s], line)
      /\ \A r \in Sinks : r # s => file'[r] = file[r]
  BY <1>1, <1>2 DEF FilesSound
<1>4. <<>> \in Seq(1 .. MaxChars)
  BY EmptySeq
<1>5. /\ transcript' \in [Transcripts -> [writer : Sinks \cup {None}, buffer : Seq(1 .. MaxChars)]]
      /\ pushed' \in [Transcripts -> 0 .. MaxChars]
      /\ transcript'[t0].buffer = <<>> /\ pushed'[t0] = n
      /\ \A t \in Transcripts : /\ transcript'[t].writer = transcript[t].writer
                                /\ t # t0 => transcript'[t] = transcript[t] /\ pushed'[t] = pushed[t]
  BY <1>4 DEF FilesSound
<1>6. \A t \in Transcripts : t # t0 => ~OfConsole(t, line)
  BY DEF OfConsole
<1>7. UnusedAreEmpty'
  <2> SUFFICES ASSUME NEW t \in Transcripts, transcript'[t].writer = None
               PROVE  /\ transcript'[t].buffer = <<>> /\ pushed'[t] = 0
                      /\ \A r \in Sinks : \A i \in DOMAIN file'[r] : ~OfConsole(t, file'[r][i])
    BY DEF UnusedAreEmpty, Unused
  <2>1. t # t0 /\ t \in Unused
    BY <1>5 DEF Unused
  <2>2. transcript'[t].buffer = <<>> /\ pushed'[t] = 0
    BY <1>5, <2>1 DEF FilesSound, UnusedAreEmpty
  <2>3. \A r \in Sinks : \A i \in DOMAIN file[r] : ~OfConsole(t, file[r][i])
    BY <2>1 DEF FilesSound, UnusedAreEmpty
  <2>4. \A i \in DOMAIN Append(file[s], line) : ~OfConsole(t, Append(file[s], line)[i])
    BY <1>1, <1>6, <2>1, <2>3, AppendFacts
  <2> QED
    BY <1>3, <2>2, <2>3, <2>4
<1>8. MarkersAnnounce'
  BY <1>2, <1>3 DEF FilesSound, MarkersAnnounce, Announced
<1>9. ConsoleKept'
  <2> SUFFICES ASSUME NEW t \in Transcripts, transcript[t].writer # None
               PROVE  InOrder(t, Append(file'[transcript[t].writer], Text("console", t)'), pushed'[t])
    BY <1>5 DEF ConsoleKept, Received
  <2>1. InOrder(t, Append(file[transcript[t].writer], Text("console", t)), pushed[t])
    BY DEF FilesSound, ConsoleKept, Received
  <2>2. transcript[t].writer \in Sinks /\ pushed[t] \in Nat
    BY LoggingAssumption DEF FilesSound
  <2>3. CASE t = t0
    <3>1. Text("console", t)' \in Entry /\ Text("console", t)'.text = <<>>
      BY <1>4, <1>5, <2>3 DEF Text, Entry
    <3>2. InOrder(t0, Append(Append(file[s], line), Text("console", t)'), n)
      BY <1>1, <3>1, BufferIsTakenOver
    <3> QED
      BY <1>3, <1>5, <2>3, <3>2
  <2>4. CASE t # t0 /\ transcript[t].writer = s
    <3>1. Text("console", t)' = Text("console", t) /\ pushed'[t] = pushed[t]
      BY <1>5, <2>4 DEF Text
    <3>2. InOrder(t, Append(Append(file[s], line), Text("console", t)), pushed[t])
      BY <1>1, <1>6, <2>1, <2>2, <2>4, OthersGoBefore, TextFacts
    <3> QED
      BY <1>3, <2>4, <3>1, <3>2
  <2>5. CASE t # t0 /\ transcript[t].writer # s
    <3>1. Text("console", t)' = Text("console", t) /\ pushed'[t] = pushed[t]
      BY <1>5, <2>5 DEF Text
    <3> QED
      BY <1>3, <2>1, <2>2, <2>5, <3>1
  <2> QED
    BY <2>3, <2>4, <2>5
<1> QED
  BY <1>3, <1>5, <1>7, <1>8, <1>9 DEF FilesSound

\* A character of the console goes to the end of the line buffer.
LEMMA CharactersKeep ==
  ASSUME FilesSound, NEW t0 \in Transcripts, transcript[t0].writer # None, pushed[t0] < MaxChars,
         UNCHANGED file,
         transcript' = [transcript EXCEPT ![t0].buffer = Append(@, pushed[t0] + 1)],
         pushed' = [pushed EXCEPT ![t0] = @ + 1]
  PROVE  FilesSound'
<1>1. /\ transcript[t0].buffer \in Seq(1 .. MaxChars) /\ pushed[t0] \in Nat
      /\ pushed[t0] + 1 \in 1 .. MaxChars
  BY LoggingAssumption DEF FilesSound
<1>2. Append(transcript[t0].buffer, pushed[t0] + 1) \in Seq(1 .. MaxChars)
  BY <1>1, AppendFacts
<1>3. /\ transcript' \in [Transcripts -> [writer : Sinks \cup {None}, buffer : Seq(1 .. MaxChars)]]
      /\ pushed' \in [Transcripts -> 0 .. MaxChars]
      /\ transcript'[t0].buffer = Append(transcript[t0].buffer, pushed[t0] + 1)
      /\ pushed'[t0] = pushed[t0] + 1
      /\ \A t \in Transcripts : /\ transcript'[t].writer = transcript[t].writer
                                /\ t # t0 => transcript'[t] = transcript[t] /\ pushed'[t] = pushed[t]
  <2> DEFINE buffer == Append(transcript[t0].buffer, pushed[t0] + 1)
             n == pushed[t0] + 1
  <2>1. buffer \in Seq(1 .. MaxChars) /\ n \in 0 .. MaxChars
    BY <1>1, <1>2
  <2>2. transcript' = [transcript EXCEPT ![t0].buffer = buffer] /\ pushed' = [pushed EXCEPT ![t0] = n]
    OBVIOUS
  <2> HIDE DEF buffer, n
  <2>3. /\ transcript' \in [Transcripts -> [writer : Sinks \cup {None}, buffer : Seq(1 .. MaxChars)]]
        /\ transcript'[t0].buffer = buffer
        /\ \A t \in Transcripts : /\ transcript'[t].writer = transcript[t].writer
                                  /\ t # t0 => transcript'[t] = transcript[t]
    <3>1. transcript[t0] \in [writer : Sinks \cup {None}, buffer : Seq(1 .. MaxChars)]
      BY DEF FilesSound
    <3>2. transcript' = [transcript EXCEPT ![t0] = [@ EXCEPT !.buffer = buffer]]
      BY <2>2
    <3>3. /\ DOMAIN transcript = Transcripts
          /\ transcript'[t0] = [transcript[t0] EXCEPT !.buffer = buffer]
          /\ \A t \in Transcripts : t # t0 => transcript'[t] = transcript[t]
      BY <3>2 DEF FilesSound
    <3>4. /\ transcript'[t0] \in [writer : Sinks \cup {None}, buffer : Seq(1 .. MaxChars)]
          /\ transcript'[t0].writer = transcript[t0].writer /\ transcript'[t0].buffer = buffer
      BY <2>1, <3>1, <3>3
    <3> QED
      BY <3>2, <3>3, <3>4 DEF FilesSound
  <2>4. /\ pushed' \in [Transcripts -> 0 .. MaxChars] /\ pushed'[t0] = n
        /\ \A t \in Transcripts : t # t0 => pushed'[t] = pushed[t]
    BY <2>1, <2>2 DEF FilesSound
  <2> QED
    BY <2>3, <2>4 DEF buffer, n
<1>4. UnusedAreEmpty'
  BY <1>3 DEF FilesSound, UnusedAreEmpty, Unused
<1>5. MarkersAnnounce'
  BY DEF FilesSound, MarkersAnnounce
<1>6. ConsoleKept'
  <2> SUFFICES ASSUME NEW t \in Transcripts, transcript[t].writer # None
               PROVE  InOrder(t, Append(file[transcript[t].writer], Text("console", t)'), pushed'[t])
    BY <1>3 DEF ConsoleKept, Received
  <2>1. InOrder(t, Append(file[transcript[t].writer], Text("console", t)), pushed[t])
    BY DEF FilesSound, ConsoleKept, Received
  <2>2. CASE t # t0
    <3>1. Text("console", t)' = Text("console", t) /\ pushed'[t] = pushed[t]
      BY <1>3, <2>2 DEF Text
    <3> QED
      BY <2>1, <3>1
  <2>3. CASE t = t0
    <3>1. /\ Text("console", t)' \in Entry /\ OfConsole(t, Text("console", t)')
          /\ Text("console", t)'.text = Append(transcript[t].buffer, pushed[t] + 1)
      BY <1>2, <1>3, <2>3 DEF Text, Entry, OfConsole
    <3>2. /\ Text("console", t) \in Entry /\ OfConsole(t, Text("console", t))
          /\ Text("console", t).text = transcript[t].buffer
      BY TextFacts DEF OfConsole
    <3>3. transcript[t].buffer \in Seq(Int)
      <4>1. 1 .. MaxChars \subseteq Int
        OBVIOUS
      <4> QED
        BY <1>1, <2>3, <4>1, SeqMonotonic
    <3>4. file[transcript[t].writer] \in Seq(Entry)
      BY DEF FilesSound
    <3>5. InOrder(t, Append(file[transcript[t].writer], Text("console", t)'), pushed[t] + 1)
      BY <1>1, <2>1, <2>3, <3>1, <3>2, <3>3, <3>4, LastLineGrows
    <3> QED
      BY <1>3, <2>3, <3>5
  <2> QED
    BY <2>2, <2>3
<1> QED
  BY <1>3, <1>4, <1>5, <1>6 DEF FilesSound

\* A file that is opened for an unused transcript has nothing of it.
LEMMA OpenKeepsFiles ==
  ASSUME FilesSound, NEW t0 \in Unused, NEW s \in Sinks,
         transcript' = [transcript EXCEPT ![t0].writer = s], UNCHANGED <<file, pushed>>
  PROVE  FilesSound'
<1>1. t0 \in Transcripts /\ transcript[t0].buffer = <<>> /\ pushed[t0] = 0
      /\ \A i \in DOMAIN file[s] : ~OfConsole(t0, file[s][i])
  BY DEF FilesSound, UnusedAreEmpty, Unused
<1>2. /\ transcript' \in [Transcripts -> [writer : Sinks \cup {None}, buffer : Seq(1 .. MaxChars)]]
      /\ transcript'[t0].writer = s
      /\ \A t \in Transcripts : /\ transcript'[t].buffer = transcript[t].buffer
                                /\ t # t0 => transcript'[t] = transcript[t]
  BY <1>1 DEF FilesSound
<1>3. UnusedAreEmpty'
  <2>1. s # None
    BY LoggingAssumption DEF Locks
  <2> QED
    BY <1>1, <1>2, <2>1 DEF FilesSound, UnusedAreEmpty, Unused
<1>4. MarkersAnnounce'
  BY DEF FilesSound, MarkersAnnounce
<1>5. ConsoleKept'
  <2> SUFFICES ASSUME NEW t \in Transcripts, transcript'[t].writer # None
               PROVE  InOrder(t, Append(file[transcript'[t].writer], Text("console", t)), pushed[t])
    BY <1>2 DEF ConsoleKept, Received, Text
  <2>1. CASE t # t0
    BY <1>2, <2>1 DEF FilesSound, ConsoleKept, Received
  <2>2. CASE t = t0
    <3> DEFINE last == Text("console", t0)
               new == Append(file[s], last)
    <3>1. last \in Entry /\ last.text = <<>>
      BY <1>1, TextFacts
    <3>2. file[s] \in Seq(Entry)
      BY DEF FilesSound
    <3> HIDE DEF last
    <3>3. \A i \in DOMAIN new : OfConsole(t0, new[i]) => new[i].text = <<>>
      BY <1>1, <3>1, <3>2, AppendFacts
    <3> HIDE DEF new
    <3>4. InOrder(t0, new, 0)
      BY <3>3 DEF InOrder
    <3> QED
      BY <1>1, <1>2, <2>2, <3>4 DEF new, last
  <2> QED
    BY <2>1, <2>2
<1> QED
  BY <1>2, <1>3, <1>4, <1>5 DEF FilesSound

-----------------------------------------------------------------------------
(***************************************************************************)
(* Locks.                                                                  *)
(***************************************************************************)
\* A transcript that has a file keeps it.
WritersStay ==
  \A t \in Transcripts : transcript[t].writer # None => transcript'[t].writer = transcript[t].writer

\* A step that takes and gives back no mutex.
LEMMA LocksFrame ==
  ASSUME LocksSound, UNCHANGED <<owner, doing, pushed>>, WritersStay
  PROVE  LocksSound'
<1>1. ASSUME NEW th \in Writers PROVE Ordered(th)' /\ InHand(th)'
  BY DEF LocksSound, Ordered, InHand, MayPush, Held, Needed, WritersStay
<1> QED
  BY <1>1 DEF LocksSound

\* A call that ends gives its mutexes back.
LEMMA ReturnKeeps ==
  ASSUME LocksSound, NEW th \in Writers, Return(th), WritersStay, th # Cli => UNCHANGED pushed
  PROVE  LocksSound' /\ doing'[th] = None /\ \A other \in Writers \ {th} : doing'[other] = doing[other]
<1>1. /\ doing' \in [Writers -> Calls \cup {None}] /\ doing'[th] = None
      /\ \A other \in Writers \ {th} : doing'[other] = doing[other]
  BY DEF LocksSound, Return
<1>2. /\ owner' \in [Locks -> Writers \cup {None}]
      /\ \A l \in Locks : owner'[l] # None => owner'[l] = owner[l] /\ owner[l] # th
  BY DEF LocksSound, Return, Released
<1>3. ASSUME NEW other \in Writers, other # th PROVE Held(other)' = Held(other)
  BY <1>3, LoggingAssumption DEF LocksSound, Return, Released, Held
<1>4. ASSUME NEW other \in Writers PROVE Ordered(other)' /\ InHand(other)'
  <2>1. CASE other = th
    BY <1>1, <2>1 DEF Ordered, InHand, MayPush
  <2>2. CASE other # th
    <3>1. Held(other)' = Held(other) /\ Needed(other)' = Needed(other) /\ doing'[other] = doing[other]
      BY <1>1, <1>3, <2>2 DEF Needed
    <3>2. other = Cli => UNCHANGED pushed
      BY <2>2 DEF Writers
    <3> QED
      BY <3>1, <3>2 DEF LocksSound, Ordered, InHand, MayPush, WritersStay
  <2> QED
    BY <2>1, <2>2
<1>5. \A l \in Locks : owner'[l] # None => doing'[owner'[l]] # None
  BY <1>1, <1>2 DEF LocksSound
<1> QED
  BY <1>1, <1>2, <1>4, <1>5 DEF LocksSound

\* The locks of a call that starts are in order and about one file.
Plan(th, op, need) ==
  /\ [op |-> op, need |-> need] \in Calls
  /\ \A i, j \in DOMAIN need : i < j => Rank(need[i]) < Rank(need[j])
  /\ \A i \in DOMAIN need : need[i] \in Transcripts =>
       /\ transcript[need[i]].writer # None
       /\ \A j \in DOMAIN need : need[j] \in Sinks => need[j] = transcript[need[i]].writer
       /\ MayPush(th, op, need[i])

\* A call starts without a mutex.
LEMMA StartKeeps ==
  ASSUME LocksSound, NEW th \in Writers, NEW op, NEW need, Plan(th, op, need), Start(th, op, need)
  PROVE  LocksSound' /\ doing' = [doing EXCEPT ![th] = [op |-> op, need |-> need]]
<1> DEFINE new == [op |-> op, need |-> need]
<1>1. /\ new \in Calls /\ new # None /\ new.op = op /\ new.need = need
      /\ doing' = [doing EXCEPT ![th] = new] /\ doing[th] = None
      /\ UNCHANGED <<owner, transcript, pushed>>
  BY LoggingAssumption DEF Plan, Start, Free
<1> HIDE DEF new
<1>2. /\ doing' \in [Writers -> Calls \cup {None}] /\ doing'[th] = new
      /\ \A other \in Writers \ {th} : doing'[other] = doing[other]
  BY <1>1 DEF LocksSound
<1>3. Held(th) = {}
  BY <1>1, LoggingAssumption DEF LocksSound, Held
<1>4. ASSUME NEW other \in Writers PROVE Ordered(other)' /\ InHand(other)'
  <2>1. CASE other = th
    <3>1. Held(th)' = {} /\ Needed(th)' = {need[i] : i \in DOMAIN need}
      BY <1>1, <1>2, <1>3 DEF Held, Needed
    <3> QED
      BY <1>1, <1>2, <2>1, <3>1 DEF Plan, Ordered, InHand, MayPush
  <2>2. CASE other # th
    BY <1>1, <1>2, <2>2 DEF LocksSound, Ordered, InHand, MayPush, Held, Needed
  <2> QED
    BY <2>1, <2>2
<1>5. \A l \in Locks : owner'[l] # None => doing'[owner'[l]] # None
  BY <1>1, <1>2 DEF LocksSound
<1> QED
  BY <1>1, <1>2, <1>4, <1>5 DEF LocksSound, new

\* A mutex that is taken was the first of those that were needed.
LEMMA AcquireKeeps ==
  ASSUME LocksSound, NEW th \in Writers, Acquire(th)
  PROVE  /\ LocksSound'
         /\ \A other \in Writers : /\ doing'[other] # None <=> doing[other] # None
                                   /\ doing[other] # None => doing'[other].op = doing[other].op
<1> DEFINE need == doing[th].need
           l == Head(need)
<1>1. /\ doing[th] \in Calls /\ need \in Seq(Locks) /\ need # <<>>
      /\ UNCHANGED <<transcript, pushed>> /\ owner[l] = None
      /\ owner' = [owner EXCEPT ![l] = th]
      /\ doing' = [doing EXCEPT ![th].need = Tail(@)]
  BY DEF LocksSound, Acquire, Calls
<1>2. /\ l \in Locks /\ Tail(need) \in Seq(Locks) /\ Len(need) \in Nat /\ l = need[1]
      /\ DOMAIN need = 1 .. Len(need) /\ 1 \in DOMAIN need
      /\ DOMAIN Tail(need) = 1 .. Len(need) - 1
      /\ \A i \in DOMAIN Tail(need) : Tail(need)[i] = need[i + 1] /\ i + 1 \in DOMAIN need
  <2>1. l \in Locks /\ Tail(need) \in Seq(Locks) /\ Len(Tail(need)) = Len(need) - 1
        /\ \A i \in 1 .. Len(Tail(need)) : Tail(need)[i] = need[i + 1]
    BY <1>1, HeadTailProperties
  <2>2. Len(need) \in Nat \ {0} /\ DOMAIN need = 1 .. Len(need)
        /\ DOMAIN Tail(need) = 1 .. Len(Tail(need)) /\ l = need[1]
    BY <1>1, <2>1, LenProperties, EmptySeq
  <2> QED
    BY <2>1, <2>2
<1>3. /\ doing'[th] = [doing[th] EXCEPT !.need = Tail(need)] /\ doing'[th] \in Calls
      /\ doing'[th].need = Tail(need) /\ doing'[th].op = doing[th].op
      /\ doing' \in [Writers -> Calls \cup {None}]
      /\ \A other \in Writers \ {th} : doing'[other] = doing[other]
  BY <1>1, <1>2 DEF LocksSound, Calls
<1>4. doing'[th] # None /\ doing[th] # None
  BY <1>1, <1>3, LoggingAssumption
<1> HIDE DEF need
<1>5. /\ owner' \in [Locks -> Writers \cup {None}]
      /\ Held(th)' = Held(th) \cup {l}
      /\ \A other \in Writers \ {th} : Held(other)' = Held(other)
  BY <1>1, <1>2, LoggingAssumption DEF LocksSound, Held
<1>6. ASSUME NEW other \in Writers PROVE Ordered(other)' /\ InHand(other)'
  <2>1. CASE other # th
    BY <1>1, <1>3, <1>5, <2>1 DEF LocksSound, Ordered, InHand, MayPush, Needed
  <2>2. CASE other = th
    <3>1. /\ \A i, j \in DOMAIN need : i < j => Rank(need[i]) < Rank(need[j])
          /\ \A k \in Held(th), i \in DOMAIN need : Rank(k) < Rank(need[i])
      BY <1>4 DEF LocksSound, Ordered, Needed, need
    <3>2. \A k \in Needed(th)' : \E i \in DOMAIN need : i > 1 /\ k = need[i]
      BY <1>2, <1>3 DEF Needed
    <3>3. \A k \in Held(th)', m \in Needed(th)' : Rank(k) < Rank(m)
      BY <1>2, <1>5, <3>1, <3>2
    <3>4. \A i, j \in DOMAIN Tail(need) : i < j => Rank(Tail(need)[i]) < Rank(Tail(need)[j])
      BY <1>2, <3>1
    <3>5. Held(th)' \cup Needed(th)' \subseteq Held(th) \cup Needed(th)
      BY <1>2, <1>5, <3>2 DEF Needed, need
    <3>6. Ordered(th)'
      BY <1>3, <3>3, <3>4 DEF Ordered
    <3>7. InHand(th)'
      BY <1>1, <1>3, <1>4, <3>5 DEF LocksSound, InHand, MayPush
    <3> QED
      BY <2>2, <3>6, <3>7
  <2> QED
    BY <2>1, <2>2
<1>7. \A k \in Locks : owner'[k] # None => doing'[owner'[k]] # None
  BY <1>1, <1>3, <1>4, <1>5 DEF LocksSound
<1> QED
  BY <1>3, <1>4, <1>5, <1>6, <1>7 DEF LocksSound
-----------------------------------------------------------------------------
(***************************************************************************)
(* The steps.                                                              *)
(***************************************************************************)

\* At first nothing is open.
LEMMA LoggingInitHolds == LoggingInit => LoggingInvariant
<1> SUFFICES ASSUME LoggingInit PROVE LoggingInvariant
  OBVIOUS
<1>1. /\ \A S : <<>> \in Seq(S) /\ DOMAIN <<>> = {}
      /\ 0 \in 0 .. MaxChars /\ Cli \in Writers
  BY EmptySeq, LoggingAssumption DEF Writers
<1>2. LocksSound
  BY LoggingAssumption DEF LoggingInit, LocksSound, Ordered, InHand
<1>3. SessionsSound
  BY <1>1 DEF LoggingInit, SessionsSound
<1>4. FilesSound
  <2>1. /\ file \in [Sinks -> Seq(Entry)] /\ pushed \in [Transcripts -> 0 .. MaxChars]
        /\ transcript \in [Transcripts -> [writer : Sinks \cup {None}, buffer : Seq(1 .. MaxChars)]]
    BY <1>1 DEF LoggingInit
  <2>2. /\ \A s \in Sinks : file[s] = <<>> /\ DOMAIN file[s] = {}
        /\ \A t \in Transcripts : transcript[t].buffer = <<>> /\ transcript[t].writer = None
        /\ \A t \in Transcripts : pushed[t] = 0
    BY <1>1 DEF LoggingInit
  <2>3. UnusedAreEmpty
    BY <2>2 DEF UnusedAreEmpty, Unused
  <2>4. ConsoleKept /\ MarkersAnnounce
    BY <2>2 DEF ConsoleKept, MarkersAnnounce
  <2> QED
    BY <2>1, <2>3, <2>4 DEF FilesSound
<1> QED
  BY <1>2, <1>3, <1>4 DEF LoggingInvariant

\* The three kinds of mutex have their ranks.
LEMMA RankFacts ==
  /\ \A d \in Sessions : Rank(d) = 0 /\ d \notin Transcripts /\ d \notin Sinks
  /\ \A t \in Transcripts : Rank(t) = 1 /\ t \notin Sinks
  /\ \A s \in Sinks : Rank(s) = 2 /\ s \notin Transcripts
  BY LoggingAssumption DEF Rank

\* A session's mutex, then those of what it writes to.
LEMMA OneAndMore ==
  ASSUME NEW S, NEW d \in S, NEW s \in S, NEW t \in S
  PROVE  <<d>> \o <<s>> = <<d, s>> /\ <<d>> \o <<s, t>> = <<d, s, t>>
<1>1. /\ <<d>> \in Seq(S) /\ <<s>> \in Seq(S)
      /\ <<d, s>> \in Seq(S) /\ <<s, t>> \in Seq(S) /\ <<d, s, t>> \in Seq(S)
  OBVIOUS
<1>2. Len(<<d>>) = 1 /\ Len(<<s>>) = 1 /\ Len(<<d, s>>) = 2 /\ Len(<<s, t>>) = 2 /\ Len(<<d, s, t>>) = 3
  OBVIOUS
<1> DEFINE two == <<d>> \o <<s>>
           three == <<d>> \o <<s, t>>
<1>3. two \in Seq(S) /\ Len(two) = 2 /\ \A i \in 1 .. 2 : two[i] = <<d, s>>[i]
  <2>1. two \in Seq(S) /\ Len(two) = 2
    BY <1>1, <1>2, ConcatProperties
  <2>2. \A i \in 1 .. 2 : two[i] = IF i <= 1 THEN <<d>>[i] ELSE <<s>>[i - 1]
    BY <1>1, <1>2, ConcatProperties
  <2> QED
    BY <2>1, <2>2
<1>4. three \in Seq(S) /\ Len(three) = 3 /\ \A i \in 1 .. 3 : three[i] = <<d, s, t>>[i]
  <2>1. three \in Seq(S) /\ Len(three) = 3
    BY <1>1, <1>2, ConcatProperties
  <2>2. \A i \in 1 .. 3 : three[i] = IF i <= 1 THEN <<d>>[i] ELSE <<s, t>>[i - 1]
    BY <1>1, <1>2, ConcatProperties
  <2> QED
    BY <2>1, <2>2
<1> HIDE DEF two, three
<1>5. two = <<d, s>>
  BY <1>1, <1>2, <1>3, SeqEqual
<1>6. three = <<d, s, t>>
  BY <1>1, <1>2, <1>4, SeqEqual
<1> QED
  BY <1>5, <1>6 DEF two, three

\* What one and two elements are as sequences.
LEMMA TupleFacts ==
  ASSUME NEW S, NEW a \in S, NEW b \in S
  PROVE  /\ <<a>> \in Seq(S) /\ DOMAIN <<a>> = {1} /\ <<a>>[1] = a
         /\ <<a, b>> \in Seq(S) /\ DOMAIN <<a, b>> = {1, 2} /\ <<a, b>>[1] = a /\ <<a, b>>[2] = b
         /\ \A i, j \in {1, 2} : i < j => i = 1 /\ j = 2
<1>1. <<a>> \in Seq(S) /\ <<a, b>> \in Seq(S)
  OBVIOUS
<1>2. DOMAIN <<a>> = {1} /\ DOMAIN <<a, b>> = {1, 2}
  OBVIOUS
<1>3. \A i, j \in {1, 2} : i < j => i = 1 /\ j = 2
  OBVIOUS
<1> QED
  BY <1>1, <1>2, <1>3

\* What a write to a transcript needs.
LEMMA PairFacts ==
  ASSUME NEW t \in Locks, NEW s \in Locks
  PROVE  /\ <<t>> \in Seq(Locks) /\ DOMAIN <<t>> = {1} /\ <<t>>[1] = t
         /\ <<t, s>> \in Seq(Locks) /\ DOMAIN <<t, s>> = {1, 2} /\ <<t, s>>[1] = t /\ <<t, s>>[2] = s
<1>1. <<t>> \in Seq(Locks) /\ DOMAIN <<t>> = {1} /\ <<t>>[1] = t
  OBVIOUS
<1>2. <<t, s>> \in Seq(Locks) /\ DOMAIN <<t, s>> = {1, 2} /\ <<t, s>>[1] = t /\ <<t, s>>[2] = s
  BY TupleFacts
<1> QED
  BY <1>1, <1>2

\* A call on one transcript takes the transcript's lock alone, or the file's after it.
LEMMA PairPlan ==
  ASSUME NEW th \in Writers, NEW t \in Transcripts, NEW s \in Sinks,
         NEW op \in {"line", "part", "char", "newline", "flush", "share log"}
  PROVE  s = transcript[t].writer /\ s # None /\ MayPush(th, op, t)
         => Plan(th, op, <<t>>) /\ Plan(th, op, <<t, s>>)
<1>1. t \in Locks /\ s \in Locks
  BY DEF Locks
<1> DEFINE one == <<t>>
           two == <<t, s>>
<1>2. one \in Seq(Locks) /\ DOMAIN one = {1} /\ one[1] = t
  BY <1>1, PairFacts, Zenon
<1>3. two \in Seq(Locks) /\ DOMAIN two = {1, 2} /\ two[1] = t /\ two[2] = s
  BY <1>1, PairFacts, Zenon
<1>4. \A i, j \in {1, 2} : i < j => i = 1 /\ j = 2
  BY <1>1, TupleFacts, Zenon
<1>5. Rank(t) = 1 /\ Rank(s) = 2 /\ t \notin Sinks /\ s \notin Transcripts
  BY RankFacts
<1> HIDE DEF one, two
<1> SUFFICES ASSUME s = transcript[t].writer, s # None, MayPush(th, op, t)
             PROVE  Plan(th, op, one) /\ Plan(th, op, two)
  BY DEF one, two
<1>6. [op |-> op, need |-> one] \in Calls /\ [op |-> op, need |-> two] \in Calls
  BY <1>2, <1>3 DEF Calls
<1>7. Plan(th, op, one)
  BY <1>2, <1>5, <1>6 DEF Plan
<1>8. Plan(th, op, two)
  BY <1>3, <1>4, <1>5, <1>6 DEF Plan
<1> QED
  BY <1>7, <1>8

\* What a call on a transcript needs is in order.
LEMMA TranscriptPlan ==
  ASSUME FilesSound, NEW th \in Writers, NEW t \in Transcripts, transcript[t].writer # None,
         NEW op \in {"line", "part", "char", "newline", "flush", "share log"}, MayPush(th, op, t)
  PROVE  Plan(th, op, <<t>>) /\ Plan(th, op, ViaTranscript(t))
<1>1. transcript[t].writer \in Sinks
  BY DEF FilesSound
<1> QED
  BY <1>1, PairPlan DEF ViaTranscript

\* What a record needs, and what the commands that share a session need.
LEMMA SessionPlan ==
  ASSUME FilesSound, SessionsSound, NEW th \in Writers, NEW d \in Sessions, session[d].sink # None
  PROVE  Plan(th, "record", ViaSession(d)) /\ Plan(th, "share debug", <<d>>)
<1> DEFINE s == session[d].sink
           t == session[d].transcript
<1>1. s \in Sinks /\ t \in Transcripts \cup {None}
  BY DEF SessionsSound
<1>2. t # None => s = transcript[t].writer /\ transcript[t].writer # None
  BY DEF SessionsSound
<1>3. ViaSession(d) = <<d>> \o (IF t = None THEN <<s>> ELSE <<t, s>>)
  BY <1>2 DEF ViaSession, ViaTranscript
<1> HIDE DEF s, t
<1>4. /\ Rank(d) = 0 /\ Rank(s) = 2 /\ d \notin Transcripts /\ d \notin Sinks /\ s \notin Transcripts
      /\ d \in Locks /\ s \in Locks
  BY <1>1, RankFacts DEF Locks
<1>5. Plan(th, "share debug", <<d>>)
  <2>1. <<d>> \in Seq(Locks) /\ DOMAIN <<d>> = {1} /\ <<d>>[1] = d
    BY <1>4
  <2> QED
    BY <1>4, <2>1 DEF Plan, MayPush, Calls
<1>6. CASE t = None
  <2>1. /\ <<d, s>> \in Seq(Locks) /\ DOMAIN <<d, s>> = {1, 2}
        /\ <<d, s>>[1] = d /\ <<d, s>>[2] = s
    BY <1>4, TupleFacts
  <2>2. \A i, j \in {1, 2} : i < j => i = 1 /\ j = 2
    BY <1>4, TupleFacts
  <2>3. ViaSession(d) = <<d, s>>
    BY <1>3, <1>4, <1>6, OneAndMore
  <2> QED
    BY <1>4, <1>5, <2>1, <2>2, <2>3 DEF Plan, MayPush, Calls
<1>7. CASE t # None
  <2>1. t \in Transcripts /\ Rank(t) = 1 /\ t \notin Sinks /\ t \in Locks
    BY <1>1, <1>7, RankFacts DEF Locks
  <2>2. /\ <<d, t, s>> \in Seq(Locks) /\ DOMAIN <<d, t, s>> = {1, 2, 3}
        /\ <<d, t, s>>[1] = d /\ <<d, t, s>>[2] = t /\ <<d, t, s>>[3] = s
    BY <1>4, <2>1
  <2>3. \A i, j \in {1, 2, 3} : i < j => (i = 1 /\ j \in {2, 3}) \/ (i = 2 /\ j = 3)
    OBVIOUS
  <2>4. [op |-> "record", need |-> <<d, t, s>>] \in Calls
    BY <2>2 DEF Calls
  <2>5. \A i, j \in {1, 2, 3} : i < j => Rank(<<d, t, s>>[i]) < Rank(<<d, t, s>>[j])
    BY <1>4, <2>1, <2>2, <2>3
  <2>6. ViaSession(d) = <<d, t, s>>
    BY <1>3, <1>4, <1>7, <2>1, OneAndMore
  <2>7. \A i \in {1, 2, 3} : <<d, t, s>>[i] \in Transcripts => <<d, t, s>>[i] = t
    BY <1>4, <2>1, <2>2
  <2>8. \A i \in {1, 2, 3} : <<d, t, s>>[i] \in Sinks => <<d, t, s>>[i] = s
    BY <1>4, <2>1, <2>2
  <2> DEFINE need == <<d, t, s>>
  <2>9. DOMAIN need = {1, 2, 3}
    BY <2>2
  <2> HIDE DEF need
  <2>10. Plan(th, "record", need)
    BY <1>2, <1>7, <2>4, <2>5, <2>7, <2>8, <2>9 DEF Plan, MayPush, need
  <2> QED
    BY <1>5, <2>6, <2>10 DEF need
<1> QED
  BY <1>6, <1>7

\* The sessions stay sound as long as no call depends on one that is gone.
LEMMA SessionsFrame ==
  ASSUME SessionsSound, FilesSound, UNCHANGED <<session, cliLog, cliDebug, simDebug>>, WritersStay,
         doing'[Cli] # None =>
           /\ doing'[Cli].op = "share log" => cliLog # None
           /\ doing'[Cli].op = "share debug" => cliDebug # None
  PROVE  SessionsSound'
  BY DEF SessionsSound, WritersStay

\* A call that only starts.
LEMMA StartStep ==
  ASSUME LoggingInvariant, NEW th \in Writers, NEW op, NEW need, Plan(th, op, need),
         Start(th, op, need),
         op = "share log" => cliLog # None, op = "share debug" => cliDebug # None
  PROVE  LoggingInvariant'
<1>1. LocksSound' /\ doing' = [doing EXCEPT ![th] = [op |-> op, need |-> need]]
  BY StartKeeps DEF LoggingInvariant
<1>2. UNCHANGED <<file, transcript, session, cliLog, cliDebug, simDebug, pushed>> /\ WritersStay
  BY DEF Start, WritersStay
<1>3. FilesSound'
  BY <1>2 DEF LoggingInvariant, FilesSound, UnusedAreEmpty, Unused, ConsoleKept, Received, Text,
              MarkersAnnounce
<1>4. Cli \in Writers
  BY DEF Writers
<1>5. doing'[Cli] # None =>
        /\ doing'[Cli].op = "share log" => cliLog # None
        /\ doing'[Cli].op = "share debug" => cliDebug # None
  <2>1. CASE th = Cli
    BY <1>1, <1>4, <2>1 DEF LoggingInvariant, LocksSound
  <2>2. CASE th # Cli
    BY <1>1, <1>4, <2>2 DEF LoggingInvariant, LocksSound, SessionsSound
  <2> QED
    BY <2>1, <2>2
<1>6. SessionsSound'
  BY <1>2, <1>5, SessionsFrame DEF LoggingInvariant
<1> QED
  BY <1>1, <1>3, <1>6 DEF LoggingInvariant

\* A call that writes and returns.
LEMMA WriteStep ==
  ASSUME LoggingInvariant, NEW th \in Writers, Return(th),
         UNCHANGED <<session, cliLog, cliDebug, simDebug>>, WritersStay,
         th # Cli => UNCHANGED pushed, FilesSound'
  PROVE  LoggingInvariant'
<1>1. LocksSound' /\ doing'[th] = None /\ \A other \in Writers \ {th} : doing'[other] = doing[other]
  BY ReturnKeeps DEF LoggingInvariant
<1>2. Cli \in Writers
  BY DEF Writers
<1>3. SessionsSound'
  BY <1>1, <1>2, SessionsFrame DEF LoggingInvariant, SessionsSound
<1> QED
  BY <1>1, <1>3 DEF LoggingInvariant

\* What a call holds when it has all its mutexes.
LEMMA HeldWhenReady ==
  ASSUME LoggingInvariant, NEW th \in Writers, NEW op, Ready(th, op),
         NEW t \in Transcripts \cap Held(th)
  PROVE  /\ transcript[t].writer # None
         /\ \A s \in Sinks \cap Held(th) : s = transcript[t].writer
         /\ op \in {"char", "newline"} => th = Cli /\ pushed[t] < MaxChars
  BY DEF LoggingInvariant, LocksSound, InHand, MayPush, Ready

\* A line or a piece of one goes straight to the file.
LEMMA WritesKeep ==
  ASSUME LoggingInvariant, NEW th \in Writers, Write(th)
  PROVE  LoggingInvariant'
<1>1. PICK op \in {"line", "part"} :
        \E s \in Sinks : file' = [file EXCEPT ![s] = Append(@, Plain(op))]
  BY DEF Write
<1>2. UNCHANGED <<transcript, pushed, session, cliLog, cliDebug, simDebug>> /\ Return(th) /\ WritersStay
  BY DEF Write, WritersStay
<1>3. Plain(op) \in Entry /\ Plain(op).kind = op
  BY PlainFacts
<1>4. FilesSound'
  BY <1>1, <1>2, <1>3, EntriesKeep DEF LoggingInvariant
<1> QED
  BY <1>2, <1>4, WriteStep

\* A character of the console goes to the line buffer.
LEMMA PushesCharKeep ==
  ASSUME LoggingInvariant, NEW th \in Writers, PushChar(th)
  PROVE  LoggingInvariant'
<1>1. PICK t \in Transcripts \cap Held(th) :
        /\ transcript' = [transcript EXCEPT ![t].buffer = Append(@, pushed[t] + 1)]
        /\ pushed' = [pushed EXCEPT ![t] = @ + 1]
  BY DEF PushChar
<1>2. UNCHANGED <<file, session, cliLog, cliDebug, simDebug>> /\ Return(th) /\ Ready(th, "char")
  BY DEF PushChar
<1>3. transcript[t].writer # None /\ th = Cli /\ pushed[t] < MaxChars
  BY <1>2, HeldWhenReady
<1>4. WritersStay
  BY <1>1 DEF WritersStay, LoggingInvariant, FilesSound
<1>5. FilesSound'
  BY <1>1, <1>2, <1>3, CharactersKeep DEF LoggingInvariant
<1> QED
  BY <1>2, <1>3, <1>4, <1>5, WriteStep

\* A newline of the console ends the line buffer's line.
LEMMA PushesNewlineKeep ==
  ASSUME LoggingInvariant, NEW th \in Writers, PushNewline(th)
  PROVE  LoggingInvariant'
<1>1. PICK t \in Transcripts \cap Held(th), s \in Sinks \cap Held(th) :
        LET line == [Text("console", t) EXCEPT !.text = Append(@, pushed[t] + 1)] IN
        /\ file' = [file EXCEPT ![s] = Append(@, line)]
        /\ transcript' = [transcript EXCEPT ![t].buffer = <<>>]
        /\ pushed' = [pushed EXCEPT ![t] = @ + 1]
  BY DEF PushNewline
<1>2. UNCHANGED <<session, cliLog, cliDebug, simDebug>> /\ Return(th) /\ Ready(th, "newline")
  BY DEF PushNewline
<1>3. transcript[t].writer # None /\ s = transcript[t].writer /\ th = Cli /\ pushed[t] < MaxChars
  BY <1>2, HeldWhenReady
<1>4. WritersStay
  BY <1>1 DEF WritersStay, LoggingInvariant, FilesSound
<1> DEFINE last == Text("console", t)
           n == pushed[t] + 1
           text == Append(transcript[t].buffer, n)
           line == [kind |-> "console", by |-> t, text |-> text]
<1>5. /\ last \in Entry /\ last.kind = "console" /\ last.by = t /\ last.text = transcript[t].buffer
      /\ pushed[t] \in Nat /\ n \in 1 .. MaxChars
  BY <1>3, TextFacts, LoggingAssumption DEF LoggingInvariant, FilesSound
<1>6. text \in Seq(1 .. MaxChars) /\ transcript[t].buffer \in Seq(1 .. MaxChars)
  BY <1>5, AppendFacts DEF LoggingInvariant, FilesSound
<1>7. [last EXCEPT !.text = Append(@, n)] = line
  BY DEF Text
<1>8. /\ file' = [file EXCEPT ![s] = Append(@, line)]
      /\ transcript' = [transcript EXCEPT ![t].buffer = <<>>]
      /\ pushed' = [pushed EXCEPT ![t] = n]
  BY <1>1, <1>7
<1>9. InOrder(t, Append(file[s], last), pushed[t]) /\ file[s] \in Seq(Entry)
  BY <1>3 DEF LoggingInvariant, FilesSound, ConsoleKept, Received
<1>10. transcript[t].buffer \in Seq(Int)
  <2>1. 1 .. MaxChars \subseteq Int
    OBVIOUS
  <2> QED
    BY <1>6, <2>1, SeqMonotonic
<1> HIDE DEF last, text
<1>11. line \in Entry /\ OfConsole(t, line) /\ line.text = Append(last.text, pushed[t] + 1)
  BY <1>5, <1>6 DEF Entry, OfConsole, text
<1> HIDE DEF line
<1>12. OfConsole(t, last)
  BY <1>5 DEF OfConsole
<1>13. InOrder(t, Append(file[s], line), n)
  BY <1>5, <1>9, <1>10, <1>11, <1>12, LastLineGrows
<1> HIDE DEF n
<1>14. n \in 0 .. MaxChars
  BY <1>5
<1>15. FilesSound'
  BY <1>3, <1>8, <1>11, <1>13, <1>14, LinesKeep DEF LoggingInvariant
<1> QED
  BY <1>2, <1>3, <1>4, <1>15, WriteStep

\* A flush writes an unfinished line and empties the buffer.
LEMMA FlushesKeep ==
  ASSUME LoggingInvariant, NEW th \in Writers, Flush(th)
  PROVE  LoggingInvariant'
<1>1. PICK t \in Transcripts \cap Held(th), s \in Sinks \cap Held(th) :
        IF transcript[t].buffer = <<>> THEN UNCHANGED <<file, transcript>>
        ELSE /\ file' = [file EXCEPT ![s] = Append(@, Text("console", t))]
             /\ transcript' = [transcript EXCEPT ![t].buffer = <<>>]
  BY DEF Flush
<1>2. UNCHANGED <<session, cliLog, cliDebug, simDebug, pushed>> /\ Return(th) /\ Ready(th, "flush")
  BY DEF Flush
<1>3. transcript[t].writer # None /\ s = transcript[t].writer
  BY <1>2, HeldWhenReady
<1>4. WritersStay
  <2>1. transcript' = transcript \/ transcript' = [transcript EXCEPT ![t].buffer = <<>>]
    BY <1>1
  <2> QED
    BY <2>1 DEF WritersStay, LoggingInvariant, FilesSound
<1>5. CASE UNCHANGED <<file, transcript>>
  BY <1>2, <1>4, <1>5, WriteStep
     DEF LoggingInvariant, FilesSound, UnusedAreEmpty, Unused, ConsoleKept, Received, Text, MarkersAnnounce
<1>6. CASE /\ file' = [file EXCEPT ![s] = Append(@, Text("console", t))]
           /\ transcript' = [transcript EXCEPT ![t].buffer = <<>>]
  <2>1. Text("console", t) \in Entry /\ OfConsole(t, Text("console", t))
    BY TextFacts DEF LoggingInvariant, OfConsole
  <2>2. InOrder(t, Append(file[s], Text("console", t)), pushed[t])
    BY <1>3 DEF LoggingInvariant, FilesSound, ConsoleKept, Received
  <2>3. pushed[t] \in 0 .. MaxChars /\ pushed' = [pushed EXCEPT ![t] = pushed[t]]
    BY <1>2 DEF LoggingInvariant, FilesSound
  <2>4. FilesSound'
    BY <1>3, <1>6, <2>1, <2>2, <2>3, LinesKeep DEF LoggingInvariant
  <2> QED
    BY <1>2, <1>4, <2>4, WriteStep
<1> QED
  BY <1>1, <1>5, <1>6

\* A record goes to the file, with or without the copy before it.
LEMMA RecordStepKeeps ==
  ASSUME LoggingInvariant, NEW th \in Writers, Record(th)
  PROVE  LoggingInvariant'
<1>1. PICK s \in Sinks \cap Held(th) :
        LET ts == {t \in Transcripts \cap Held(th) : transcript[t].buffer # <<>>} IN
        file' = [file EXCEPT ![s] =
          IF ts = {} THEN Append(@, Plain("record"))
          ELSE @ \o <<Text("cut", CHOOSE t \in ts : TRUE), Plain("marker"), Plain("record")>>]
  BY DEF Record
<1>2. UNCHANGED <<transcript, pushed, session, cliLog, cliDebug, simDebug>> /\ Return(th) /\ WritersStay
  BY DEF Record, WritersStay
<1> DEFINE ts == {t \in Transcripts \cap Held(th) : transcript[t].buffer # <<>>}
<1>3. CASE ts = {}
  <2>1. file' = [file EXCEPT ![s] = Append(@, Plain("record"))]
    BY <1>1, <1>3
  <2>2. Plain("record") \in Entry /\ Plain("record").kind = "record"
    BY PlainFacts
  <2> QED
    BY <1>2, <2>1, <2>2, EntriesKeep, WriteStep DEF LoggingInvariant
<1>4. CASE ts # {}
  <2> DEFINE t == CHOOSE t \in ts : TRUE
  <2>1. t \in Transcripts
    BY <1>4
  <2>2. file' = [file EXCEPT ![s] = @ \o <<Text("cut", t), Plain("marker"), Plain("record")>>]
    BY <1>1, <1>4
  <2> HIDE DEF t, ts
  <2> QED
    BY <1>2, <2>1, <2>2, RecordsKeep, WriteStep DEF LoggingInvariant
<1> QED
  BY <1>3, <1>4

\* A command or a thread starts a call.
LEMMA StartsKeep ==
  ASSUME LoggingInvariant, StartCli \/ StartSim
  PROVE  LoggingInvariant'
<1>1. FilesSound /\ SessionsSound /\ Cli \in Writers /\ Sim \in Writers
  BY DEF LoggingInvariant, Writers
<1>2. cliLog # None => cliLog \in Transcripts /\ transcript[cliLog].writer # None
  BY <1>1 DEF SessionsSound
<1>3. cliDebug # None => cliDebug \in Sessions /\ session[cliDebug].sink # None
  BY <1>1 DEF SessionsSound
<1>4. CASE cliLog # None /\ \E op \in {"line", "part", "flush"} : Start(Cli, op, ViaTranscript(cliLog))
  <2>1. PICK op \in {"line", "part", "flush"} : Start(Cli, op, ViaTranscript(cliLog))
    BY <1>4
  <2>2. Plan(Cli, op, ViaTranscript(cliLog))
    BY <1>1, <1>2, <1>4, TranscriptPlan DEF MayPush
  <2> QED
    BY <1>1, <2>1, <2>2, StartStep
<1>5. CASE cliLog # None /\ pushed[cliLog] < MaxChars /\ Start(Cli, "char", <<cliLog>>)
  BY <1>1, <1>2, <1>5, TranscriptPlan, StartStep DEF MayPush
<1>6. CASE cliLog # None /\ pushed[cliLog] < MaxChars /\ Start(Cli, "newline", ViaTranscript(cliLog))
  BY <1>1, <1>2, <1>6, TranscriptPlan, StartStep DEF MayPush
<1>7. CASE cliDebug # None /\ Start(Cli, "record", ViaSession(cliDebug))
  BY <1>1, <1>3, <1>7, SessionPlan, StartStep
<1>8. CASE StartSim
  <2>1. cliDebug # None /\ Start(Sim, "record", ViaSession(cliDebug))
    BY <1>1, <1>8 DEF StartSim, SessionsSound
  <2> QED
    BY <1>1, <1>3, <2>1, SessionPlan, StartStep
<1> QED
  BY <1>4, <1>5, <1>6, <1>7, <1>8 DEF StartCli

\* A transcript is opened over a file by a command that is not in a call, or at
\* the end of one.
LEMMA OpenLogKeeps ==
  ASSUME LoggingInvariant, NEW s \in Sinks, OpenLog(s),
         UNCHANGED <<file, session, cliDebug, simDebug, pushed>>,
         \/ UNCHANGED <<owner, doing>> /\ doing[Cli] = None
         \/ Return(Cli)
  PROVE  LoggingInvariant'
<1>1. PICK t \in Unused : transcript' = [transcript EXCEPT ![t].writer = s] /\ cliLog' = t
  BY DEF OpenLog
<1>2. t \in Transcripts /\ transcript[t].writer = None /\ s # None /\ t # None /\ Cli \in Writers
  BY LoggingAssumption DEF Unused, Locks, Writers
<1>3. /\ transcript'[t].writer = s
      /\ \A u \in Transcripts : transcript[u].writer # None => transcript'[u] = transcript[u]
  BY <1>1, <1>2 DEF LoggingInvariant, FilesSound
<1>4. WritersStay
  BY <1>3 DEF WritersStay
<1>5. FilesSound'
  BY <1>1, OpenKeepsFiles DEF LoggingInvariant
<1>6. LocksSound' /\ doing'[Cli] = None
  BY <1>2, <1>4, LocksFrame, ReturnKeeps DEF LoggingInvariant
<1>7. SessionsSound'
  <2>1. \A d \in Sessions : session[d].transcript # None =>
          /\ transcript'[session[d].transcript].writer # None
          /\ session[d].sink = transcript'[session[d].transcript].writer
    BY <1>4 DEF LoggingInvariant, SessionsSound, WritersStay
  <2> QED
    BY <1>1, <1>2, <1>3, <1>6, <2>1 DEF LoggingInvariant, SessionsSound
<1> QED
  BY <1>5, <1>6, <1>7 DEF LoggingInvariant

\* A debug session is opened, for a file or for a transcript and its file.
LEMMA OpenDebugKeeps ==
  ASSUME LoggingInvariant, NEW s \in Sinks, NEW t \in Transcripts \cup {None}, OpenDebug(s, t),
         t # None => transcript[t].writer = s,
         UNCHANGED <<file, transcript, cliLog, pushed>>,
         \/ UNCHANGED <<owner, doing>> /\ doing[Cli] = None
         \/ Return(Cli)
  PROVE  LoggingInvariant'
<1>1. PICK d \in Unborn :
        /\ session' = [session EXCEPT ![d] = [sink |-> s, transcript |-> t]]
        /\ cliDebug' = d /\ simDebug' = d
  BY DEF OpenDebug
<1>2. d \in Sessions /\ s # None /\ Cli \in Writers
  BY LoggingAssumption DEF Unborn, Locks, Writers
<1>3. FilesSound'
  BY DEF LoggingInvariant, FilesSound, UnusedAreEmpty, Unused, ConsoleKept, Received, Text, MarkersAnnounce
<1>4. LocksSound' /\ doing'[Cli] = None
  BY <1>2, LocksFrame, ReturnKeeps DEF LoggingInvariant, WritersStay
<1>5. /\ session' \in [Sessions -> [sink : Sinks \cup {None}, transcript : Transcripts \cup {None}]]
      /\ session'[d].sink = s /\ session'[d].transcript = t
      /\ \A e \in Sessions : e # d => session'[e] = session[e]
  BY <1>1, <1>2 DEF LoggingInvariant, SessionsSound
<1>6. SessionsSound'
  BY <1>1, <1>2, <1>4, <1>5 DEF LoggingInvariant, SessionsSound
<1> QED
  BY <1>3, <1>4, <1>6 DEF LoggingInvariant

\* A session is given up by a command that is not in a call.
LEMMA ClosesKeep ==
  ASSUME LoggingInvariant, SetNolog \/ SetNodebug
  PROVE  LoggingInvariant'
<1>1. UNCHANGED <<file, transcript, session, owner, doing, pushed>> /\ doing[Cli] = None
  BY DEF SetNolog, SetNodebug, Free
<1>2. FilesSound'
  BY <1>1 DEF LoggingInvariant, FilesSound, UnusedAreEmpty, Unused, ConsoleKept, Received, Text, MarkersAnnounce
<1>3. LocksSound'
  BY <1>1, LocksFrame DEF LoggingInvariant, WritersStay
<1>4. /\ cliLog' \in {cliLog, None}
      /\ (cliDebug' = cliDebug /\ simDebug' = simDebug) \/ (cliDebug' = None /\ simDebug' = None)
  BY DEF SetNolog, SetNodebug
<1>5. SessionsSound'
  BY <1>1, <1>4 DEF LoggingInvariant, SessionsSound
<1> QED
  BY <1>2, <1>3, <1>5 DEF LoggingInvariant

\* Sharing locks what is to be shared, then opens a session over its file.
LEMMA SharesKeep ==
  ASSUME LoggingInvariant, SetLogDebug \/ SetDebugLog
  PROVE  LoggingInvariant'
<1>1. FilesSound /\ SessionsSound /\ Cli \in Writers
  BY DEF LoggingInvariant, Writers
<1>2. cliLog # None => cliLog \in Transcripts /\ transcript[cliLog].writer \in Sinks
                       /\ transcript[cliLog].writer # None
  BY <1>1 DEF SessionsSound, FilesSound
<1>3. cliDebug # None => cliDebug \in Sessions /\ session[cliDebug].sink \in Sinks
                         /\ session[cliDebug].sink # None
  BY <1>1 DEF SessionsSound
<1>4. CASE cliDebug # None /\ Start(Cli, "share debug", <<cliDebug>>)
  BY <1>1, <1>3, <1>4, SessionPlan, StartStep
<1>5. CASE cliLog # None /\ Start(Cli, "share log", <<cliLog>>)
  BY <1>1, <1>2, <1>5, TranscriptPlan, StartStep DEF MayPush
<1>6. CASE /\ Ready(Cli, "share debug") /\ OpenLog(session[cliDebug].sink) /\ Return(Cli)
           /\ UNCHANGED <<file, session, cliDebug, simDebug, pushed>>
  <2>1. cliDebug # None
    BY <1>1, <1>6 DEF Ready, SessionsSound
  <2> QED
    BY <1>3, <1>6, <2>1, OpenLogKeeps
<1>7. CASE /\ Ready(Cli, "share log") /\ OpenDebug(transcript[cliLog].writer, cliLog) /\ Return(Cli)
           /\ UNCHANGED <<file, transcript, cliLog, pushed>>
  <2>1. cliLog # None
    BY <1>1, <1>7 DEF Ready, SessionsSound
  <2> QED
    BY <1>2, <1>7, <2>1, OpenDebugKeeps
<1> QED
  BY <1>4, <1>5, <1>6, <1>7 DEF SetLogDebug, SetDebugLog

\* Every step keeps the log sessions sound.
LEMMA LoggingStepKeeps ==
  ASSUME LoggingInvariant, [LoggingNext]_loggingVars
  PROVE  LoggingInvariant'
<1>1. CASE UNCHANGED loggingVars
  <2>1. UNCHANGED <<file, transcript, session, cliLog, cliDebug, simDebug, pushed, owner, doing>>
        /\ WritersStay
    BY <1>1 DEF loggingVars, WritersStay
  <2>2. FilesSound'
    BY <2>1 DEF LoggingInvariant, FilesSound, UnusedAreEmpty, Unused, ConsoleKept, Received, Text,
                MarkersAnnounce
  <2>3. LocksSound'
    BY <2>1, LocksFrame DEF LoggingInvariant
  <2>4. SessionsSound'
    BY <2>1, SessionsFrame DEF LoggingInvariant, SessionsSound
  <2> QED
    BY <2>2, <2>3, <2>4 DEF LoggingInvariant
<1>2. ASSUME NEW th \in Writers, Acquire(th) PROVE LoggingInvariant'
  <2>1. /\ UNCHANGED <<file, transcript, session, cliLog, cliDebug, simDebug, pushed>> /\ WritersStay
        /\ Cli \in Writers
    BY <1>2 DEF Acquire, WritersStay, Writers
  <2>2. FilesSound'
    BY <2>1 DEF LoggingInvariant, FilesSound, UnusedAreEmpty, Unused, ConsoleKept, Received, Text,
                MarkersAnnounce
  <2>3. LocksSound' /\ (doing'[Cli] # None => doing[Cli] # None /\ doing'[Cli].op = doing[Cli].op)
    BY <1>2, <2>1, AcquireKeeps DEF LoggingInvariant
  <2>4. SessionsSound'
    BY <2>1, <2>3, SessionsFrame DEF LoggingInvariant, SessionsSound
  <2> QED
    BY <2>2, <2>3, <2>4 DEF LoggingInvariant
<1>3. ASSUME SetLogFile PROVE LoggingInvariant'
  <2>1. PICK s \in Sinks : OpenLog(s)
    BY <1>3 DEF SetLogFile, Unopened
  <2> QED
    BY <1>3, <2>1, OpenLogKeeps DEF SetLogFile, Free
<1>4. ASSUME SetDebugFile PROVE LoggingInvariant'
  <2>1. PICK s \in Sinks : OpenDebug(s, None)
    BY <1>4 DEF SetDebugFile, Unopened
  <2> QED
    BY <1>4, <2>1, OpenDebugKeeps DEF SetDebugFile, Free
<1>5. CASE LoggingNext
  BY <1>2, <1>3, <1>4, <1>5, StartsKeep, WritesKeep, PushesCharKeep, PushesNewlineKeep, FlushesKeep,
     RecordStepKeeps, ClosesKeep, SharesKeep DEF LoggingNext
<1> QED
  BY <1>1, <1>5

\* The invariant of the log sessions holds in every behaviour, for any number
\* of files, transcripts and sessions and any bound on what is written.
THEOREM LogsAreSound == LoggingSpec => []LoggingInvariant
<1>1. LoggingInvariant /\ [LoggingNext]_loggingVars => LoggingInvariant'
  BY LoggingStepKeeps
<1> QED
  BY <1>1, LoggingInitHolds, PTL DEF LoggingSpec

\* The mutexes have one order, which every call follows, so the two threads
\* never wait for each other (logging.rs:35-38).
THEOREM NoEmbrace == LoggingSpec => []NoDeadlyEmbrace
<1>1. LoggingInvariant => NoDeadlyEmbrace
  <2> SUFFICES ASSUME LoggingInvariant,
                      Waits(Cli), owner[Head(doing[Cli].need)] = Sim,
                      Waits(Sim), owner[Head(doing[Sim].need)] = Cli
               PROVE  FALSE
    BY DEF NoDeadlyEmbrace
  <2>1. ASSUME NEW th \in Writers, Waits(th)
        PROVE  Head(doing[th].need) \in Locks /\ Head(doing[th].need) \in Needed(th)
    <3>1. doing[th].need \in Seq(Locks) /\ doing[th].need # <<>>
      BY <2>1 DEF Waits, LoggingInvariant, LocksSound, Calls
    <3>2. 1 \in DOMAIN doing[th].need /\ Head(doing[th].need) = doing[th].need[1]
      BY <3>1, EmptySeq, LenProperties
    <3> QED
      BY <3>1, <3>2, HeadTailProperties DEF Needed
  <2> DEFINE one == Head(doing[Cli].need)
             two == Head(doing[Sim].need)
  <2>2. Cli \in Writers /\ Sim \in Writers
    BY DEF Writers
  <2>3. one \in Needed(Cli) /\ two \in Held(Cli) /\ two \in Needed(Sim) /\ one \in Held(Sim)
    BY <2>1, <2>2 DEF Held
  <2>4. Rank(two) < Rank(one) /\ Rank(one) < Rank(two)
    <3> HIDE DEF one, two
    <3> QED
      BY <2>2, <2>3 DEF Waits, LoggingInvariant, LocksSound, Ordered
  <2> QED
    BY <2>4 DEF Rank
<1> QED
  BY <1>1, LogsAreSound, PTL

\* No character of the simulated console is lost, doubled or moved, however many
\* records go to the file while its line is unfinished (logging.rs:203-283).
THEOREM ConsoleIsKept == LoggingSpec => []ConsoleKept
<1>1. LoggingInvariant => ConsoleKept
  BY DEF LoggingInvariant, FilesSound
<1> QED
  BY <1>1, LogsAreSound, PTL

\* A marker stands between the copy of a line and the record (logging.rs:270).
THEOREM MarkersStandWhereTheyShould == LoggingSpec => []MarkersAnnounce
<1>1. LoggingInvariant => MarkersAnnounce
  BY DEF LoggingInvariant, FilesSound
<1> QED
  BY <1>1, LogsAreSound, PTL
=============================================================================
