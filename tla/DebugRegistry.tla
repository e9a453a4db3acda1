--------------------------- MODULE DebugRegistry ---------------------------
(***************************************************************************)
(* The global registry of debug categories (sim-core, logging/debug.rs).   *)
(* Its three maps have a lock each and its counter is atomic, so a call    *)
(* that needs two of them is two steps, between which other threads run.   *)
(***************************************************************************)
EXTENDS Integers

CONSTANTS
  Threads,
  Names,      \* category names as callers write them
  Upper,      \* to_uppercase
  Core,       \* core category ids
  First,      \* first id that is allocated (100)
  LastId,     \* bound: ids allocated in a behaviour
  NoCall

ASSUME RegistryAssumption ==
  /\ Names \subseteq DOMAIN Upper
  /\ First \in Nat /\ LastId \in Nat /\ First <= LastId
  /\ Core \subseteq 0 .. First - 1
  /\ NoCall \notin Names

VARIABLES
  active,    \* ids that are enabled
  names,     \* id -> name as it was registered
  nameToId,  \* uppercase name -> id
  nextId,
  call,      \* the call a thread is in the middle of
  tokens     \* history: <<name, id>> of the registrations that returned

maps == <<active, names, nameToId>>
registryVars == <<maps, nextId, call, tokens>>

Ids == Core \cup First .. LastId
Strings == Names \cup {Upper[n] : n \in Names}

Call ==
  [op : {"name", "lookup"}, name : Names, id : Ids]
    \cup [op : {"enable", "disable"}, ids : SUBSET Ids] \cup {NoCall}

\* A map with some of the keys of S, and its value under one more key.
PartialMap(S, T) == UNION {[D -> T] : D \in SUBSET S}
With(f, key, value) == [k \in DOMAIN f \cup {key} |-> IF k = key THEN value ELSE f[k]]

RegistryTypeOK ==
  /\ active \subseteq Ids
  /\ names \in PartialMap(Ids, Names)
  /\ nameToId \in PartialMap(Strings, Ids)
  /\ nextId \in First .. LastId + 1
  /\ call \in [Threads -> Call]
  /\ tokens \subseteq Names \X Ids

RegistryInit ==
  /\ active = {}
  /\ names = << >>
  /\ nameToId = << >>
  /\ nextId = First
  /\ call = [th \in Threads |-> NoCall]
  /\ tokens = {}

Idle(th) == call[th] = NoCall
Goes(th, next) == call' = [call EXCEPT ![th] = next]

\* register: fetch_add ...
Allocate(th, name) ==
  /\ Idle(th)
  /\ nextId <= LastId
  /\ Goes(th, [op |-> "name", name |-> name, id |-> nextId])
  /\ nextId' = nextId + 1
  /\ UNCHANGED <<maps, tokens>>

\* ... and register_core, with an id of its own, start alike.
AllocateCore(th, name, id) ==
  /\ Idle(th)
  /\ Goes(th, [op |-> "name", name |-> name, id |-> id])
  /\ UNCHANGED <<maps, nextId, tokens>>

\* Then the name goes into one map ...
InsertName(th) ==
  /\ ~Idle(th) /\ call[th].op = "name"
  /\ names' = With(names, call[th].id, call[th].name)
  /\ Goes(th, [call[th] EXCEPT !.op = "lookup"])
  /\ UNCHANGED <<active, nameToId, nextId, tokens>>

\* Mutant: the name is stored as it is written.
InsertLookup_AsWritten(th) ==
  /\ ~Idle(th) /\ call[th].op = "lookup"
  /\ nameToId' = With(nameToId, call[th].name, call[th].id)
  /\ tokens' = tokens \cup {<<call[th].name, call[th].id>>}
  /\ Goes(th, NoCall)
  /\ UNCHANGED <<active, names, nextId>>

\* ... and into the other, and the token is returned.
InsertLookup(th) ==
  /\ ~Idle(th) /\ call[th].op = "lookup"
  /\ nameToId' = With(nameToId, Upper[call[th].name], call[th].id)
  /\ tokens' = tokens \cup {<<call[th].name, call[th].id>>}
  /\ Goes(th, NoCall)
  /\ UNCHANGED <<active, names, nextId>>

\* enable_by_name and disable_by_name: id_by_name, or an error.
LookUp(th, name, op) ==
  /\ Idle(th)
  /\ Upper[name] \in DOMAIN nameToId
  /\ Goes(th, [op |-> op, ids |-> {nameToId[Upper[name]]}])
  /\ UNCHANGED <<maps, nextId, tokens>>

\* Mutant: everything that can be is enabled, registered or not.
Collect_All(th) ==
  /\ Idle(th)
  /\ Goes(th, [op |-> "enable", ids |-> Ids])
  /\ UNCHANGED <<maps, nextId, tokens>>

\* enable_all: the ids that are there now.
Collect(th) ==
  /\ Idle(th)
  /\ Goes(th, [op |-> "enable", ids |-> DOMAIN names])
  /\ UNCHANGED <<maps, nextId, tokens>>

Enable(th) ==
  /\ ~Idle(th) /\ call[th].op = "enable"
  /\ active' = active \cup call[th].ids
  /\ Goes(th, NoCall)
  /\ UNCHANGED <<names, nameToId, nextId, tokens>>

Disable(th) ==
  /\ ~Idle(th) /\ call[th].op = "disable"
  /\ active' = active \ call[th].ids
  /\ Goes(th, NoCall)
  /\ UNCHANGED <<names, nameToId, nextId, tokens>>

\* enable and disable by the token that a registration returned.
EnableToken(th, tok) ==
  /\ Idle(th)
  /\ active' = active \cup {tok[2]}
  /\ UNCHANGED <<names, nameToId, nextId, call, tokens>>

DisableToken(th, tok) ==
  /\ Idle(th)
  /\ active' = active \ {tok[2]}
  /\ UNCHANGED <<names, nameToId, nextId, call, tokens>>

DisableAll(th) ==
  /\ Idle(th)
  /\ active' = {}
  /\ UNCHANGED <<names, nameToId, nextId, call, tokens>>

RegistryStep(th) ==
  \/ \E name \in Names :
       \/ Allocate(th, name)
       \/ \E id \in Core : AllocateCore(th, name, id)
       \/ \E op \in {"enable", "disable"} : LookUp(th, name, op)
  \/ \E tok \in tokens : EnableToken(th, tok) \/ DisableToken(th, tok)
  \/ InsertName(th) \/ InsertLookup(th)
  \/ Collect(th) \/ Enable(th) \/ Disable(th) \/ DisableAll(th)

RegistrySpec == RegistryInit /\ [][\E th \in Threads : RegistryStep(th)]_registryVars

-----------------------------------------------------------------------------
\* Whatever is enabled, about to be enabled, or found by its name is listed
\* by SHOW DEBUG with its name, at every moment of concurrent registrations
\* (debug.rs:113-118, 158-187): a category cannot be on and invisible.
EnabledIsListed ==
  /\ active \subseteq DOMAIN names
  /\ \A key \in DOMAIN nameToId : nameToId[key] \in DOMAIN names
  /\ \A th \in Threads : ~Idle(th) =>
       /\ call[th].op = "enable" => call[th].ids \subseteq DOMAIN names
       /\ call[th].op = "lookup" => call[th].id \in DOMAIN names

\* Two device categories never get one id (debug.rs:114), so that a device is
\* not switched on and off with another.
TokensDistinct ==
  \A one, two \in tokens :
    one[2] = two[2] /\ one[2] >= First => one[1] = two[1]

\* A category that was registered under a name no other registration used, in
\* whatever case, is the one that name finds: SET DEBUG= reaches it.
NameFindsToken ==
  \A tok \in tokens :
    {other \in tokens : Upper[other[1]] = Upper[tok[1]]} = {tok} =>
      /\ Upper[tok[1]] \in DOMAIN nameToId
      /\ nameToId[Upper[tok[1]]] = tok[2]
=============================================================================
