---------------------------- MODULE CommandTrie ----------------------------
(***************************************************************************)
(* The tables that turn a typed word into a command (sim-core, cli/        *)
(* cmd_trie.rs; cmd_table.rs, set_cmd.rs and show_cmd.rs fill them): a     *)
(* trie, one node a letter.  A node is the letters that lead to it; its    *)
(* command name, where it has one, is those letters.                       *)
(***************************************************************************)
EXTENDS Naturals, Sequences, FiniteSets

CONSTANTS
  Letters,
  Commands,     \* words that can be commands
  Inputs,       \* words that can be typed, in upper case
  Actions,
  NoAction,
  MaxCommands   \* bound: commands of a table

ASSUME TrieAssumption ==
  /\ Commands \subseteq Seq(Letters)
  /\ NoAction \notin Actions

VARIABLES
  nodes,   \* the trie
  table    \* history: what was inserted, by command

trieVars == <<nodes, table>>

Prefixes(word) == {SubSeq(word, 1, n) : n \in 0 .. Len(word)}

NewIntermediate == [action |-> NoAction, exact_only |-> FALSE]
Endpoint(action, exact_only) == [action |-> action, exact_only |-> exact_only]

TrieInit ==
  /\ nodes = [word \in {<<>>} |-> NewIntermediate]
  /\ table = [word \in {} |-> NewIntermediate]

With(f, word, node) == [w \in DOMAIN f \cup {word} |-> IF w = word THEN node ELSE f[w]]

\* Mutant: the nodes on the way are made anew.
Grown_Anew(command) ==
  [word \in DOMAIN nodes \cup Prefixes(command) |->
     IF word \in Prefixes(command) THEN NewIntermediate ELSE nodes[word]]

\* The nodes on the way to a command, made where they are missing.
Grown(command) ==
  [word \in DOMAIN nodes \cup Prefixes(command) |->
     IF word \in DOMAIN nodes THEN nodes[word] ELSE NewIntermediate]

Insert(command, node) ==
  /\ command \in DOMAIN table \/ Cardinality(DOMAIN table) < MaxCommands
  /\ nodes' = With(Grown(command), command, node)
  /\ table' = With(table, command, node)

TrieNext ==
  \E command \in Commands, action \in Actions, exact_only \in BOOLEAN :
    Insert(command, Endpoint(action, exact_only))

TrieSpec == TrieInit /\ [][TrieNext]_trieVars

-----------------------------------------------------------------------------
NotFound == [kind |-> "NotFound"]
Exact(action) == [kind |-> "Exact", action |-> action]
Ambiguous(words) == [kind |-> "Ambiguous", words |-> words]

Choice(f, words) ==
  CASE words = {} -> NotFound
    [] Cardinality(words) = 1 -> Exact(f[CHOOSE word \in words : TRUE].action)
    [] Cardinality(words) > 1 -> Ambiguous(words)

\* collect_matches
Matches(input) ==
  {word \in DOMAIN nodes : input \in Prefixes(word) /\ nodes[word].action # NoAction}

\* find.  At an endpoint the input is the whole name, so that the flag
\* exact_only changes nothing.
Find(input) ==
  IF input \notin DOMAIN nodes THEN NotFound
  ELSE IF nodes[input].action # NoAction THEN Exact(nodes[input].action)
  ELSE Choice(nodes, Matches(input))

-----------------------------------------------------------------------------
\* What the table promises, without a trie: a command that is typed in full,
\* else the only one that starts with what was typed.
Listed(input) ==
  IF input \in DOMAIN table THEN Exact(table[input].action)
  ELSE Choice(table, {word \in DOMAIN table : input \in Prefixes(word)})

\* The trie finds what the table lists, whatever was inserted, in whatever
\* order, also when one command is the beginning of another and when a command
\* is inserted again (cmd_trie.rs:88-148).
FindIsTheTable == \A input \in Inputs : Find(input) = Listed(input)

\* Violated: "Exact-only aliases (e.g., "E" must match exactly, not "EXAMINE")"
\* (cmd_trie.rs:8).  An alias takes part in completion: CON is ambiguous between
\* CONT and CONTINUE, which are one command.
AliasesAreExact ==
  \A input \in Inputs :
    Find(input).kind = "Ambiguous" =>
      Cardinality({word \in Find(input).words : ~nodes[word].exact_only}) > 1
=============================================================================
