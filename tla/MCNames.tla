------------------------------- MODULE MCNames -------------------------------
\* What is typed at the command line: commands, and names of devices.  The two
\* share no variable, so a behaviour is of one or of the other.
EXTENDS DeviceRegistry, CommandTrie

VARIABLE part

MCCommands == UNION {[1 .. n -> Letters] : n \in 1 .. 3}
MCInputs == {<<>>} \cup MCCommands \cup [1 .. 4 -> Letters]

NamesInit == part \in {"commands", "devices"} /\ TrieInit /\ Init

NamesNext ==
  \/ part = "commands" /\ TrieNext /\ UNCHANGED <<part, registryVars>>
  \/ part = "devices" /\ Next /\ UNCHANGED <<part, trieVars>>

NamesSpec == NamesInit /\ [][NamesNext]_<<part, registryVars, trieVars>>
=============================================================================
