SPECIFICATION LogsSpec
CONSTANTS
  Threads = {cli, sim}
  Names = {"cpu", "CPU", "tti"}
  Upper <- MCUpper
  Core = {0}
  First = 1
  LastId = 2
  NoCall = NoCall
  Cli = cli
  Sim = sim
  Sinks = {file1, file2}
  Transcripts = {t1, t2}
  Sessions = {d1}
  None = None
  MaxWrites = 2
  MaxChars = 2
SYMMETRY Interchangeable
INVARIANTS
  EnabledIsListed NameFindsToken NoDeadlyEmbrace ConsoleKept MarkersAnnounce
CHECK_DEADLOCK FALSE
