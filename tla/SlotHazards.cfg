SPECIFICATION Spec
CONSTANTS
  Seqs = {s1, s2}
  NoSeq = NoSeq
  MaxOpen = 2
  MaxBody = 2
  Env = {"bad_procedure_byte", "idle_hw_error", "preempted_reset"}
INVARIANTS
  MailboxSafe
  IdleIsQuiet
  UartMatchesFsm
  NoAssert
