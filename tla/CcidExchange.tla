---------------------------- MODULE CcidExchange ----------------------------
(***************************************************************************)
(* What a CCID slot promises its host, without a card, a UART or a state  *)
(* machine: every bulk-OUT message is answered by one bulk-IN message that *)
(* carries its bSeq; at most one command is in progress; a message that   *)
(* meets a command in progress is refused and does not disturb it.        *)
(***************************************************************************)
EXTENDS Sequences, Naturals

CONSTANTS Commands, \* records with a field seq
          NoCmd     \* no command: none of Commands

VARIABLES outq, inq, cur

exchangeVars == <<outq, inq, cur>>

Init ==
  /\ outq = <<>>
  /\ inq = <<>>
  /\ cur = NoCmd

Submit ==
  /\ \E c \in Commands : outq' = Append(outq, c)
  /\ UNCHANGED <<inq, cur>>

Collect ==
  /\ inq # <<>>
  /\ inq' = Tail(inq)
  /\ UNCHANGED <<outq, cur>>

\* The oldest message is answered at once: it can only fail while another
\* command is in progress.
AnswerNow ==
  /\ outq # <<>>
  /\ outq' = Tail(outq)
  /\ \E ok \in BOOLEAN :
        /\ ok => cur = NoCmd
        /\ inq' = Append(inq, [seq |-> Head(outq).seq, ok |-> ok])
  /\ UNCHANGED cur

\* The oldest message becomes the command in progress ...
Accept ==
  /\ outq # <<>>
  /\ cur = NoCmd
  /\ cur' = Head(outq)
  /\ outq' = Tail(outq)
  /\ UNCHANGED inq

\* ... and is answered later.
Finish ==
  /\ cur # NoCmd
  /\ \E ok \in BOOLEAN : inq' = Append(inq, [seq |-> cur.seq, ok |-> ok])
  /\ cur' = NoCmd
  /\ UNCHANGED outq

Next == Submit \/ Collect \/ AnswerNow \/ Accept \/ Finish

Spec == Init /\ [][Next]_exchangeVars

FairSpec ==
  Spec /\ WF_exchangeVars(AnswerNow \/ Accept) /\ WF_exchangeVars(Finish)

=============================================================================
