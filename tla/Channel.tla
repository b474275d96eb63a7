------------------------------- MODULE Channel -------------------------------
(***************************************************************************)
(* What a queue between threads promises its two ends: commands are taken  *)
(* in the order in which they were sent, each once, and none is lost.      *)
(***************************************************************************)
EXTENDS Naturals, Sequences

CONSTANT Commands

VARIABLES
  sent,  \* the commands sent so far, in order
  got    \* how many of them have been taken

vars == <<sent, got>>

Init == sent = <<>> /\ got = 0

Send(c) == sent' = Append(sent, c) /\ UNCHANGED got

Take == got < Len(sent) /\ got' = got + 1 /\ UNCHANGED sent

Next == Take \/ \E c \in Commands : Send(c)

Spec == Init /\ [][Next]_vars

=============================================================================
