---------------------------- MODULE FileTransfer ----------------------------
(***************************************************************************)
(* What the host protocol promises those who fetch a file, without         *)
(* sentences, sessions, buffers or lines: the parts come one by one, the   *)
(* next one each time, and only the last part or giving up ends a          *)
(* transfer.                                                               *)
(***************************************************************************)
EXTENDS Naturals, Sequences

CONSTANTS Receivers,  \* who may fetch the file
          NChunks     \* its parts

VARIABLES got,        \* the parts each receiver has
          fetching    \* whether it waits for one

vars == <<got, fetching>>

Init ==
  /\ got = [c \in Receivers |-> <<>>]
  /\ fetching = [c \in Receivers |-> FALSE]

\* A receiver forgets what it had.
Begin(c) ==
  /\ ~fetching[c]
  /\ got' = [got EXCEPT ![c] = <<>>]
  /\ UNCHANGED fetching

\* It asks for the file.
Request(c) ==
  /\ ~fetching[c]
  /\ got[c] = <<>>
  /\ fetching' = [fetching EXCEPT ![c] = TRUE]
  /\ UNCHANGED got

\* The next part comes, perhaps the last one.
Receive(c) ==
  /\ fetching[c]
  /\ Len(got[c]) < NChunks
  /\ got' = [got EXCEPT ![c] = Append(@, Len(@) + 1)]
  /\ fetching' = [fetching EXCEPT ![c] = Len(got[c]) + 1 < NChunks]

\* It is refused the file or the next part, or gives up.
GiveUp(c) ==
  /\ fetching[c]
  /\ fetching' = [fetching EXCEPT ![c] = FALSE]
  /\ UNCHANGED got

Next == \E c \in Receivers : Begin(c) \/ Request(c) \/ Receive(c) \/ GiveUp(c)

Spec == Init /\ [][Next]_vars
=============================================================================
