---------------------------- MODULE FrameHandoff ----------------------------
(***************************************************************************)
(* What the frame interface of the VMS driver promises to its callers,     *)
(* without semaphores, buffers or threads: pictures are handed over one at *)
(* a time, each submitted picture is taken for transmission exactly once   *)
(* and unchanged, and while the low-voltage monitor has suspended the      *)
(* display nothing is handed over.                                         *)
(***************************************************************************)
CONSTANTS Pictures,   \* the contents a bitmap can have
          NoPicture   \* no picture is waiting

VARIABLES slot,       \* the submitted picture, not yet taken
          owner,      \* who uses the interface: nobody, a frame, the monitor
          taken       \* the picture last taken for transmission

vars == <<slot, owner, taken>>

Init ==
  /\ slot = NoPicture
  /\ owner = "nobody"
  /\ taken = NoPicture

\* A caller hands a picture over.
Submit(p) ==
  /\ owner = "nobody"
  /\ owner' = "frame"
  /\ slot' = p
  /\ UNCHANGED taken

\* The driver takes the waiting picture for transmission.
Take ==
  /\ owner = "frame"
  /\ slot # NoPicture
  /\ taken' = slot
  /\ slot' = NoPicture
  /\ UNCHANGED owner

\* The transmission is over.
Finish ==
  /\ owner = "frame"
  /\ slot = NoPicture
  /\ owner' = "nobody"
  /\ UNCHANGED <<slot, taken>>

\* The monitor suspends the display between two frames, and resumes it.
Suspend ==
  /\ owner = "nobody"
  /\ owner' = "monitor"
  /\ UNCHANGED <<slot, taken>>

Resume ==
  /\ owner = "monitor"
  /\ owner' = "nobody"
  /\ UNCHANGED <<slot, taken>>

Next ==
  \/ \E p \in Pictures : Submit(p)
  \/ Take \/ Finish
  \/ Suspend \/ Resume

Spec == Init /\ [][Next]_vars
=============================================================================
