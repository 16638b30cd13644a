------------------------------ MODULE Overlap -------------------------------
(***************************************************************************)
(* Two commands started in one output directory at the same time.  Nothing *)
(* in the code locks it, so each of them takes the steps of UnpackerRun on *)
(* files the other one is writing.  The process of UnpackerRun is the      *)
(* first; the second has variables of its own and shares the rest.  A      *)
(* directory that is removed under the other command is only modelled for  *)
(* .image.staging and image/, so behaviours in which either falls back,    *)
(* which removes tmp/, are left out.                                       *)
(***************************************************************************)
EXTENDS UnpackerRun

VARIABLES pc2, cfg2, mem2, exit2, seen2

own == <<pc, cfg, mem, exit, seen>>
own2 == <<pc2, cfg2, mem2, exit2, seen2>>

Other == INSTANCE UnpackerRun WITH
    pc <- pc2, cfg <- cfg2, mem <- mem2, exit <- exit2, seen <- seen2

InitBoth == Init /\ Other!Init

\* A crash and a moving tag are for the runs of one command.
NextBoth ==
    \/ (Start \/ Network \/ Local) /\ pc' # "clean" /\ UNCHANGED own2
    \/ (Other!Start \/ Other!Network \/ Other!Local) /\ pc2' # "clean" /\ UNCHANGED own

SpecBoth == InitBoth /\ [][NextBoth]_<<vars, own2>>

\* unpack.go: "The output directory appears only once the unpack has fully
\* succeeded".  What is in image/ is all that some digest should give.
AppearsComplete ==
    image # NoTree /\ image.whole => \E d \in Digest : image.items = Expected(d)

=============================================================================
