---------------------------- MODULE Publication -----------------------------
(***************************************************************************)
(* What an output directory promises, with no word of how: image/ changes  *)
(* only once a whole tree was made out of what is in the directory, it     *)
(* goes away before that tree takes its place, and whatever happens before *)
(* a tree is ready leaves it alone.                                        *)
(***************************************************************************)

CONSTANT NoTree     \* no directory

VARIABLES
    source,  \* what the downloaded files say the tree should hold
    ready,   \* the tree about to be published, NoTree while there is none
    image    \* what <out>/image shows

vars == <<source, ready, image>>

Init == ready = NoTree /\ image = NoTree

\* Downloads go on while nothing is ready.
Download == ready = NoTree /\ ready' = NoTree /\ UNCHANGED image

\* A tree becomes ready whole and with the contents of the source.
Prepare ==
    /\ ready = NoTree
    /\ ready' # NoTree /\ ready'.whole /\ ready'.items = source
    /\ UNCHANGED <<source, image>>

\* The tree that is replaced is taken away, part by part.
Withdraw ==
    /\ ready # NoTree /\ image # NoTree
    /\ image' \in {[image EXCEPT !.whole = FALSE], NoTree}
    /\ UNCHANGED <<source, ready>>

Publish ==
    /\ ready # NoTree /\ image = NoTree
    /\ image' = ready /\ ready' = NoTree
    /\ UNCHANGED source

GiveUp == ready' = NoTree /\ UNCHANGED <<source, image>>

Next == Download \/ Prepare \/ Withdraw \/ Publish \/ GiveUp

Spec == Init /\ [][Next]_vars

=============================================================================
