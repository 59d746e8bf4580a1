----------------------------- MODULE MCGSWindow -----------------------------
(***************************************************************************)
(* Values for TLC: up to three monitors, so that windows are added and     *)
(* removed next to some that stay, and a lock-after-screensaver of 0 and   *)
(* of 5 s.  The layouts have monitors side by side, one that shows what    *)
(* another shows, and ones that leave a monitor an L-shaped rest or a rest *)
(* in two pieces, on a screen of three by two pixels.                      *)
(***************************************************************************)
EXTENDS GSWindow, Sequences

MCLockAfterValues == {0, 5}

Rect(left, top, w, h) == [x |-> left, y |-> top, width |-> w, height |-> h]

Whole == Rect(0, 0, 3, 2)
Left == Rect(0, 0, 1, 2)
Middle == Rect(1, 0, 1, 2)
Right == Rect(1, 0, 2, 2)
Corner == Rect(0, 0, 1, 1)

\* The layout of a sequence of rectangles.
Monitor(s) == [i \in 0 .. (Len(s) - 1) |-> s[i + 1]]

MCLayouts ==
    { Monitor(s) : s \in { <<Left>>, <<Left, Right>>, <<Right, Left>>,
                           <<Whole, Whole>>, <<Corner, Whole>>,
                           <<Middle, Whole, Left>> } }

=============================================================================
