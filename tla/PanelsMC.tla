------------------------------ MODULE PanelsMC ------------------------------
(***************************************************************************)
(* A small instance of Panels: signs of one to four rows of up to five     *)
(* panels, upright and on their side, with and without panels in front,    *)
(* each font where it fits, one image.                                     *)
(***************************************************************************)
EXTENDS Panels

sign(c, x, y, f) == [panelsConfiguration |-> c, frameset |-> [x |-> x, y |-> y, font |-> f]]
MCSigns == {sign(1, 0, 1, 1), sign(2, 0, 0, 0), sign(3, 0, 0, 2), sign(4, 2, 1, 0),
            sign(9, 1, 5, 3), sign(16, 2, 2, 4), sign(20, 5, 4, 5)}
MCNewConfigs == {14}
MCSpeeds     == {85}
MCImages     == {{p \in (0 .. 49) \X (0 .. 31) : (p[1] * p[1] + 3 * p[2]) % 11 = 0}}
=============================================================================
