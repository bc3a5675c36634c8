----------------------- MODULE MCNotificationDispatch -----------------------
(***************************************************************************)
(* Instances of NotificationDispatch for TLC.                              *)
(***************************************************************************)
EXTENDS NotificationDispatch, TLC

CONSTANTS g1, g2, r1

OneHandset == r1 :> g1

WorkerSymmetry == Permutations(Workers)
=============================================================================
