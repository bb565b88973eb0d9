---------------------------- MODULE MCWidgetPods ----------------------------
(***************************************************************************)
(* Instances of WidgetPods                                                 *)
(***************************************************************************)
EXTENDS WidgetPods, TLC

CONSTANTS a, w1

OneWidget == [l \in {a} |-> w1]
=============================================================================
