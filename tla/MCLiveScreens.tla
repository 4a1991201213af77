---------------------------- MODULE MCLiveScreens ----------------------------
(***************************************************************************)
(* LiveScreens with one tab on one case.                                  *)
(***************************************************************************)
EXTENDS LiveScreens
=============================================================================
