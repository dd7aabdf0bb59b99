-------------------------------- MODULE Tabs --------------------------------
(***************************************************************************)
(* The tabs of one browser in which pages of the explorer are open.        *)
(***************************************************************************)
CONSTANT Tab
=============================================================================
