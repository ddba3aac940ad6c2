----------------------------- MODULE MCScreens -----------------------------
(* An instance of Screens small enough for TLC: two questions, two reads    *)
(* under way at once, a burst of one reread.                                *)
EXTENDS Screens
=============================================================================
