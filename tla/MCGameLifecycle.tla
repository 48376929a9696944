--------------------------- MODULE MCGameLifecycle ---------------------------
(***************************************************************************)
(* Small instances of GameLifecycle for TLC: two people or one and a bot.   *)
(***************************************************************************)
EXTENDS GameLifecycle

MCBoth == {"red", "black"}
MCRed == {"red"}
==============================================================================
