---------------------------- MODULE MCGfireGames ----------------------------
(* Two accounts that log in twice each, one game the launch file knows and   *)
(* one it does not, two programs at once.                                    *)
EXTENDS GfireGames
=============================================================================
