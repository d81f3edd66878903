----------------------------- MODULE MCWatchdog -----------------------------
(***************************************************************************)
(* A user who does one thing, or one of the pairs in which the second      *)
(* catches the system in the middle of answering the first.                *)
(***************************************************************************)
EXTENDS Watchdog

MCSessions == {<<"retry">>, <<"resume">>, <<"edit">>, <<"launch">>,
               <<"quit", "launch">>}
OneQuit == {<<"quit">>}
=============================================================================
