----------------------------- MODULE MCThreadPool -----------------------------
(***************************************************************************)
(* The core's pool on a small scale: no thread at first, one that stays,   *)
(* three at most (player/main.c creates it with 0, 1 and 30), and more     *)
(* work than threads.                                                      *)
(***************************************************************************)
EXTENDS ThreadPool
===============================================================================
