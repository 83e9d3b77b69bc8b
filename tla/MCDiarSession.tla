---------------------------- MODULE MCDiarSession --------------------------
(***************************************************************************)
(* Three people who speak in any pattern over three rolls of the window;    *)
(* twelve chunks of two frames, whose right context and step do not fall on *)
(* the chunks' grid, and a trim for most of them.                           *)
(***************************************************************************)
EXTENDS DiarSession, TLC

Alike == Permutations(People)
=============================================================================
