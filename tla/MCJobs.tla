------------------------------- MODULE MCJobs -------------------------------
(***************************************************************************)
(* Two requests of any capability.  Clips up to eight samples: not cut, in  *)
(* windows of two, of three and of four, with overlaps from none to four    *)
(* (in windows of two, only those of less than the window).                 *)
(***************************************************************************)
EXTENDS Jobs, TLC
CONSTANTS one, two
Plans == {<<0, 1>>, <<2, 0>>, <<2, 1>>} \cup {3, 4} \X (0 .. 4)
Alike == Permutations(Requests)
=============================================================================
