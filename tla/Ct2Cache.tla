------------------------------ MODULE Ct2Cache ------------------------------
(***************************************************************************)
(* wrapper/caps/whisper.py, _ensure_ct2(): a transformers checkpoint is     *)
(* converted once, into a directory of the volume that every instance of    *)
(* the model shares.  The conversion is staged in a directory named by the  *)
(* process's pid, renamed over the old result and then marked complete.     *)
(*                                                                          *)
(* One action is one call into the file system; an instance can be killed   *)
(* between any two of them and is then started again with some other pid.   *)
(* Errors of the volume itself are modelled where the code ignores them.    *)
(***************************************************************************)
CONSTANTS
    Pods,   \* the instances of the model
    Pids    \* the pids their processes may have; each container counts its own

VARIABLES
    out,      \* the converted model's directory: {} if there is none, else "." and its files
    staging,  \* the staging directory of each pid, likewise
    at,       \* where each instance is in _ensure_ct2
    pid,      \* the pid of its process
    todo      \* what rmtree has still to unlink, or convert() to write

cacheVars == <<out, staging, at, pid, todo>>

\* What faster-whisper reads: the weights, and what _CT2_COPY puts beside them.
Parts == {"model", "vocab"}

\* rmtree() lists a directory and then empties it; what it does next.
Listing == [stage |-> "staging", undo |-> "undoing", swap |-> "swapping"]
After   == [staging |-> "convert", undoing |-> "raised", swapping |-> "rename"]

TypeOK ==
    /\ out \in SUBSET (Parts \cup {".", "marker"})
    /\ staging \in [Pids -> SUBSET (Parts \cup {"."})]
    /\ at \in [Pods -> {"off", "check", "convert", "converting", "rename", "mark", "have",
                        "raised"} \cup DOMAIN Listing \cup DOMAIN After]
    /\ pid \in [Pods -> Pids]
    /\ todo \in [Pods -> SUBSET (Parts \cup {"marker"})]

Init ==
    /\ out = {} /\ staging = [n \in Pids |-> {}]
    /\ at = [p \in Pods |-> "off"] /\ pid \in [Pods -> Pids]
    /\ todo = [p \in Pods |-> {}]

Go(p, to)   == at' = [at EXCEPT ![p] = to]
Todo(p, S)  == todo' = [todo EXCEPT ![p] = S]
Staged(p)   == staging[pid[p]]
Stage(p, S) == staging' = [staging EXCEPT ![pid[p]] = S] /\ UNCHANGED out
-----------------------------------------------------------------------------
\* A process of the instance begins to load, or is killed.
Start(p) ==
    /\ at[p] = "off" /\ Go(p, "check")
    /\ \E n \in Pids : pid' = [pid EXCEPT ![p] = n]
    /\ UNCHANGED <<out, staging, todo>>

Kill(p) ==
    /\ at[p] # "off" /\ Go(p, "off") /\ Todo(p, {})
    /\ UNCHANGED <<out, staging, pid>>

\* A marked conversion is used as it is.
Complete_Never == FALSE
Complete == "marker" \in out

Check(p) ==
    /\ at[p] = "check"
    /\ Go(p, IF Complete THEN "have" ELSE "stage")
    /\ UNCHANGED <<out, staging, pid, todo>>

\* rmtree(ignore_errors=True), of `out` before the rename and of the staging directory
\* otherwise: the listing, each unlink, which may fail, and rmdir, which fails if files are
\* left or have come.
Swapping(p) == at[p] \in {"swap", "swapping"}
Dir(p)      == IF Swapping(p) THEN out ELSE Staged(p)
SetDir(p, S) == IF Swapping(p) THEN out' = S /\ UNCHANGED staging ELSE Stage(p, S)

List(p) ==
    /\ at[p] \in DOMAIN Listing
    /\ IF Dir(p) = {} THEN Go(p, After[Listing[at[p]]]) /\ UNCHANGED todo
                      ELSE Go(p, Listing[at[p]]) /\ Todo(p, Dir(p) \ {"."})
    /\ UNCHANGED <<out, staging, pid>>

Unlink(p) ==
    /\ at[p] \in DOMAIN After
    /\ \E f \in todo[p] : /\ Todo(p, todo[p] \ {f})
                          /\ SetDir(p, Dir(p) \ {f}) \/ UNCHANGED <<out, staging>>
    /\ UNCHANGED <<at, pid>>

Rmdir(p) ==
    /\ at[p] \in DOMAIN After /\ todo[p] = {}
    /\ SetDir(p, Dir(p) \ (IF Dir(p) = {"."} THEN {"."} ELSE {}))
    /\ Go(p, After[at[p]])
    /\ UNCHANGED <<pid, todo>>

\* convert(force=True) makes the directory anew and writes the files into it.
ConvertBegin(p) ==
    /\ at[p] = "convert" /\ Go(p, "converting")
    /\ Stage(p, {"."}) /\ Todo(p, Parts)
    /\ UNCHANGED pid

ConvertWrite(p) ==
    /\ at[p] = "converting" /\ Staged(p) # {}
    /\ \E f \in todo[p] : Stage(p, Staged(p) \cup {f}) /\ Todo(p, todo[p] \ {f})
    /\ UNCHANGED <<at, pid>>

ConvertEnd(p) ==
    /\ at[p] = "converting" /\ todo[p] = {} /\ Go(p, "swap")
    /\ UNCHANGED <<out, staging, pid, todo>>

\* It can fail at any of its files; then what it staged goes and the error is raised.
ConvertFails_Kept(p) ==
    /\ at[p] \in {"convert", "converting"} /\ Go(p, "swap") /\ Todo(p, {})
    /\ UNCHANGED <<out, staging, pid>>
ConvertFails(p) ==
    /\ at[p] \in {"convert", "converting"} /\ Go(p, "undo") /\ Todo(p, {})
    /\ UNCHANGED <<out, staging, pid>>

\* rename() replaces an empty directory or none; anything else raises, and leaves what was
\* staged.
Rename(p) ==
    /\ at[p] = "rename"
    /\ IF out \subseteq {"."} /\ Staged(p) # {}
       THEN /\ out' = Staged(p) /\ staging' = [staging EXCEPT ![pid[p]] = {}]
            /\ Go(p, "mark")
       ELSE Go(p, "raised") /\ UNCHANGED <<out, staging>>
    /\ UNCHANGED <<pid, todo>>

\* The marker, in whatever is called `out` by now.
Mark(p) ==
    /\ at[p] = "mark"
    /\ IF out # {} THEN out' = out \cup {"marker"} /\ Go(p, "have")
                   ELSE Go(p, "raised") /\ UNCHANGED out
    /\ UNCHANGED <<staging, pid, todo>>

Ensure(p) == Check(p) \/ List(p) \/ Unlink(p) \/ Rmdir(p) \/ ConvertBegin(p) \/ ConvertWrite(p)
             \/ ConvertEnd(p) \/ ConvertFails(p) \/ Rename(p) \/ Mark(p)

Next == \E p \in Pods : Start(p) \/ Ensure(p) \/ Kill(p)

Spec == Init /\ [][Next]_cacheVars
-----------------------------------------------------------------------------
\* A model marked complete is whole, and so is the one an instance goes on to load,
\* whenever the conversions before were killed and whatever they left.
MarkedIsWhole ==
    /\ "marker" \in out => Parts \subseteq out
    /\ \A p \in Pods : at[p] = "have" => Parts \subseteq out

\* "two instances of one model can load at once and must not collide" (whisper.py:82).
NoCollision == \A p \in Pods : at[p] = "have" => Parts \subseteq out
=============================================================================
