--------------------------------- MODULE Files ---------------------------------
(***************************************************************************)
(* The data directory as the stores use it: files that are absent, torn or *)
(* whole, the two ways the stores write them, and the process that keeps   *)
(* what it read from them in memory.                                       *)
(*                                                                         *)
(* A store persists while it holds its mutex, so an operation with its     *)
(* write is one step.  The step has an outcome: the write was made, it was *)
(* refused by the file system, or the process died on the way.  Memory     *)
(* variables mean nothing while the process is not running: the next start *)
(* overwrites all of them.                                                 *)
(***************************************************************************)
CONSTANTS Absent,   \* a file that is not there
          Torn      \* a file of which only a part was written

VARIABLE proc       \* "down", "refused" (the last start failed), the step of
                    \* Open the process is at, or "up"

NotRunning == {"down", "refused"}

\* os.WriteFile truncates the file and writes it in place.
WriteFile(old, new) ==
    {[file |-> new, end |-> "ok"], [file |-> new, end |-> "crash"]}
        \cup [file : {old, Torn}, end : {"error", "crash"}]

\* A temporary file, renamed over the old one when it is complete.
WriteAndRename(old, new) ==
    {[file |-> new, end |-> "ok"], [file |-> new, end |-> "crash"]}
        \cup [file : {old}, end : {"error", "crash"}]

\* The process after a request whose write ended this way.
ServedOn(o) == proc' = IF o.end = "crash" THEN "down" ELSE "up"

\* The process after a step of its start: an error of any step ends it.
StartedOn(o, next) ==
    proc' = CASE o.end = "ok"    -> next
              [] o.end = "error" -> "refused"
              [] o.end = "crash" -> "down"
================================================================================
