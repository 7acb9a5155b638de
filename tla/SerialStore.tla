---------------------------- MODULE SerialStore ----------------------------
(***************************************************************************)
(* What the DuckDB store promises to the callers of execute_write: a       *)
(* serial log of writes.  A write enters the log at most once; a caller is *)
(* told "ok" only for a write that is in the log and "error" only for one  *)
(* that is not and never will be; a caller that is cancelled is told       *)
(* nothing, and its write may still enter the log.  There is no queue, no  *)
(* worker and no thread here: DuckWriteQueue implements this module.       *)
(***************************************************************************)
EXTENDS Sequences, Functions

CONSTANT Ops           \* the write operations, one per call of execute_write

VARIABLES log,         \* the writes applied to the database, in order
          reply        \* what the caller of each operation has been told

vars == <<log, reply>>

Init == /\ log = <<>>
        /\ reply = [o \in Ops |-> "none"]

Apply(o) == /\ o \notin Range(log)
            /\ reply[o] \in {"none", "cancelled"}
            /\ log' = Append(log, o)
            /\ UNCHANGED reply

Reply(o, r) == /\ reply[o] = "none"
               /\ r = "ok" => o \in Range(log)
               /\ r = "error" => o \notin Range(log)
               /\ reply' = [reply EXCEPT ![o] = r]
               /\ UNCHANGED log

Next == \E o \in Ops : \/ Apply(o)
                       \/ \E r \in {"ok", "error", "cancelled"} : Reply(o, r)

Spec == Init /\ [][Next]_vars
=============================================================================
