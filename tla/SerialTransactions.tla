------------------------- MODULE SerialTransactions -------------------------
(***************************************************************************)
(* What SQLiteStore promises to the threads that share its connection: the *)
(* rows of a call come into the database in one step or not at all, before *)
(* the call is told that it returned.  A method that is told that it       *)
(* raised leaves nothing for later; a section that raised may leave rows,  *)
(* which come in with those of another call.  There is no lock, no         *)
(* transaction and no rollback here: SharedConnection implements this      *)
(* module.                                                                 *)
(***************************************************************************)
EXTENDS Naturals

CONSTANTS Calls,       \* calls that write, each in a thread
          Methods,     \* those that are methods of SQLiteStore
          Size         \* the number of rows that a call writes

VARIABLES db,          \* the rows in the database
          reply        \* what each call has been told

vars == <<db, reply>>

Rows(c) == {c} \X (1 .. Size[c])

Init == /\ db = {}
        /\ reply = [c \in Calls |-> "none"]

\* Rows that sections may have left behind.
Leftover == UNION {Rows(c) : c \in {c \in Calls \ Methods : reply[c] = "raised"}}

Apply(c) == /\ reply[c] = "none"
            /\ Rows(c) \cap db = {}
            /\ \E left \in SUBSET Leftover : db' = db \cup Rows(c) \cup left
            /\ UNCHANGED reply

Reply(c, r) == /\ reply[c] = "none"
               /\ r = "ok" => Rows(c) \subseteq db
               /\ reply' = [reply EXCEPT ![c] = r]
               /\ UNCHANGED db

Next == \E c \in Calls : Apply(c) \/ Reply(c, "ok") \/ Reply(c, "raised")

Spec == Init /\ [][Next]_vars
=============================================================================
