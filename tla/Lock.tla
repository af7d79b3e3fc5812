--------------------------------- MODULE Lock ---------------------------------
(***************************************************************************)
(* What kernel/lib/locks promises its callers: a lock with one owner, and  *)
(* a variable that only the owner advances.  The variable is the           *)
(* input_buffer_head of the console ring, which                            *)
(* console_actual_insert_char() moves on by one under                      *)
(* console_buffer_write_mutex.                                             *)
(***************************************************************************)
EXTENDS Naturals

CONSTANTS Core, NoCore, Size

VARIABLES owner, head

\* The index behind h in a ring of Size places.
After(h) == IF h + 1 >= Size THEN 0 ELSE h + 1

Acquire(c) == owner = NoCore /\ owner' = c /\ UNCHANGED head

Advance(c) == owner = c /\ head' = After(head) /\ UNCHANGED owner

Release(c) == owner = c /\ owner' = NoCore /\ UNCHANGED head

Init == owner = NoCore /\ head = 0

Next == \E c \in Core : Acquire(c) \/ Advance(c) \/ Release(c)

Spec == Init /\ [][Next]_<<owner, head>>

=============================================================================
