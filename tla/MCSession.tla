------------------------------- MODULE MCSession -------------------------------
(* A small instance of Session for TLC. *)
EXTENDS Session

At(mo, d, h, mi, s) == [month |-> mo, day |-> d, hour |-> h, minute |-> mi, second |-> s]

\* Texts of 19, 15, 16, 14 and 17 characters.
MCInstants == <<At(12, 31, 23, 59, 59), At(1, 1, 0, 9, 59), At(1, 1, 0, 19, 59), At(1, 2, 3, 4, 5),
                At(10, 2, 3, 14, 15)>>
================================================================================
