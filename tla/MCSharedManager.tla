---------------------------- MODULE MCSharedManager ----------------------------
(* Small instances of SharedManager for TLC: see the cfg files. *)
EXTENDS SharedManager, TLC

CONSTANTS t1, t2, m1, m2

MCThreads == {t1, t2}
Private == t1 :> m1 @@ t2 :> m2   \* as the bot and one client
Shared == t1 :> m1 @@ t2 :> m1    \* as two clients

\* No row, one row, two rows, and a row of another column.
Answers == {[column |-> "uid", rows |-> <<>>], [column |-> "uid", rows |-> <<1>>],
            [column |-> "uid", rows |-> <<2, 3>>], [column |-> "hwid", rows |-> <<4>>]}
=============================================================================
