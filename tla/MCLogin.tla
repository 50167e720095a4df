-------------------------------- MODULE MCLogin --------------------------------
(* Small instances of Login for TLC: see the cfg files. *)
EXTENDS Login, TLC

Interchangeable == Permutations(Clients) \cup Permutations(Usernames)
                     \cup Permutations(Passwords) \cup Permutations(Hwids)
=============================================================================
