------------------------------- MODULE MCServer -------------------------------
(* Small instances of Server for TLC: see the cfg files. *)
EXTENDS Server, TLC

Interchangeable == Permutations(OrderIds) \cup Permutations(Usernames)
                     \cup Permutations(DiscordUsers)

NoOffset == {0}
EastAndWest == {-1, 1}    \* half a day, where a day is two ticks
AnyOffset == {-9, 9}      \* far to either side of every instance's dates
WildDates == {-9, 9}
=============================================================================
