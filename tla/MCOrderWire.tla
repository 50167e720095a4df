------------------------------ MODULE MCOrderWire ------------------------------
(* A small instance of OrderWire for TLC. *)
EXTENDS OrderWire

\* "null" in two characters, payments of one and two, ids that differ.
Unpaid == <<"n", "u">>

MCReports ==
  {<<i, "|", "luRxb1O", "|", "d">> \o <<"|">> \o pay :
     i \in {"a", "b"}, pay \in {Unpaid, <<"p">>}} \cup
  {<<"c", "|", "?", "|", "d", "e", "|", "p", "q">>,
   <<"d", "|", "pa0OUmb", "|", "d", "|", "p", "q">>}

Release == {CC, Nul, "x", "|", "n"}

\* Two stretches, each of one character, wherever they meet.
Stretches ==
  {[i \in 1..BufLen |-> IF i <= k THEN f ELSE g] : f \in Release, g \in Release, k \in 1..BufLen}
MCBeyond == {<<>>, <<"x">>}

ASSUME MCPlainReports == PlainReports
================================================================================
