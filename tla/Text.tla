--------------------------------- MODULE Text ---------------------------------
(***************************************************************************)
(* How messages and reports are cut into fields (manager::explode,          *)
(* dbmanager.h), over sequences of characters of any kind.                  *)
(***************************************************************************)
EXTENDS Integers, Sequences, SequencesExt, FiniteSetsExt

PushField(v, buff) == IF buff # <<>> THEN Append(v, buff) ELSE v

(* One character: it goes into the field that has begun, or ends it.        *)
Turn_KeepEmpty(acc, x, c) ==
  IF x # c THEN [v |-> acc.v, buff |-> Append(acc.buff, x)]
           ELSE [v |-> Append(acc.v, acc.buff), buff |-> <<>>]
Turn(acc, x, c) ==
  IF x # c THEN [v |-> acc.v, buff |-> Append(acc.buff, x)]
           ELSE [v |-> PushField(acc.v, acc.buff), buff |-> <<>>]

(* The loop, after each number of characters.                               *)
Reading(s, c) ==
  LET read[n \in 0..Len(s)] == IF n = 0 THEN [v |-> <<>>, buff |-> <<>>]
                                        ELSE Turn(read[n - 1], s[n], c)
  IN  read

(* The fields between separators c, in their order, without empty ones.     *)
explode(s, c) ==
  LET end == Reading(s, c)[Len(s)]
  IN  PushField(end.v, end.buff)

(* What a C string holds: everything before the terminator.                 *)
CString_Whole(s, nul) == s
CString(s, nul) ==
  LET ends == {i \in 1..Len(s) : s[i] = nul}
  IN  IF ends = {} THEN s ELSE SubSeq(s, 1, Min(ends) - 1)

-----------------------------------------------------------------------------
(* The reference explode is compared with: the maximal runs of characters   *)
(* other than c.                                                           *)
Inside(s, c, i) == i \in 1..Len(s) /\ s[i] # c
Firsts(s, c) == {i \in 1..Len(s) : Inside(s, c, i) /\ ~Inside(s, c, i - 1)}
LastOf(s, c, i) == Min({j \in i..Len(s) : ~Inside(s, c, j + 1)})

Fields(s, c) ==
  LET first(k) == CHOOSE i \in Firsts(s, c) : Cardinality({j \in Firsts(s, c) : j <= i}) = k
  IN  [k \in 1..Cardinality(Firsts(s, c)) |-> SubSeq(s, first(k), LastOf(s, c, first(k)))]
===============================================================================
