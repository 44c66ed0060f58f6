--------------------------- MODULE LiveDirectory ---------------------------
(***************************************************************************)
(* What the readers of live/ are promised: the certificates of a domain    *)
(* come in successive bundles; at each name live/ shows either nothing or  *)
(* a whole file, a file newly shown is of the newest bundle, and a file of *)
(* the newest bundle is never taken away.                                  *)
(***************************************************************************)
EXTENDS Naturals

CONSTANTS Kinds,  \* names in live/: cert, privkey, chain, fullchain
          Absent  \* no file

VARIABLES latest, \* number of the newest bundle being published
          view    \* the bundle whose file each name shows

vars == <<latest, view>>

Init == latest = 0 /\ view = [k \in Kinds |-> Absent]

Publish == latest' = latest + 1 /\ UNCHANGED view

Withdraw(k) == /\ view[k] \notin {Absent, latest}
               /\ view' = [view EXCEPT ![k] = Absent]
               /\ UNCHANGED latest

Show(k) == /\ view[k] = Absent /\ latest > 0
           /\ view' = [view EXCEPT ![k] = latest]
           /\ UNCHANGED latest

Next == Publish \/ \E k \in Kinds : Withdraw(k) \/ Show(k)

Spec == Init /\ [][Next]_vars
=============================================================================
