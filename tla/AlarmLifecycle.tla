--------------------------- MODULE AlarmLifecycle ---------------------------
(***************************************************************************)
(* What the alarm store promises of every alarm, whatever crashes: it is   *)
(* opened under an id of its own when its point has no open alarm, and it  *)
(* is closed only after it went to the history.                            *)
(***************************************************************************)
EXTENDS Integers

CONSTANTS Points

VARIABLES
    open,       (* the open alarms, [id, point]                              *)
    archived,   (* ids that went to the history                              *)
    next        (* the next id                                               *)

lifeVars == << open, archived, next >>

LifeInit ==
    /\ open = {}
    /\ archived = {}
    /\ next = 1

Open(p) ==
    /\ \A a \in open : a.point # p
    /\ open' = open \cup {[id |-> next, point |-> p]}
    /\ next' = next + 1
    /\ UNCHANGED archived

Archive(a) ==
    /\ archived' = archived \cup {a.id}
    /\ UNCHANGED << open, next >>

Close(a) ==
    /\ a.id \in archived
    /\ open' = open \ {a}
    /\ UNCHANGED << archived, next >>

LifeNext ==
    \/ \E p \in Points : Open(p)
    \/ \E a \in open : Archive(a) \/ Close(a)

LifeSpec == LifeInit /\ [][LifeNext]_lifeVars
=============================================================================
