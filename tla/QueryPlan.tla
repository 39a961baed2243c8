------------------------------ MODULE QueryPlan ------------------------------
(***************************************************************************)
(* How a Modbus process turns the variables asked of it into the queries   *)
(* it polls: ModbusIpProcess::convert_variable_map_to_query and            *)
(* ModbusRtuProcess::build_query.  Both go through the addresses in order, *)
(* extend the query at hand while the next address is close and the query  *)
(* not too long, and begin another otherwise; they differ in what is close *)
(* and what is too long, and in which maps they clear afterwards.          *)
(*                                                                         *)
(* The digital inputs of ModbusRtuProcess are left out: none can be made   *)
(* (get_digital_input_variable returns what end() points to).              *)
(***************************************************************************)
EXTENDS Integers, Sequences

CONSTANTS
    Variables,      (* what may be asked for, [addr, width] in registers     *)
    Builders,       (* the builders to look at, a subset of AllBuilders      *)
    MaxRegister,    (* config.maxRegisterPerMessage                          *)
    MaxCoil,        (* config.maxCoilPerMessage                              *)
    MaxStarts,      (* bound: calls of start                                 *)
    NoQuery         (* no query begun                                        *)

CoilBuilders == {"ipCoil", "ipDigital", "rtuCoil"}
AllBuilders == CoilBuilders \cup {"ipRegister", "rtuHolding", "rtuInput"}

(* Builders whose map is not cleared: convert_variable_map_to_query clears  *)
(* address2CoilMap twice, clean_build_data forgets the input registers.     *)
Keepers == {"ipDigital", "rtuInput"}

Variable == [addr : Nat, width : Nat \ {0}]
Address == {v.addr : v \in Variables}

ASSUME PlanAssumption ==
    /\ Variables \subseteq Variable
    /\ Builders \subseteq AllBuilders
    /\ MaxRegister \in Nat
    /\ MaxCoil \in Nat
    /\ MaxStarts \in Nat

ASSUME NoQueryAssumption == NoQuery \notin [start : Nat, count : Nat, vars : SUBSET Variables]

VARIABLES
    builder,    (* which of the builders this is                             *)
    asked,      (* the variables ever asked for (history)                    *)
    wanted,     (* the variables in the address map                          *)
    longest,    (* longest[a]: count of the map's variables at a             *)
    todo,       (* addresses the loop has still to visit                     *)
    open,       (* the entry at hand                                         *)
    plan,       (* the query list                                            *)
    starts,     (* calls of start so far                                     *)
    pc          (* "idle", or "build" inside the builder                     *)

vars == << builder, asked, wanted, longest, todo, open, plan, starts, pc >>

Query == [start : Nat, count : Nat, vars : SUBSET Variables]

-----------------------------------------------------------------------------
Init ==
    /\ builder \in Builders
    /\ asked = {}
    /\ wanted = {}
    /\ longest = [a \in Address |-> 0]
    /\ todo = {}
    /\ open = NoQuery
    /\ plan = <<>>
    /\ starts = 0
    /\ pc = "idle"

(* "longest variables register count".                                      *)
Longest(old, width) == IF old < width THEN width ELSE old

(* get_..._variable makes a variable; a coil or digital input is one wide.  *)
Ask(v) ==
    /\ pc = "idle"
    /\ v \notin asked
    /\ builder \in CoilBuilders => v.width = 1
    /\ asked' = asked \cup {v}
    /\ wanted' = wanted \cup {v}
    /\ longest' = [longest EXCEPT ![v.addr] = Longest(@, v.width)]
    /\ UNCHANGED << builder, todo, open, plan, starts, pc >>

(* start, the first or after a stop, calls the builder.                     *)
Start ==
    /\ pc = "idle"
    /\ starts < MaxStarts
    /\ starts' = starts + 1
    /\ todo' = {v.addr : v \in wanted}
    /\ pc' = "build"
    /\ UNCHANGED << builder, asked, wanted, longest, open, plan >>

-----------------------------------------------------------------------------
(* should_join: less than 7 after the last byte of coils already asked for. *)
RoundUp8(n) == ((n + 7) \div 8) * 8
ShouldJoin(q, a) == a < q.start + RoundUp8(q.count) + 7

(* What comes after end does not leave too large a gap.                     *)
Close(q, a) ==
    \/ builder \in {"ipCoil", "ipDigital"} /\ ShouldJoin(q, a)
    \/ builder = "ipRegister" /\ a <= q.start + q.count + 1
    \/ builder = "rtuCoil" /\ a - (q.start + q.count) < 8
    \/ builder \in {"rtuHolding", "rtuInput"} /\ q.start + q.count = a

(* Mutant of Fits: the size is compared with the address alone.             *)
FitsAddress(q, a) ==
    IF builder \in CoilBuilders THEN a - q.start <= MaxCoil
                                ELSE a - q.start <= MaxRegister

(* The query, extended to a, stays within the configured size; coils over   *)
(* TCP are compared with > where the distance is one less than the count.   *)
Fits(q, a) ==
    \/ builder \in {"ipCoil", "ipDigital"} /\ a - q.start <= MaxCoil
    \/ builder = "rtuCoil" /\ a - q.start < MaxCoil
    \/ builder \notin CoilBuilders /\ a + longest[a] - q.start <= MaxRegister

Group(a) == {v \in wanted : v.addr = a}

NewQuery(a) == [start |-> a, count |-> longest[a], vars |-> Group(a)]

(* Mutant of Extended: the gap before a is not counted.                     *)
ExtendedByWidth(q, a) ==
    [start |-> q.start, count |-> q.count + longest[a], vars |-> q.vars \cup Group(a)]

Extended(q, a) ==
    [start |-> q.start, count |-> a + longest[a] - q.start, vars |-> q.vars \cup Group(a)]

(* The loop visits the addresses of a std::map, in ascending order.         *)
Visit(a) ==
    /\ pc = "build"
    /\ a \in todo
    /\ \A b \in todo : a <= b
    /\ todo' = todo \ {a}
    /\ UNCHANGED << builder, asked, wanted, longest, starts, pc >>

Begin(a) ==
    /\ Visit(a)
    /\ open = NoQuery
    /\ open' = NewQuery(a)
    /\ UNCHANGED plan

Join(a) ==
    /\ Visit(a)
    /\ open # NoQuery
    /\ Close(open, a)
    /\ Fits(open, a)
    /\ open' = Extended(open, a)
    /\ UNCHANGED plan

(* Mutants of Split: the entry is not begun anew; it keeps its variables.   *)
SplitForgets(a) ==
    /\ Visit(a)
    /\ open # NoQuery
    /\ ~(Close(open, a) /\ Fits(open, a))
    /\ plan' = Append(plan, open)
    /\ open' = [open EXCEPT !.vars = {}]

SplitKeeps(a) ==
    /\ Visit(a)
    /\ open # NoQuery
    /\ ~(Close(open, a) /\ Fits(open, a))
    /\ plan' = Append(plan, open)
    /\ open' = [start |-> a, count |-> longest[a], vars |-> open.vars \cup Group(a)]

Split(a) ==
    /\ Visit(a)
    /\ open # NoQuery
    /\ ~(Close(open, a) /\ Fits(open, a))
    /\ plan' = Append(plan, open)
    /\ open' = NewQuery(a)

(* Mutant of Finish: the last entry is left.                                *)
FinishLeavesOpen ==
    /\ pc = "build"
    /\ todo = {}
    /\ wanted' = IF builder \in Keepers THEN wanted ELSE {}
    /\ longest' = IF builder \in Keepers THEN longest ELSE [a \in Address |-> 0]
    /\ pc' = "idle"
    /\ UNCHANGED << builder, asked, todo, open, plan, starts >>

(* The last entry goes to the list, and the map is cleared, if it is.       *)
Finish ==
    /\ pc = "build"
    /\ todo = {}
    /\ plan' = IF open = NoQuery THEN plan ELSE Append(plan, open)
    /\ open' = NoQuery
    /\ wanted' = IF builder \in Keepers THEN wanted ELSE {}
    /\ longest' = IF builder \in Keepers THEN longest ELSE [a \in Address |-> 0]
    /\ pc' = "idle"
    /\ UNCHANGED << builder, asked, todo, starts >>

Next ==
    \/ \E v \in Variables : Ask(v)
    \/ Start
    \/ \E a \in Address : Begin(a) \/ Join(a) \/ Split(a)
    \/ Finish

Spec == Init /\ [][Next]_vars

-----------------------------------------------------------------------------
(* The state is well formed; outside the builder nothing is half done.      *)
TypeOK ==
    /\ builder \in Builders
    /\ asked \in SUBSET Variables
    /\ wanted \in SUBSET Variables
    /\ longest \in [Address -> Nat]
    /\ todo \in SUBSET Address
    /\ open \in Query \cup {NoQuery}
    /\ plan \in Seq(Query)
    /\ starts \in 0..MaxStarts
    /\ pc \in {"idle", "build"}
    /\ pc = "idle" => todo = {} /\ open = NoQuery

Queries == {plan[i] : i \in DOMAIN plan} \cup ({open} \ {NoQuery})

End(q) == q.start + q.count

(* The reply to q has everything update_value_from_source needs for v.      *)
Serves(q, v) == q.start <= v.addr /\ v.addr + v.width <= End(q)

(* v reaches beyond a variable that begins behind it in the same query: the *)
(* TCP builder lets the last address decide where a query ends.             *)
Encloses(q, v) ==
    /\ builder = "ipRegister"
    /\ \E u \in q.vars : v.addr < u.addr /\ u.addr + u.width < v.addr + v.width

(* Every variable gets its registers from the query it is in, but for the   *)
(* one case in which a TCP register query is cut short.                     *)
VariablesServed == \A q \in Queries : \A v \in q.vars : Serves(q, v) \/ Encloses(q, v)

(* No variable that was asked for, before the first start or after it, is   *)
(* lost: it is in a query, or the builder comes to it.                      *)
NothingLost ==
    \A v \in asked :
        \/ \E q \in Queries : v \in q.vars
        \/ v \in wanted /\ (pc = "idle" \/ v.addr \in todo)

(* Where the map is cleared, no variable is polled by two queries, however  *)
(* often the process is started.                                            *)
PolledOnce ==
    builder \notin Keepers =>
        /\ \A i, j \in DOMAIN plan : i # j => plan[i].vars \cap plan[j].vars = {}
        /\ open # NoQuery => \A i \in DOMAIN plan : plan[i].vars \cap open.vars = {}

(* What a query may ask for: one coil more than configured over TCP.        *)
Limit ==
    IF builder \notin CoilBuilders THEN MaxRegister
    ELSE IF builder = "rtuCoil" THEN MaxCoil ELSE MaxCoil + 1

(* A query is longer than that only when it is for one address, whose       *)
(* variable alone is.                                                       *)
SizesKept ==
    \A q \in Queries : q.count <= Limit \/ \A u, v \in q.vars : u.addr = v.addr
=============================================================================
