----------------------------- MODULE QueryProofs -----------------------------
(***************************************************************************)
(* Theorems about queries: about QueryPlan, which makes them, for any      *)
(* variables, limits and builder, and about PointPath, on which a point    *)
(* gets its value through one, for any points, queries and values, bytes   *)
(* of any size, and logics that do whatever they do.                       *)
(***************************************************************************)
EXTENDS QueryPlan, PointPath, TLAPS

-----------------------------------------------------------------------------
(* The shape of the loop: the addresses to visit are those of the map that  *)
(* lie behind the query at hand.                                            *)

Behind(q, a) == q.start < a /\ \A v \in q.vars : v.addr < a

LoopShape ==
    /\ todo \subseteq {v.addr : v \in wanted}
    /\ open # NoQuery => \A a \in todo : Behind(open, a)

LEMMA AddressType == \A a \in Address : a \in Nat
BY PlanAssumption DEF Address, Variable

LEMMA VariableType == \A v \in Variables : v.addr \in Address /\ v.addr \in Nat /\ v.width \in Nat \ {0}
BY PlanAssumption DEF Address, Variable

(* A query begun or extended is a query.                                    *)
LEMMA NewQueryType ==
    ASSUME TypeOK, NEW a \in Address
    PROVE  NewQuery(a) \in Query /\ NewQuery(a) # NoQuery
<1>1. a \in Nat /\ longest[a] \in Nat  BY AddressType DEF TypeOK
<1>2. Group(a) \in SUBSET Variables  BY DEF TypeOK, Group
<1>3. NewQuery(a) \in Query  BY <1>1, <1>2 DEF NewQuery, Query
<1> QED  BY <1>3, NoQueryAssumption DEF Query

LEMMA ExtendedType ==
    ASSUME TypeOK, LoopShape, open # NoQuery, NEW a \in todo
    PROVE  Extended(open, a) \in Query /\ Extended(open, a) # NoQuery
<1>1. a \in Nat /\ longest[a] \in Nat  BY AddressType DEF TypeOK
<1>2. Group(a) \in SUBSET Variables  BY DEF TypeOK, Group
<1>3. open.start \in Nat /\ open.vars \in SUBSET Variables  BY DEF TypeOK, Query
<1>4. a + longest[a] - open.start \in Nat  BY <1>1, <1>3 DEF LoopShape, Behind
<1>5. open.vars \cup Group(a) \in SUBSET Variables  BY <1>2, <1>3
<1>6. Extended(open, a) \in Query  BY <1>3, <1>4, <1>5 DEF Extended, Query
<1> QED  BY <1>6, NoQueryAssumption DEF Query

LEMMA InitShape == Init => TypeOK /\ LoopShape
<1> SUFFICES ASSUME Init PROVE TypeOK /\ LoopShape  OBVIOUS
<1>1. plan \in Seq(Query)  BY DEF Init
<1>2. 0 \in 0..MaxStarts  BY PlanAssumption
<1>3. TypeOK  BY <1>1, <1>2 DEF Init, TypeOK
<1> QED  BY <1>3 DEF Init, LoopShape

(* The addresses left lie behind the one just visited.                      *)
LEMMA VisitOrder ==
    ASSUME TypeOK, NEW a \in Address, Visit(a)
    PROVE  /\ a \in todo
           /\ \A b \in todo' : b \in todo /\ a < b
           /\ todo' \in SUBSET Address
BY AddressType DEF Visit, TypeOK

LEMMA VisitShape ==
    ASSUME TypeOK, LoopShape, NEW a \in Address, Begin(a) \/ Join(a) \/ Split(a)
    PROVE  TypeOK' /\ LoopShape'
<1> USE DEF Begin, Join, Split
<1>1. Visit(a)  OBVIOUS
<1>2. a \in todo /\ todo' \in SUBSET Address /\ \A b \in todo' : b \in todo /\ a < b
  BY <1>1, VisitOrder
<1>3. open' \in Query /\ open' # NoQuery
  BY <1>2, NewQueryType, ExtendedType
<1>4. plan' \in Seq(Query)
  <2>1. CASE Begin(a) \/ Join(a)  BY <2>1 DEF TypeOK
  <2>2. CASE Split(a)
    <3>1. open \in Query  BY <2>2 DEF TypeOK
    <3> QED  BY <2>2, <3>1 DEF TypeOK
  <2> QED  BY <2>1, <2>2
<1>5. TypeOK'
  BY <1>1, <1>2, <1>3, <1>4 DEF Visit, TypeOK
<1>6. \A b \in todo' : Behind(open', b)
  <2> SUFFICES ASSUME NEW b \in todo' PROVE Behind(open', b)  OBVIOUS
  <2>1. b \in todo /\ a < b /\ a \in Nat /\ b \in Nat  BY <1>2, AddressType DEF TypeOK
  <2>2. \A v \in Group(a) : v.addr < b  BY <2>1 DEF Group
  <2>3. Behind(NewQuery(a), b)  BY <2>1, <2>2 DEF NewQuery, Behind
  <2>4. ASSUME open # NoQuery PROVE Behind(Extended(open, a), b)
    <3>1. Behind(open, b)  BY <2>1, <2>4 DEF LoopShape
    <3> QED  BY <3>1, <2>2 DEF Extended, Behind
  <2> QED  BY <2>3, <2>4
<1>7. todo' \subseteq {v.addr : v \in wanted'}
  BY <1>1, <1>2 DEF Visit, LoopShape
<1> QED  BY <1>5, <1>6, <1>7 DEF LoopShape

LEMMA LongestType == \A m, n \in Nat : Longest(m, n) \in Nat /\ Longest(m, n) >= m /\ Longest(m, n) >= n
BY DEF Longest

LEMMA OtherShape ==
    ASSUME TypeOK, LoopShape, (\E v \in Variables : Ask(v)) \/ Start \/ Finish \/ UNCHANGED vars
    PROVE  TypeOK' /\ LoopShape'
<1>1. ASSUME NEW v \in Variables, Ask(v) PROVE TypeOK' /\ LoopShape'
  <2>1. v.addr \in Address /\ v.width \in Nat  BY VariableType
  <2>2. Longest(longest[v.addr], v.width) \in Nat  BY <2>1, LongestType DEF TypeOK
  <2>3. longest' \in [Address -> Nat]  BY <1>1, <2>1, <2>2 DEF Ask, TypeOK
  <2>4. TypeOK'  BY <1>1, <2>3 DEF Ask, TypeOK
  <2> QED  BY <1>1, <2>4 DEF Ask, LoopShape, TypeOK
<1>2. ASSUME Start PROVE TypeOK' /\ LoopShape'
  <2>1. todo' \in SUBSET Address  BY <1>2, VariableType DEF Start, TypeOK
  <2>2. starts' \in 0..MaxStarts  BY <1>2, PlanAssumption DEF Start, TypeOK
  <2>3. TypeOK'  BY <1>2, <2>1, <2>2 DEF Start, TypeOK
  <2> QED  BY <1>2, <2>3 DEF Start, LoopShape, TypeOK
<1>3. ASSUME Finish PROVE TypeOK' /\ LoopShape'
  <2>1. plan' \in Seq(Query)
    <3>1. CASE open = NoQuery  BY <1>3, <3>1 DEF Finish, TypeOK
    <3>2. CASE open # NoQuery
      <4>1. open \in Query  BY <3>2 DEF TypeOK
      <4> QED  BY <1>3, <3>2, <4>1 DEF Finish, TypeOK
    <3> QED  BY <3>1, <3>2
  <2>2. longest' \in [Address -> Nat]  BY <1>3 DEF Finish, TypeOK
  <2>3. wanted' \in SUBSET Variables  BY <1>3 DEF Finish, TypeOK
  <2>4. TypeOK'  BY <1>3, <2>1, <2>2, <2>3 DEF Finish, TypeOK
  <2> QED  BY <1>3, <2>4 DEF Finish, LoopShape
<1>4. ASSUME UNCHANGED vars PROVE TypeOK' /\ LoopShape'
  BY <1>4 DEF vars, TypeOK, LoopShape
<1> QED  BY <1>1, <1>2, <1>3, <1>4

LEMMA ShapeKept == TypeOK /\ LoopShape /\ [Next]_vars => TypeOK' /\ LoopShape'
BY VisitShape, OtherShape DEF Next

LEMMA ShapeInvariant == Spec => [](TypeOK /\ LoopShape)
BY InitShape, ShapeKept, PTL DEF Spec

(* Every variable keeps its type, for any variables and limits; what makes  *)
(* it so is that counts never become negative.                              *)
THEOREM PlanTypeInvariant == Spec => []TypeOK
BY ShapeInvariant, PTL

-----------------------------------------------------------------------------
(* What a visit does to the queries: the one at hand is begun or extended,  *)
(* and every other stays.                                                   *)

LEMMA Listed == TypeOK => \A i \in DOMAIN plan : plan[i] \in Query /\ plan[i] \in Queries
BY DEF TypeOK, Queries

LEMMA QueriesType == TypeOK => \A q \in Queries : q \in Query
BY DEF TypeOK, Queries

LEMMA OpenIsListed == TypeOK /\ open # NoQuery => open \in Query /\ open \in Queries
BY DEF TypeOK, Queries

LEMMA Appended ==
    ASSUME TypeOK, open # NoQuery, plan' = Append(plan, open)
    PROVE  {plan'[i] : i \in DOMAIN plan'} = {plan[i] : i \in DOMAIN plan} \cup {open}
<1>1. open \in Query /\ plan \in Seq(Query)  BY DEF TypeOK
<1>2. Len(plan') = Len(plan) + 1 /\ DOMAIN plan' = 1..(Len(plan) + 1)
      /\ DOMAIN plan = 1..Len(plan) /\ Len(plan) \in Nat  BY <1>1
<1>3. \A i \in DOMAIN plan : plan'[i] = plan[i]  BY <1>1, <1>2
<1>4. plan'[Len(plan) + 1] = open  BY <1>1
<1>5. \A i \in DOMAIN plan' : i \in DOMAIN plan \/ i = Len(plan) + 1  BY <1>2
<1>6. \A i \in DOMAIN plan : i \in DOMAIN plan'  BY <1>2
<1>7. Len(plan) + 1 \in DOMAIN plan'  BY <1>2
<1> QED  BY <1>3, <1>4, <1>5, <1>6, <1>7

LEMMA FinishKeepsQueries == TypeOK /\ Finish => Queries' = Queries
<1> SUFFICES ASSUME TypeOK, Finish PROVE Queries' = Queries  OBVIOUS
<1>1. CASE open = NoQuery  BY <1>1 DEF Finish, Queries
<1>2. CASE open # NoQuery
  <2>1. plan' = Append(plan, open) /\ open' = NoQuery  BY <1>2 DEF Finish
  <2> QED  BY <1>2, <2>1, Appended DEF Queries
<1> QED  BY <1>1, <1>2

LEMMA VisitQueries ==
    ASSUME TypeOK, LoopShape, NEW a \in Address, Begin(a) \/ Join(a) \/ Split(a)
    PROVE  /\ open' \in Queries' /\ Queries' \subseteq Queries \cup {open'}
           /\ \/ open' = NewQuery(a) /\ Queries \subseteq Queries'
              \/ /\ open # NoQuery /\ Close(open, a) /\ Fits(open, a)
                 /\ open' = Extended(open, a)
                 /\ \A q \in Queries : q \in Queries' \/ q = open
<1>1. open' # NoQuery  BY VisitOrder, NewQueryType, ExtendedType DEF Begin, Join, Split
<1>2. CASE Begin(a)  BY <1>1, <1>2 DEF Begin, Queries
<1>3. CASE Join(a)  BY <1>1, <1>3 DEF Join, Queries
<1>4. CASE Split(a)
  <2>1. open # NoQuery /\ plan' = Append(plan, open)  BY <1>4 DEF Split
  <2>2. {plan'[i] : i \in DOMAIN plan'} = {plan[i] : i \in DOMAIN plan} \cup {open}
    BY <2>1, Appended
  <2> QED  BY <1>1, <1>4, <2>1, <2>2 DEF Split, Queries
<1> QED  BY <1>2, <1>3, <1>4

-----------------------------------------------------------------------------
(* No variable is lost.                                                     *)

LEMMA VisitLosesNothing ==
    ASSUME TypeOK, LoopShape, NothingLost,
           NEW a \in Address, Begin(a) \/ Join(a) \/ Split(a)
    PROVE  NothingLost'
<1> SUFFICES ASSUME NEW v \in asked'
             PROVE  \/ \E q \in Queries' : v \in q.vars
                    \/ v \in wanted' /\ (pc' = "idle" \/ v.addr \in todo')
  BY DEF NothingLost
<1>1. Visit(a)  BY DEF Begin, Join, Split
<1>2. v \in asked /\ wanted' = wanted /\ pc = "build" /\ todo' = todo \ {a}
  BY <1>1 DEF Visit
<1>3. Group(a) \subseteq open'.vars  BY VisitQueries DEF NewQuery, Extended
<1>4. CASE \E q \in Queries : v \in q.vars
  <2>1. PICK q \in Queries : v \in q.vars  BY <1>4
  <2>2. q \in Queries' \/ (q = open /\ open' = Extended(open, a))  BY VisitQueries
  <2>3. q = open /\ open' = Extended(open, a) => v \in open'.vars  BY <2>1 DEF Extended
  <2> QED  BY <2>1, <2>2, <2>3, VisitQueries
<1>5. CASE v \in wanted /\ v.addr \in todo
  <2>1. v.addr = a => v \in open'.vars  BY <1>3, <1>5 DEF Group
  <2> QED  BY <1>2, <1>5, <2>1, VisitQueries
<1> QED  BY <1>2, <1>4, <1>5 DEF NothingLost

LEMMA OthersLoseNothing ==
    ASSUME TypeOK, NothingLost,
           (\E v \in Variables : Ask(v)) \/ Start \/ Finish \/ UNCHANGED vars
    PROVE  NothingLost'
<1>1. ASSUME NEW v \in Variables, Ask(v) PROVE NothingLost'
  BY <1>1 DEF Ask, NothingLost, Queries
<1>2. ASSUME Start PROVE NothingLost'
  BY <1>2 DEF Start, NothingLost, Queries
<1>3. ASSUME Finish PROVE NothingLost'
  <2>1. Queries' = Queries /\ asked' = asked  BY <1>3, FinishKeepsQueries DEF Finish
  <2>2. \A v \in asked : \E q \in Queries : v \in q.vars  BY <1>3 DEF Finish, NothingLost
  <2> QED  BY <2>1, <2>2 DEF NothingLost
<1>4. ASSUME UNCHANGED vars PROVE NothingLost'
  BY <1>4 DEF vars, NothingLost, Queries
<1> QED  BY <1>1, <1>2, <1>3, <1>4

(* For any variables, limits and builder, and however often the process is  *)
(* started: a variable asked for is in a query when no builder runs, unless *)
(* it was asked for since.                                                  *)
THEOREM NothingIsLost == Spec => []NothingLost
<1>1. Init => NothingLost  BY DEF Init, NothingLost
<1>2. (TypeOK /\ LoopShape) /\ NothingLost /\ [Next]_vars => NothingLost'
  BY VisitLosesNothing, OthersLoseNothing DEF Next
<1> QED  BY <1>1, <1>2, ShapeInvariant, PTL DEF Spec

-----------------------------------------------------------------------------
(* Where the variables of a query come from: they were asked for, one wide  *)
(* when they are coils; the map knows the longest at each address, which is *)
(* the count of one of them.                                                *)

Reached(a) == \E v \in Group(a) : v.width = longest[a]

Origin ==
    /\ wanted \subseteq asked
    /\ \A q \in Queries : q.vars \subseteq asked
    /\ builder \in CoilBuilders => \A v \in asked : v.width = 1
    /\ \A v \in wanted : v.width <= longest[v.addr] /\ Reached(v.addr)
    /\ \A a \in Address : longest[a] = 0 \/ Reached(a)

LEMMA AskOrigin ==
    ASSUME TypeOK, LoopShape, Origin, NEW v \in Variables, Ask(v)
    PROVE  Origin'
<1> USE DEF Ask
<1>1. v.addr \in Address /\ v.width \in Nat \ {0}  BY VariableType
<1>2. /\ longest' = [longest EXCEPT ![v.addr] = Longest(longest[v.addr], v.width)]
      /\ longest \in [Address -> Nat]
  BY DEF TypeOK
<1>3. wanted' = wanted \cup {v} /\ wanted \subseteq Variables  BY DEF TypeOK
<1>4. \A u \in wanted : u.addr \in Address /\ u.width \in Nat  BY <1>3, VariableType
<1>5. longest'[v.addr] = Longest(longest[v.addr], v.width)  BY <1>1, <1>2
<1>6. \A a \in Address : a # v.addr => longest'[a] = longest[a]  BY <1>2
<1>7. longest[v.addr] \in Nat /\ longest'[v.addr] >= longest[v.addr]
      /\ longest'[v.addr] >= v.width /\ longest'[v.addr] \in Nat
  <2>1. longest[v.addr] \in Nat /\ v.width \in Nat  BY <1>1, <1>2
  <2> HIDE DEF Ask
  <2> QED  BY <1>5, <2>1, LongestType
<1>8. \A a \in Address : a # v.addr /\ Reached(a) => Reached(a)'
  BY <1>3, <1>6 DEF Reached, Group
<1>9. Reached(v.addr)'
  <2>1. CASE longest[v.addr] < v.width  BY <1>3, <1>5, <2>1 DEF Reached, Group, Longest
  <2>2. CASE ~(longest[v.addr] < v.width)
    <3>1. longest[v.addr] # 0  BY <1>1, <1>7, <2>2
    <3>2. longest'[v.addr] = longest[v.addr]  BY <1>5, <2>2 DEF Longest
    <3>3. PICK u \in Group(v.addr) : u.width = longest[v.addr]
      BY <1>1, <3>1 DEF Origin, Reached
    <3> QED  BY <1>3, <3>2, <3>3 DEF Reached, Group
  <2> QED  BY <2>1, <2>2
<1>10. \A u \in wanted' : u.width <= longest'[u.addr] /\ Reached(u.addr)'
  <2> SUFFICES ASSUME NEW u \in wanted'
               PROVE  u.width <= longest'[u.addr] /\ Reached(u.addr)'
    OBVIOUS
  <2>1. CASE u.addr = v.addr
    <3>1. u = v \/ u.width <= longest[v.addr]  BY <1>3, <2>1 DEF Origin
    <3>2. u.width \in Nat  BY <1>1, <1>3, <1>4
    <3>3. u.width <= longest'[v.addr]  BY <1>1, <1>7, <3>1, <3>2
    <3> QED  BY <1>9, <2>1, <3>3
  <2>2. CASE u.addr # v.addr
    <3>1. u \in wanted /\ u.addr \in Address  BY <1>3, <1>4, <2>2
    <3> QED  BY <1>6, <1>8, <2>2, <3>1 DEF Origin
  <2> QED  BY <2>1, <2>2
<1>11. \A a \in Address : longest'[a] = 0 \/ Reached(a)'
  BY <1>6, <1>8, <1>9 DEF Origin
<1>12. wanted' \subseteq asked' /\ (\A q \in Queries' : q.vars \subseteq asked')
       /\ (builder' \in CoilBuilders => \A u \in asked' : u.width = 1)
  BY DEF Origin, Queries
<1> QED  BY <1>10, <1>11, <1>12 DEF Origin

LEMMA VisitOrigin ==
    ASSUME TypeOK, LoopShape, Origin, NEW a \in Address, Begin(a) \/ Join(a) \/ Split(a)
    PROVE  Origin'
<1>1. Visit(a)  BY DEF Begin, Join, Split
<1>2. UNCHANGED << builder, asked, wanted, longest >>  BY <1>1 DEF Visit
<1>3. Group(a) \subseteq asked  BY DEF Origin, Group
<1>4. open # NoQuery => open.vars \subseteq asked  BY OpenIsListed DEF Origin
<1>5. open'.vars \subseteq asked
  BY <1>3, <1>4, VisitQueries DEF NewQuery, Extended
<1>6. \A q \in Queries' : q.vars \subseteq asked  BY <1>5, VisitQueries DEF Origin
<1> QED  BY <1>2, <1>6 DEF Origin, Reached, Group

LEMMA FinishOrigin ==
    ASSUME TypeOK, LoopShape, Origin, Finish
    PROVE  Origin'
<1>1. Queries' = Queries /\ UNCHANGED << builder, asked >>
  BY FinishKeepsQueries DEF Finish
<1>2. CASE builder \in Keepers
  <2>1. UNCHANGED << wanted, longest >>  BY <1>2 DEF Finish
  <2> QED  BY <1>1, <2>1 DEF Origin, Reached, Group
<1>3. CASE builder \notin Keepers
  <2>1. wanted' = {} /\ longest' = [b \in Address |-> 0]  BY <1>3 DEF Finish
  <2> QED  BY <1>1, <2>1 DEF Origin
<1> QED  BY <1>2, <1>3

LEMMA OriginInvariant == Spec => []Origin
<1>1. Init => Origin
  BY DEF Init, Origin, Queries
<1>2. ASSUME TypeOK, LoopShape, Origin, [Next]_vars PROVE Origin'
  <2>1. CASE Start  BY <1>2, <2>1 DEF Start, Origin, Queries, Reached, Group
  <2>2. CASE UNCHANGED vars  BY <1>2, <2>2 DEF vars, Origin, Queries, Reached, Group
  <2> QED  BY <1>2, <2>1, <2>2, AskOrigin, VisitOrigin, FinishOrigin DEF Next
<1> QED  BY <1>1, <1>2, ShapeInvariant, PTL DEF Spec

-----------------------------------------------------------------------------
(* What holds of every query as it is begun and extended holds of the plan. *)

(* The steps that are no visit begin no query and extend none.              *)
LEMMA OtherQueries ==
    ASSUME TypeOK, (\E v \in Variables : Ask(v)) \/ Start \/ Finish \/ UNCHANGED vars
    PROVE  Queries' = Queries /\ builder' = builder
<1>1. CASE Finish  BY <1>1, FinishKeepsQueries DEF Finish
<1>2. CASE (\E v \in Variables : Ask(v)) \/ Start \/ UNCHANGED vars
  BY <1>2 DEF Ask, Start, vars, Queries
<1> QED  BY <1>1, <1>2

LEMMA WantedAt ==
    ASSUME TypeOK, LoopShape, Origin, NEW a \in todo
    PROVE  /\ a \in Nat /\ longest[a] \in Nat /\ Reached(a)
           /\ \A v \in Group(a) : v.addr = a /\ v.width \in Nat /\ v.width <= longest[a]
           /\ builder \in CoilBuilders => longest[a] = 1
<1>1. a \in Address /\ a \in Nat /\ longest[a] \in Nat  BY AddressType DEF TypeOK
<1>2. Reached(a)  BY DEF LoopShape, Origin
<1>3. \A v \in Group(a) : v \in wanted /\ v \in Variables /\ v.addr = a  BY DEF Group, TypeOK
<1>4. \A v \in Group(a) : v.addr = a /\ v.width \in Nat /\ v.width <= longest[a]
  BY <1>3, VariableType DEF Origin
<1>5. builder \in CoilBuilders => longest[a] = 1  BY <1>2, <1>3 DEF Reached, Origin
<1> QED  BY <1>1, <1>2, <1>4, <1>5

(* A query that is extended still serves the variables it had: what it      *)
(* begins behind them ends behind them, but for a TCP register that         *)
(* encloses it.                                                             *)
LEMMA ExtendedServes ==
    ASSUME TypeOK, LoopShape, Origin, VariablesServed, NEW a \in todo,
           open # NoQuery, Close(open, a)
    PROVE  \A v \in Extended(open, a).vars :
               Serves(Extended(open, a), v) \/ Encloses(Extended(open, a), v)
<1> DEFINE new == Extended(open, a)
<1>1. /\ open \in Queries /\ open.start \in Nat /\ open.count \in Nat
      /\ open.vars \subseteq Variables /\ Behind(open, a)
  BY OpenIsListed DEF Query, LoopShape
<1>2. a \in Nat /\ longest[a] \in Nat  BY WantedAt
<1>3. new.start = open.start /\ End(new) = a + longest[a] /\ new.vars = open.vars \cup Group(a)
  BY <1>1, <1>2 DEF Extended, End
<1> SUFFICES ASSUME NEW v \in new.vars PROVE Serves(new, v) \/ Encloses(new, v)  OBVIOUS
<1>4. CASE v \in Group(a)
  <2>1. v.addr = a /\ v.width \in Nat /\ v.width <= longest[a]  BY <1>4, WantedAt
  <2>2. open.start <= a  BY <1>1, <1>2 DEF Behind
  <2> QED  BY <1>2, <1>3, <2>1, <2>2 DEF Serves
<1>5. CASE v \in open.vars /\ Encloses(open, v)
  BY <1>3, <1>5 DEF Encloses
<1>6. CASE v \in open.vars /\ Serves(open, v)
  <2>1. v.addr \in Nat /\ v.width \in Nat /\ v.addr < a  BY <1>1, <1>6, VariableType DEF Behind
  <2>2. open.start <= v.addr /\ v.addr + v.width <= open.start + open.count
    BY <1>6 DEF Serves, End
  <2>3. CASE builder \in CoilBuilders
    <3>1. v.width = 1  BY <1>1, <1>6, <2>3 DEF Origin
    <3>2. v.addr + v.width <= a + longest[a]  BY <1>2, <2>1, <3>1
    <3> QED  BY <1>3, <2>2, <3>2 DEF Serves
  <2>4. CASE builder \notin CoilBuilders /\ builder # "ipRegister"
    <3>1. open.start + open.count = a  BY <2>4 DEF Close, CoilBuilders
    <3>2. v.addr + v.width <= a + longest[a]  BY <1>1, <1>2, <2>1, <2>2, <3>1
    <3> QED  BY <1>3, <2>2, <3>2 DEF Serves
  <2>5. CASE builder = "ipRegister"
    <3>1. PICK u \in Group(a) : u.width = longest[a]  BY WantedAt DEF Reached
    <3>2. u.addr = a /\ u \in new.vars  BY <1>3, WantedAt
    <3>3. CASE v.addr + v.width <= a + longest[a]  BY <1>3, <2>2, <3>3 DEF Serves
    <3>4. CASE ~(v.addr + v.width <= a + longest[a])
      <4>1. u.addr + u.width < v.addr + v.width  BY <1>2, <2>1, <3>1, <3>2, <3>4
      <4> QED  BY <2>1, <2>5, <3>2, <4>1 DEF Encloses
    <3> QED  BY <3>3, <3>4
  <2> QED  BY <2>3, <2>4, <2>5
<1> QED  BY <1>1, <1>3, <1>4, <1>5, <1>6 DEF VariablesServed

LEMMA NewServes ==
    ASSUME TypeOK, LoopShape, Origin, NEW a \in todo
    PROVE  \A v \in NewQuery(a).vars : Serves(NewQuery(a), v)
BY WantedAt DEF NewQuery, Serves, End

(* For any variables and limits: every variable is served by the queries it *)
(* is in, but for a TCP register that encloses a later one.                 *)
THEOREM VariablesAreServed == Spec => []VariablesServed
<1>1. Init => VariablesServed  BY DEF Init, VariablesServed, Queries
<1>2. ASSUME TypeOK, LoopShape, Origin, VariablesServed, [Next]_vars PROVE VariablesServed'
  <2>1. CASE (\E v \in Variables : Ask(v)) \/ Start \/ Finish \/ UNCHANGED vars
    BY <1>2, <2>1, OtherQueries DEF VariablesServed, Encloses
  <2>2. ASSUME NEW a \in Address, Begin(a) \/ Join(a) \/ Split(a) PROVE VariablesServed'
    <3>1. Visit(a)  BY <2>2 DEF Begin, Join, Split
    <3>2. a \in todo /\ builder' = builder  BY <3>1 DEF Visit
    <3>3. \A v \in open'.vars : Serves(open', v) \/ Encloses(open', v)
      BY <1>2, <2>2, <3>2, VisitQueries, NewServes, ExtendedServes
    <3>4. \A q \in Queries' : \A v \in q.vars : Serves(q, v) \/ Encloses(q, v)
      BY <1>2, <2>2, <3>3, VisitQueries DEF VariablesServed
    <3> QED  BY <3>2, <3>4 DEF VariablesServed, Encloses
  <2> QED  BY <1>2, <2>1, <2>2 DEF Next
<1> QED  BY <1>1, <1>2, ShapeInvariant, OriginInvariant, PTL DEF Spec

(* For any variables and limits, over TCP with one coil more than the       *)
(* configured number: only a variable that is alone too long for a query    *)
(* makes one too long.                                                      *)
THEOREM SizesAreKept == Spec => []SizesKept
<1>1. Init => SizesKept  BY DEF Init, SizesKept, Queries
<1>2. ASSUME TypeOK, LoopShape, Origin, SizesKept, [Next]_vars PROVE SizesKept'
  <2>1. CASE (\E v \in Variables : Ask(v)) \/ Start \/ Finish \/ UNCHANGED vars
    BY <1>2, <2>1, OtherQueries DEF SizesKept, Limit
  <2>2. ASSUME NEW a \in Address, Begin(a) \/ Join(a) \/ Split(a) PROVE SizesKept'
    <3>1. Visit(a)  BY <2>2 DEF Begin, Join, Split
    <3>2. a \in todo /\ builder' = builder  BY <3>1 DEF Visit
    <3>3. \A u, v \in NewQuery(a).vars : u.addr = v.addr
      BY DEF NewQuery, Group
    <3>4. ASSUME open # NoQuery, Fits(open, a) PROVE Extended(open, a).count <= Limit
      <4>1. a \in Nat /\ longest[a] \in Nat /\ (builder \in CoilBuilders => longest[a] = 1)
        BY <1>2, <3>2, WantedAt
      <4>2. open.start \in Nat /\ MaxCoil \in Nat /\ MaxRegister \in Nat
        BY <1>2, <3>4, OpenIsListed, PlanAssumption DEF Query
      <4>3. Extended(open, a).count = a + longest[a] - open.start  BY DEF Extended
      <4>4. CASE builder \in {"ipCoil", "ipDigital"}
        BY <3>4, <4>1, <4>2, <4>3, <4>4 DEF Fits, Limit, CoilBuilders
      <4>5. CASE builder = "rtuCoil"
        BY <3>4, <4>1, <4>2, <4>3, <4>5 DEF Fits, Limit, CoilBuilders
      <4>6. CASE builder \notin CoilBuilders
        BY <3>4, <4>3, <4>6 DEF Fits, Limit, CoilBuilders
      <4> QED  BY <4>4, <4>5, <4>6 DEF CoilBuilders
    <3>5. open'.count <= Limit \/ \A u, v \in open'.vars : u.addr = v.addr
      BY <1>2, <2>2, <3>3, <3>4, VisitQueries
    <3>6. \A q \in Queries' : q.count <= Limit \/ \A u, v \in q.vars : u.addr = v.addr
      BY <1>2, <2>2, <3>5, VisitQueries DEF SizesKept
    <3> QED  BY <3>2, <3>6 DEF SizesKept, Limit
  <2> QED  BY <1>2, <2>1, <2>2 DEF Next
<1> QED  BY <1>1, <1>2, ShapeInvariant, OriginInvariant, PTL DEF Spec

-----------------------------------------------------------------------------
(* One query for each variable.                                             *)

(* What the builder has still to place, or may be started to place, is in   *)
(* no query yet.                                                            *)
Unplaced ==
    builder \notin Keepers =>
        \A v \in wanted : pc = "idle" \/ v.addr \in todo => \A q \in Queries : v \notin q.vars

LEMMA AppendedApart ==
    ASSUME TypeOK, PolledOnce, builder \notin Keepers, open # NoQuery,
           plan' = Append(plan, open)
    PROVE  /\ \A i, j \in DOMAIN plan' : i # j => plan'[i].vars \cap plan'[j].vars = {}
           /\ \A i \in DOMAIN plan' : plan'[i] \in Queries
<1>1. open \in Query /\ plan \in Seq(Query)  BY DEF TypeOK
<1>2. /\ DOMAIN plan' = 1..(Len(plan) + 1) /\ DOMAIN plan = 1..Len(plan) /\ Len(plan) \in Nat
      /\ plan'[Len(plan) + 1] = open /\ \A i \in DOMAIN plan : plan'[i] = plan[i]
  BY <1>1
<1>3. \A i \in DOMAIN plan' : i \in DOMAIN plan \/ i = Len(plan) + 1  BY <1>2
<1>4. \A i \in DOMAIN plan' : plan'[i] \in Queries  BY <1>2, <1>3 DEF Queries
<1>5. ASSUME NEW i \in DOMAIN plan', NEW j \in DOMAIN plan', i # j
      PROVE  plan'[i].vars \cap plan'[j].vars = {}
  <2>1. CASE i \in DOMAIN plan /\ j \in DOMAIN plan
    BY <1>2, <1>5, <2>1 DEF PolledOnce
  <2>2. CASE i \in DOMAIN plan /\ j = Len(plan) + 1
    BY <1>2, <2>2 DEF PolledOnce
  <2>3. CASE i = Len(plan) + 1 /\ j \in DOMAIN plan
    BY <1>2, <2>3 DEF PolledOnce
  <2> QED  BY <1>3, <1>5, <2>1, <2>2, <2>3
<1> QED  BY <1>4, <1>5

LEMMA VisitUnplaced ==
    ASSUME TypeOK, LoopShape, Unplaced, NEW a \in Address, Begin(a) \/ Join(a) \/ Split(a)
    PROVE  Unplaced'
<1>1. Visit(a)  BY DEF Begin, Join, Split
<1>2. /\ builder' = builder /\ wanted' = wanted /\ pc' = "build" /\ a \in todo
      /\ todo' = todo \ {a}
  BY <1>1 DEF Visit
<1> SUFFICES ASSUME builder \notin Keepers, NEW v \in wanted, v.addr \in todo',
                    NEW q \in Queries'
             PROVE  v \notin q.vars
  BY <1>2 DEF Unplaced
<1>3. v.addr \in todo /\ v.addr # a  BY <1>2
<1>4. \A r \in Queries : v \notin r.vars  BY <1>3 DEF Unplaced
<1>5. v \notin Group(a)  BY <1>3 DEF Group
<1>6. v \notin open'.vars
  BY <1>4, <1>5, VisitQueries, OpenIsListed DEF NewQuery, Extended
<1> QED  BY <1>4, <1>6, VisitQueries

LEMMA UnplacedKept ==
    ASSUME TypeOK, LoopShape, Origin, Unplaced, [Next]_vars
    PROVE  Unplaced'
<1>1. ASSUME NEW v \in Variables, Ask(v) PROVE Unplaced'
  <2>1. \A q \in Queries : v \notin q.vars  BY <1>1 DEF Ask, Origin
  <2> QED  BY <1>1, <2>1 DEF Ask, Unplaced, Queries
<1>2. CASE Start  BY <1>2 DEF Start, Unplaced, Queries
<1>3. CASE Finish  BY <1>3 DEF Finish, Unplaced
<1>4. CASE UNCHANGED vars  BY <1>4 DEF vars, Unplaced, Queries
<1> QED  BY <1>1, <1>2, <1>3, <1>4, VisitUnplaced DEF Next

(* The queries of the list, and the one at hand, have no variable in common.*)
LEMMA VisitPollsOnce ==
    ASSUME TypeOK, LoopShape, Unplaced, PolledOnce,
           NEW a \in Address, Begin(a) \/ Join(a) \/ Split(a)
    PROVE  PolledOnce'
<1>1. Visit(a)  BY DEF Begin, Join, Split
<1>2. builder' = builder /\ pc = "build" /\ a \in todo  BY <1>1 DEF Visit
<1> SUFFICES ASSUME builder \notin Keepers
             PROVE  /\ \A i, j \in DOMAIN plan' :
                           i # j => plan'[i].vars \cap plan'[j].vars = {}
                    /\ \A i \in DOMAIN plan' : plan'[i].vars \cap open'.vars = {}
  BY <1>2 DEF PolledOnce
<1>3. \A q \in Queries : q.vars \cap Group(a) = {}  BY <1>2 DEF Unplaced, Group
<1>4. \A i \in DOMAIN plan : plan[i].vars \cap Group(a) = {}  BY <1>3, Listed
<1>5. CASE Begin(a)
  <2>1. plan' = plan /\ open'.vars = Group(a)  BY <1>5 DEF Begin, NewQuery
  <2> QED  BY <1>4, <2>1 DEF PolledOnce
<1>6. CASE Join(a)
  <2>1. plan' = plan /\ open # NoQuery /\ open'.vars = open.vars \cup Group(a)
    BY <1>6 DEF Join, Extended
  <2> QED  BY <1>4, <2>1 DEF PolledOnce
<1>7. CASE Split(a)
  <2>1. open # NoQuery /\ plan' = Append(plan, open) /\ open'.vars = Group(a)
    BY <1>7 DEF Split, NewQuery
  <2>2. /\ \A i, j \in DOMAIN plan' : i # j => plan'[i].vars \cap plan'[j].vars = {}
        /\ \A i \in DOMAIN plan' : plan'[i] \in Queries
    BY <2>1, AppendedApart
  <2> QED  BY <1>3, <2>1, <2>2
<1> QED  BY <1>5, <1>6, <1>7

(* With the map cleared and no variable asked for twice, however often the  *)
(* process is started: no variable is in two queries.                       *)
THEOREM EachIsPolledOnce == Spec => []PolledOnce
<1>1. Init => PolledOnce /\ Unplaced
  BY DEF Init, PolledOnce, Unplaced
<1>2. ASSUME TypeOK, LoopShape, Origin, PolledOnce, Unplaced, [Next]_vars
      PROVE  PolledOnce' /\ Unplaced'
  <2> SUFFICES PolledOnce'  BY <1>2, UnplacedKept
  <2>1. CASE (\E v \in Variables : Ask(v)) \/ Start \/ UNCHANGED vars
    BY <1>2, <2>1 DEF Ask, Start, vars, PolledOnce
  <2>2. CASE Finish
    <3>1. builder' = builder /\ open' = NoQuery  BY <2>2 DEF Finish
    <3>2. CASE open = NoQuery  BY <1>2, <2>2, <3>2 DEF Finish, PolledOnce
    <3>3. CASE open # NoQuery
      <4>1. plan' = Append(plan, open)  BY <2>2, <3>3 DEF Finish
      <4> QED  BY <1>2, <3>1, <3>3, <4>1, AppendedApart DEF PolledOnce
    <3> QED  BY <3>2, <3>3
  <2> QED  BY <1>2, <2>1, <2>2, VisitPollsOnce DEF Next
<1> QED  BY <1>1, <1>2, ShapeInvariant, OriginInvariant, PTL DEF Spec

-----------------------------------------------------------------------------
(* PointPath, from the arithmetic up.  First, numbers in words.             *)

LEMMA ProductType ==
    ASSUME NEW m \in Nat \ {0}, NEW n \in Nat \ {0}
    PROVE  m * n \in Nat \ {0} /\ n <= m * n
BY SMT

LEMMA Division ==
    ASSUME NEW x \in Int, NEW d \in Nat \ {0}
    PROVE  /\ x \div d \in Int /\ x % d \in 0..(d - 1)
           /\ x = d * (x \div d) + (x % d)
BY SMT

LEMMA ProductGrows ==
    ASSUME NEW d \in Nat \ {0}, NEW i \in Int, NEW j \in Int, i < j
    PROVE  d * i \in Int /\ d * j \in Int /\ d * i + d <= d * j
<1>1. j - i - 1 \in Nat  OBVIOUS
<1>2. d * (j - i - 1) \in Nat  BY <1>1
<1>3. d * (j - i - 1) = d * j - d * i - d  BY SMT
<1> QED  BY <1>2, <1>3

LEMMA Distribution ==
    ASSUME NEW d \in Int, NEW i \in Int, NEW j \in Int
    PROVE  d * (i + j) = d * i + d * j
BY SMT

(* There is one quotient and one remainder.                                 *)
LEMMA OneQuotient ==
    ASSUME NEW d \in Nat \ {0}, NEW k \in Int, NEW r \in 0..(d - 1)
    PROVE  (d * k + r) \div d = k /\ (d * k + r) % d = r
<1> DEFINE x == d * k + r
<1>1. x \in Int  OBVIOUS
<1> HIDE DEF x
<1>2. x \div d \in Int /\ x % d \in 0..(d - 1) /\ x = d * (x \div d) + (x % d)  BY <1>1, Division
<1>3. x = d * k + r  BY DEF x
<1>4. ~(x \div d < k)
  <2> SUFFICES ASSUME x \div d < k PROVE FALSE  OBVIOUS
  <2>1. d * (x \div d) + d <= d * k /\ d * (x \div d) \in Int /\ d * k \in Int  BY <1>2, ProductGrows
  <2> QED  BY <2>1, <1>2, <1>3
<1>5. ~(k < x \div d)
  <2> SUFFICES ASSUME k < x \div d PROVE FALSE  OBVIOUS
  <2>1. d * k + d <= d * (x \div d) /\ d * (x \div d) \in Int /\ d * k \in Int  BY <1>2, ProductGrows
  <2> QED  BY <2>1, <1>2, <1>3
<1>9. x \div d \in Int  BY <1>2
<1>6. x \div d = k  BY <1>9, <1>4, <1>5
<1>7. d * k \in Int  OBVIOUS
<1>8. x % d = r  BY <1>2, <1>3, <1>6, <1>7
<1> QED  BY <1>6, <1>8 DEF x

LEMMA QuotientRange ==
    ASSUME NEW x \in Nat, NEW d \in Nat \ {0}
    PROVE  x \div d \in Nat /\ \A k \in Nat : x < d * k => x \div d \in 0..(k - 1)
<1> DEFINE q == x \div d
<1>1. q \in Int /\ x % d \in 0..(d - 1) /\ x = d * q + (x % d)  BY Division
<1> HIDE DEF q
<1>2. ~(q < 0)
  <2> SUFFICES ASSUME q < 0 PROVE FALSE  OBVIOUS
  <2>1. d * q + d <= d * 0 /\ d * q \in Int  BY <1>1, ProductGrows
  <2> QED  BY <2>1, <1>1
<1>3. ASSUME NEW k \in Nat, x < d * k PROVE q < k
  <2> SUFFICES ASSUME ~(q < k) PROVE FALSE  OBVIOUS
  <2>1. q = k \/ k < q  BY <1>1
  <2>2. d * k \in Int /\ d * k <= d * q /\ d * q \in Int
    <3>1. CASE q = k  BY <3>1
    <3>2. CASE k < q  BY <3>2, <1>1, ProductGrows
    <3> QED  BY <2>1, <3>1, <3>2
  <2> QED  BY <2>2, <1>1, <1>3
<1> QED  BY <1>1, <1>2, <1>3 DEF q

(* The remainder by a product: one more digit.                              *)
LEMMA OneMoreDigit ==
    ASSUME NEW x \in Int, NEW d \in Nat \ {0}, NEW e \in Nat \ {0}
    PROVE  x % (d * e) = (x % d) + d * ((x \div d) % e)
<1> DEFINE q == x \div d
<1>1. q \in Int /\ x % d \in 0..(d - 1) /\ x = d * q + (x % d)  BY Division
<1> HIDE DEF q
<1>2. q \div e \in Int /\ q % e \in 0..(e - 1) /\ q = e * (q \div e) + (q % e)  BY <1>1, Division
<1> DEFINE r == d * (q % e) + (x % d)
<1>3. d * (q % e) \in Int /\ 0 <= d * (q % e)  BY <1>2
<1>4. d * (q % e) + d <= d * e /\ d * e \in Int  BY <1>2, ProductGrows
<1>5. d * e \in Nat \ {0}  BY ProductType
<1>6. r \in 0..(d * e - 1)  BY <1>1, <1>3, <1>4, <1>5
<1>7. x = (d * e) * (q \div e) + r
  <2>1. d * (e * (q \div e) + (q % e)) = d * (e * (q \div e)) + d * (q % e)
    <3>1. e * (q \div e) \in Int /\ q % e \in Int  BY <1>2
    <3> QED  BY <3>1, Distribution
  <2>3. x = d * (e * (q \div e) + (q % e)) + (x % d)  BY <1>1, <1>2, Zenon
  <2>4. (d * e) * (q \div e) \in Int  BY <1>2, <1>5
  <2>2. d * (e * (q \div e)) = (d * e) * (q \div e)  BY <1>2
  <2>5. x = d * (e * (q \div e)) + d * (q % e) + (x % d)  BY <2>1, <2>3
  <2>6. x % d \in Int  BY <1>1
  <2> HIDE DEF r
  <2>7. r = d * (q % e) + (x % d)  BY DEF r
  <2> QED  BY <2>2, <2>4, <2>5, <2>6, <2>7, <1>3
<1> HIDE DEF r
<1>8. x % (d * e) = r  BY <1>2, <1>5, <1>6, <1>7, OneQuotient
<1> QED  BY <1>8, <1>3, <1>1 DEF r, q

LEMMA BaseType == Base \in Nat \ {0} /\ 1 < Base /\ Word \in Nat \ {0} /\ ByteBits \in Nat \ {0}
BY ByteAssumption, ProductType DEF Word

LEMMA WeightType ==
    /\ Weight \in Seq(Nat \ {0}) /\ Len(Weight) = 4
    /\ Weight[1] = 1 /\ Weight[2] = Word /\ Weight[3] = Weight[2] * Word /\ Weight[4] = Weight[3] * Word
    /\ \A i \in 1..4 : Weight[i] \in Nat \ {0} /\ Span(i) \in Nat \ {0} /\ Span(i) = Weight[i] * Word
<1>1. Word * Word \in Nat \ {0} /\ Word * Word * Word \in Nat \ {0}  BY BaseType, ProductType
<1>2. /\ Weight[1] = 1 /\ Weight[2] = Word /\ Weight[3] = Word * Word /\ Weight[4] = Word * Word * Word
      /\ Len(Weight) = 4
  BY DEF Weight
<1>3. \A i \in 1..4 : Weight[i] \in Nat \ {0}  BY <1>1, <1>2, BaseType
<1>4. \A i \in 1..4 : Span(i) \in Nat \ {0}  BY <1>3, BaseType, ProductType DEF Span
<1>5. Weight \in Seq(Nat \ {0})  BY <1>1, BaseType DEF Weight
<1> QED  BY <1>2, <1>3, <1>4, <1>5 DEF Span

Sizes == {1, 2, 4}

LEMMA WordsType ==
    ASSUME NEW x \in Int, NEW n \in Sizes
    PROVE  /\ Words(x, n) \in [1..n -> 0..(Word - 1)]
           /\ Words(x, n) \in Seq(0..(Word - 1)) /\ Len(Words(x, n)) = n
<1>1. \A i \in 1..n : (x \div Weight[i]) \in Int
  <2> TAKE i \in 1..n
  <2>1. Weight[i] \in Nat \ {0}
    <3>1. i \in 1..4  BY DEF Sizes
    <3> QED  BY <3>1, WeightType
  <2> QED  BY <2>1, Division
<1>2. \A i \in 1..n : (x \div Weight[i]) % Word \in 0..(Word - 1)  BY <1>1, BaseType, Division
<1>3. Words(x, n) \in [1..n -> 0..(Word - 1)]  BY <1>2 DEF Words
<1>4. n \in Nat  BY DEF Sizes
<1> DEFINE ws == Words(x, n)  W == 0..(Word - 1)
<1>5. Words(x, n) \in Seq(W)
  <2> HIDE DEF ws, W
  <2>1. ws \in [1..n -> W]  BY <1>3 DEF ws, W
  <2>2. ws \in Seq(W)  BY <2>1, <1>4
  <2> QED  BY <2>2 DEF ws
<1>6. Len(Words(x, n)) = n  BY <1>3, <1>4, <1>5
<1> QED  BY <1>3, <1>5, <1>6

(* The words of a number tell it, as far as they can.                       *)
LEMMA NumberOfWords ==
    ASSUME NEW x \in Int, NEW n \in Sizes
    PROVE  Number(Words(x, n)) = x % Span(n)
<1> DEFINE ws == Words(x, n)
<1>1. Len(ws) = n /\ ws \in [1..n -> 0..(Word - 1)]  BY WordsType
<1>2. \A i \in 1..n : ws[i] = (x \div Weight[i]) % Word  BY DEF Words
<1>3. \A i \in 1..n : x % Span(i) = (x % Weight[i]) + Weight[i] * ws[i]
  <2> TAKE i \in 1..n
  <2>1. i \in 1..4  BY DEF Sizes
  <2>2. Weight[i] \in Nat \ {0} /\ Span(i) = Weight[i] * Word  BY <2>1, WeightType
  <2>3. x % (Weight[i] * Word) = (x % Weight[i]) + Weight[i] * ((x \div Weight[i]) % Word)
    BY <2>2, BaseType, OneMoreDigit
  <2> QED  BY <2>2, <2>3, <1>2
<1>4. x % Weight[1] = 0 /\ Weight[1] * ws[1] = ws[1] /\ x % Span(1) = ws[1]
  <2>1. Weight[1] = 1 /\ 1 \in 1..n  BY WeightType DEF Sizes
  <2>2. x % 1 \in 0..(1 - 1)  BY Division
  <2>3. x % 1 = 0  BY <2>2
  <2>4. ws[1] \in Int  BY <1>1, <2>1
  <2> QED  BY <2>1, <2>3, <2>4, <1>3
<1>5. /\ Span(1) = Weight[2] /\ Span(2) = Weight[3] /\ Span(3) = Weight[4]
  BY WeightType, BaseType DEF Span
<1> HIDE DEF ws
<1>6. CASE n = 1
  BY <1>1, <1>4, <1>6, WordsType DEF Number, ws
<1>7. CASE n = 2
  <2>1. x % Span(2) = (x % Span(1)) + Weight[2] * ws[2]  BY <1>3, <1>5, <1>7
  <2>2. Number(ws) = ws[1] + Weight[2] * ws[2] + 0
    <3>1. Len(ws) = 2 /\ ws[1] \in Int /\ ws[2] \in Int /\ Weight[2] \in Int  BY <1>1, <1>7, WeightType
    <3>2. Weight[2] * ws[2] \in Int  BY <3>1
    <3> QED  BY <3>1, <3>2 DEF Number
  <2>3. Weight[2] * ws[2] \in Int /\ ws[1] \in Int  BY <1>1, <1>7, WeightType
  <2> QED  BY <2>1, <2>2, <2>3, <1>4, <1>7 DEF ws
<1>8. CASE n = 4
  <2>1. /\ x % Span(2) = (x % Span(1)) + Weight[2] * ws[2]
        /\ x % Span(3) = (x % Span(2)) + Weight[3] * ws[3]
        /\ x % Span(4) = (x % Span(3)) + Weight[4] * ws[4]
    BY <1>3, <1>5, <1>8
  <2>2. \A i \in 1..4 : ws[i] \in Int /\ Weight[i] \in Int
    <3>1. \A i \in 1..4 : ws[i] \in 0..(Word - 1)  BY <1>1, <1>8
    <3>2. 0..(Word - 1) \subseteq Int  BY BaseType
    <3>3. \A i \in 1..4 : Weight[i] \in Nat \ {0}  BY WeightType, Zenon
    <3> QED  BY <3>1, <3>2, <3>3
  <2>3. \A i \in 1..4 : Weight[i] * ws[i] \in Int  BY <2>2
  <2>4. Number(ws) = ws[1] + Weight[2] * ws[2] + (Weight[3] * ws[3] + Weight[4] * ws[4])
    <3>1. Len(ws) = 4  BY <1>1, <1>8
    <3> QED  BY <3>1 DEF Number
  <2> QED  BY <2>1, <2>2, <2>3, <2>4, <1>4, <1>8 DEF ws
<1> QED  BY <1>6, <1>7, <1>8 DEF Sizes

-----------------------------------------------------------------------------
(* One word in the two orders of its bytes.                                 *)

Swapped(w) == (w % Base) * Base + w \div Base

LEMMA Halves ==
    ASSUME NEW w \in 0..(Word - 1)
    PROVE  /\ w \div Base \in 0..(Base - 1) /\ w % Base \in 0..(Base - 1)
           /\ w = (w \div Base) * Base + (w % Base)
<1>1. w \in Nat  BY BaseType
<1>2. w \div Base \in Int /\ w % Base \in 0..(Base - 1) /\ w = Base * (w \div Base) + (w % Base)
  BY <1>1, BaseType, Division
<1>3. Base * (w \div Base) = (w \div Base) * Base  BY <1>2, BaseType
<1>4. w < Base * Base  BY BaseType DEF Word
<1>5. w \div Base \in 0..(Base - 1)  BY <1>1, <1>4, BaseType, QuotientRange
<1> QED  BY <1>2, <1>3, <1>5

LEMMA SwappedTwice ==
    ASSUME NEW w \in 0..(Word - 1)
    PROVE  /\ Swapped(w) \in Nat /\ Swapped(w) \div Base = w % Base /\ Swapped(w) % Base = w \div Base
           /\ Swapped(Swapped(w)) = w
<1>1. w \div Base \in 0..(Base - 1) /\ w % Base \in 0..(Base - 1) /\ w = (w \div Base) * Base + (w % Base)
  BY Halves
<1>2. Swapped(w) = Base * (w % Base) + w \div Base  BY <1>1, BaseType DEF Swapped
<1>3. w % Base \in Int  BY <1>1, BaseType
<1>4. Swapped(w) \div Base = w % Base /\ Swapped(w) % Base = w \div Base
  BY <1>1, <1>2, <1>3, BaseType, OneQuotient
<1>5. Swapped(Swapped(w)) = (w \div Base) * Base + (w % Base)  BY <1>4 DEF Swapped
<1>6. Swapped(w) \in Nat  BY <1>1, <1>2, BaseType
<1> QED  BY <1>1, <1>4, <1>5, <1>6

-----------------------------------------------------------------------------
(* Values and registers.                                                    *)

LEMMA RegisterTypeFields ==
    ASSUME NEW t \in RegisterTypes
    PROVE  /\ t.size \in Sizes /\ t.kind \in {"int", "uint", "float"} /\ t.first \in {"L", "M"}
           /\ t.table \in {"holding", "input"} /\ ~IsBit(t)
           /\ t.size = 1 => t.first = "L" /\ t.kind # "float"
BY DEF RegisterTypes, Sizes, IsBit

LEMMA BitTypeFields ==
    ASSUME NEW t \in BitTypes
    PROVE  t.table \in {"coil", "digital"} /\ t.size = 1 /\ IsBit(t)
BY DEF BitTypes, IsBit

(* Changing the order of words twice changes nothing.                       *)
LEMMA OrderTwice ==
    ASSUME NEW t, NEW S, NEW n \in Nat, NEW ws \in [1..n -> S]
    PROVE  InOrder(t, ws) \in [1..n -> S] /\ InOrder(t, InOrder(t, ws)) = ws
<1>1. ws \in Seq(S) /\ Len(ws) = n  OBVIOUS
<1>2. Reverse(ws) = [i \in 1..n |-> ws[n - i + 1]]  BY <1>1 DEF Reverse
<1>3. \A i \in 1..n : n - i + 1 \in 1..n  OBVIOUS
<1>4. Reverse(ws) \in [1..n -> S]  BY <1>2, <1>3
<1>5. Reverse(ws) \in Seq(S) /\ Len(Reverse(ws)) = n
  <2> DEFINE rs == Reverse(ws)
  <2>1. rs \in [1..n -> S]  BY <1>4
  <2> HIDE DEF rs
  <2>2. rs \in Seq(S) /\ Len(rs) = n  BY <2>1
  <2> QED  BY <2>2 DEF rs
<1>6. Reverse(Reverse(ws)) = [i \in 1..n |-> Reverse(ws)[n - i + 1]]
  <2> DEFINE rs == Reverse(ws)
  <2>1. Len(rs) = n  BY <1>5
  <2> HIDE DEF rs
  <2>2. Reverse(rs) = [i \in 1..n |-> rs[n - i + 1]]  BY <2>1 DEF Reverse
  <2> QED  BY <2>2 DEF rs
<1>7. \A i \in 1..n : Reverse(ws)[n - i + 1] = ws[i]
  <2> TAKE i \in 1..n
  <2>1. n - i + 1 \in 1..n /\ n - (n - i + 1) + 1 = i  OBVIOUS
  <2> QED  BY <2>1, <1>2
<1>8. Reverse(Reverse(ws)) = [i \in 1..n |-> ws[i]]  BY <1>6, <1>7
<1>9. Reverse(Reverse(ws)) = ws  BY <1>8
<1> QED  BY <1>4, <1>9 DEF InOrder

(* A word as the device has it.                                             *)
Stored(w, s) == IF s THEN w ELSE Swapped(w)

LEMMA RegisterBack ==
    ASSUME NEW w \in 0..(Word - 1), NEW s \in BOOLEAN
    PROVE  /\ GetRegister(w, s).high \in 0..(Base - 1) /\ GetRegister(w, s).low \in 0..(Base - 1)
           /\ GetRegister(w, s).high * Base + GetRegister(w, s).low = Stored(w, s)
           /\ GetWord([high |-> Stored(w, s) \div Base, low |-> Stored(w, s) % Base], s) = w
           /\ Stored(w, s) \in Nat
           /\ (IF s THEN Stored(w, s) ELSE Swapped(Stored(w, s))) = w
<1>1. w \div Base \in 0..(Base - 1) /\ w % Base \in 0..(Base - 1) /\ w = (w \div Base) * Base + (w % Base)
  BY Halves
<1>2. /\ Swapped(w) \div Base = w % Base /\ Swapped(w) % Base = w \div Base
      /\ Swapped(Swapped(w)) = w /\ Swapped(w) \in Nat /\ w \in Nat
  BY SwappedTwice, BaseType
<1>3. CASE s
  BY <1>1, <1>2, <1>3 DEF GetRegister, GetWord, Stored
<1>4. CASE ~s
  <2>1. GetRegister(w, s) = [high |-> w % Base, low |-> w \div Base] /\ Stored(w, s) = Swapped(w)
    BY <1>4 DEF GetRegister, Stored
  <2>2. GetWord([high |-> w % Base, low |-> w \div Base], s) = (w \div Base) * Base + (w % Base)
    BY <1>4 DEF GetWord
  <2> QED  BY <2>1, <2>2, <1>1, <1>2, <1>4 DEF Swapped
<1> QED  BY <1>3, <1>4

(* The words of a value in the order of the device's addresses.             *)
Ordered(t, x) == InOrder(t, Words(x, t.size))

LEMMA OrderedType ==
    ASSUME NEW t \in RegisterTypes, NEW x \in Int
    PROVE  /\ Ordered(t, x) \in [1..t.size -> 0..(Word - 1)]
           /\ InOrder(t, Ordered(t, x)) = Words(x, t.size)
<1>1. t.size \in Sizes /\ t.size \in Nat  BY RegisterTypeFields DEF Sizes
<1>2. Words(x, t.size) \in [1..t.size -> 0..(Word - 1)]  BY <1>1, WordsType
<1> DEFINE ws == Words(x, t.size)  W == 0..(Word - 1)
<1> HIDE DEF ws, W
<1>3. ws \in [1..t.size -> W]  BY <1>2 DEF ws, W
<1>4. InOrder(t, ws) \in [1..t.size -> W] /\ InOrder(t, InOrder(t, ws)) = ws  BY <1>1, <1>3, OrderTwice
<1> QED  BY <1>4 DEF ws, W, Ordered

LEMMA HighFirstType == ASSUME NEW t, NEW small \in BOOLEAN PROVE HighFirst(t, small) \in BOOLEAN
BY DEF HighFirst

(* The registers of a value give the value that the type can hold.          *)
Read(t, small, x) ==
    [i \in 1..t.size |-> LET k == Stored(Ordered(t, x)[i], HighFirst(t, small))
                         IN [high |-> k \div Base, low |-> k % Base]]

LEMMA ValueBack ==
    ASSUME NEW t \in RegisterTypes, NEW small \in BOOLEAN, NEW x \in Int,
           ~(t.kind = "float" /\ t.size = 4)
    PROVE  GetValue(t, small, Read(t, small, x)) = Held(t, x)
<1>1. t.size \in Sizes /\ t.size \in 1..4  BY RegisterTypeFields DEF Sizes
<1>2. Ordered(t, x) \in [1..t.size -> 0..(Word - 1)] /\ InOrder(t, Ordered(t, x)) = Words(x, t.size)
  BY OrderedType
<1> DEFINE words == [i \in 1..t.size |-> GetWord(Read(t, small, x)[i], HighFirst(t, small))]
           n == x % Span(t.size)
<1>3. \A i \in 1..t.size : GetWord(Read(t, small, x)[i], HighFirst(t, small)) = Ordered(t, x)[i]
  <2> TAKE i \in 1..t.size
  <2>1. Ordered(t, x)[i] \in 0..(Word - 1) /\ HighFirst(t, small) \in BOOLEAN  BY <1>2, HighFirstType
  <2> QED  BY <2>1, RegisterBack DEF Read
<1>4. words = [i \in 1..t.size |-> Ordered(t, x)[i]]  BY <1>3
<1>5. words = Ordered(t, x)  BY <1>2, <1>4
<1>6. Number(InOrder(t, words)) = n  BY <1>1, <1>2, <1>5, NumberOfWords
<1>7. Span(t.size) \in Nat \ {0}  BY <1>1, WeightType, Zenon
<1>8. n \in 0..(Span(t.size) - 1)  BY <1>7, Division
<1>9. GetValue(t, small, Read(t, small, x)) =
         CASE t.kind = "float" -> n % Span(2)
           [] t.kind = "uint" /\ t.size = 1 -> n
           [] OTHER -> Signed(n, t.size)
  BY <1>6, Zenon DEF GetValue
<1> HIDE DEF n, words
<1>10. CASE t.kind = "float"
  <2>1. t.size = 2  BY <1>1, <1>10, RegisterTypeFields DEF Sizes
  <2>2. n % Span(2) = n
    <3>1. Span(2) * 0 + n = n  BY <1>7, <1>8, <2>1
    <3>2. (Span(2) * 0 + n) % Span(2) = n  BY <1>7, <1>8, <2>1, OneQuotient
    <3> QED  BY <3>1, <3>2
  <2>3. Held(t, x) = n  BY <1>10 DEF Held, n
  <2> QED  BY <2>2, <2>3, <1>9, <1>10
<1>11. CASE t.kind = "uint" /\ t.size = 1
  BY <1>9, <1>11 DEF Held, n
<1>12. CASE t.kind # "float" /\ ~(t.kind = "uint" /\ t.size = 1)
  <2>1. Held(t, x) = IF 2 * n < Span(t.size) THEN n ELSE n - Span(t.size)
    BY <1>12, RegisterTypeFields DEF Held, n, IsBit
  <2>2. Signed(n, t.size) = IF 2 * n < Span(t.size) THEN n ELSE n - Span(t.size)
    BY <1>7, <1>8 DEF Signed
  <2> QED  BY <2>1, <2>2, <1>9, <1>12
<1> QED  BY <1>10, <1>11, <1>12

-----------------------------------------------------------------------------
(* Frames and the device.                                                   *)

Memory == [Addresses -> Int]
Register == [high : Nat, low : Nat]

LEMMA WrittenBit ==
    ASSUME NEW m \in Memory, NEW address \in Nat, NEW on \in BOOLEAN,
           NEW w, w = Written(m, CreateForceSingleCoil(address, on))
    PROVE  w \in Memory /\ \A a \in Addresses : w[a] = IF a = address THEN IF on THEN 1 ELSE 0 ELSE m[a]
<1> DEFINE q == CreateForceSingleCoil(address, on)
<1>1. /\ q.code = "FORCE_SINGLE_COIL" /\ q.address = address /\ q.count = 1
      /\ Len(q.data) = 2 /\ q.data[1] = IF on THEN Base - 1 ELSE 0
  BY DEF CreateForceSingleCoil
<1> HIDE DEF q
<1>2. WellFormed(q)  BY <1>1 DEF WellFormed
<1>3. (q.data[1] = 0) <=> ~on  BY <1>1, BaseType
<1>4. Written(m, q) = [a \in Addresses |-> IF a - address \notin 0..0 THEN m[a] ELSE IF on THEN 1 ELSE 0]
  <2>1. DOMAIN m = Addresses  BY DEF Memory
  <2>2. \A a \in Addresses : (a - q.address) \notin 0..(q.count - 1) <=> a - address \notin 0..0  BY <1>1
  <2> QED  BY <1>1, <1>2, <1>3, <2>1, <2>2 DEF Written
<1>5. \A a \in Addresses : a - address \notin 0..0 <=> a # address  BY PathAssumption
<1>6. \A a \in Addresses : Written(m, q)[a] = IF a = address THEN IF on THEN 1 ELSE 0 ELSE m[a]
  BY <1>4, <1>5
<1>7. Written(m, q) \in Memory  BY <1>4 DEF Memory
<1> QED  BY <1>6, <1>7 DEF q

LEMMA WrittenRegisters ==
    ASSUME NEW m \in Memory, NEW address \in Nat, NEW n \in Nat, NEW rs \in [1..n -> Register],
           NEW w, w = Written(m, CreatePresetMultipleRegisters(address, rs))
    PROVE  /\ w \in Memory
           /\ \A a \in Addresses :
                 w[a] = IF a - address \in 0..(n - 1)
                        THEN rs[a - address + 1].high * Base + rs[a - address + 1].low ELSE m[a]
<1> DEFINE q == CreatePresetMultipleRegisters(address, rs)
<1>1. Len(rs) = n  OBVIOUS
<1>2. /\ q.code = "PRESET_MULTIPLE_REGISTERS" /\ q.address = address /\ q.count = n
      /\ q.data = [k \in 1..(2 * n) |-> IF k % 2 = 1 THEN rs[(k + 1) \div 2].high ELSE rs[k \div 2].low]
  BY <1>1 DEF CreatePresetMultipleRegisters
<1>3. Len(q.data) = 2 * n  BY <1>2
<1> HIDE DEF q
<1>4. WellFormed(q)  BY <1>2, <1>3 DEF WellFormed
<1>5. \A i \in 0..(n - 1) : q.data[2 * i + 1] = rs[i + 1].high /\ q.data[2 * i + 2] = rs[i + 1].low
  <2> TAKE i \in 0..(n - 1)
  <2>1. 2 * i + 1 \in 1..(2 * n) /\ 2 * i + 2 \in 1..(2 * n)  OBVIOUS
  <2>2. (2 * i + 1) % 2 = 1 /\ ((2 * i + 1) + 1) \div 2 = i + 1  OBVIOUS
  <2>3. (2 * i + 2) % 2 = 0 /\ (2 * i + 2) \div 2 = i + 1  OBVIOUS
  <2> QED  BY <1>2, <2>1, <2>2, <2>3
<1>6. Written(m, q) =
         [a \in Addresses |-> IF a - address \in 0..(n - 1)
                              THEN rs[a - address + 1].high * Base + rs[a - address + 1].low ELSE m[a]]
  <2>1. DOMAIN m = Addresses  BY DEF Memory
  <2>2. Written(m, q) = [a \in Addresses |->
            IF a - address \notin 0..(n - 1) THEN m[a]
            ELSE q.data[2 * (a - address) + 1] * Base + q.data[2 * (a - address) + 2]]
    BY <1>2, <1>4, <2>1 DEF Written
  <2> QED  BY <2>2, <1>5
<1>7. \A i \in 1..n : rs[i].high * Base + rs[i].low \in Int
  <2> TAKE i \in 1..n
  <2>1. rs[i].high \in Nat /\ rs[i].low \in Nat  BY DEF Register
  <2> QED  BY <2>1, BaseType
<1>8. \A a \in Addresses : a - address \in 0..(n - 1) => a - address + 1 \in 1..n  BY PathAssumption
<1>9. Written(m, q) \in Memory  BY <1>6, <1>7, <1>8 DEF Memory
<1> QED  BY <1>6, <1>9 DEF q

(* The serial frame for one register changes no other.                      *)
LEMMA WrittenSingle ==
    ASSUME NEW m \in Memory, NEW address \in Nat, NEW r \in Register,
           NEW w, w = Written(m, CreatePresetSingleRegister(address, r))
    PROVE  w \in Memory /\ \A a \in Addresses : a - address \notin 0..0 => w[a] = m[a]
<1> DEFINE q == CreatePresetSingleRegister(address, r)
<1>1. r.high + r.low \in Nat  BY DEF Register
<1>2. /\ q.code = "PRESET_SINGLE_REGISTER" /\ q.address = address /\ q.count = 1
      /\ q.data = [i \in 1..(r.high + r.low) |-> 1]
  BY DEF CreatePresetSingleRegister
<1> HIDE DEF q
<1>3. CASE ~WellFormed(q)
  BY <1>3 DEF Written, q
<1>4. CASE WellFormed(q)
  <2>1. Len(q.data) = 2 /\ Len(q.data) = r.high + r.low  BY <1>1, <1>2, <1>4 DEF WellFormed
  <2>2. q.data[1] = 1 /\ q.data[2] = 1
    <3>1. r.high + r.low = 2  BY <2>1
    <3>2. q.data = [i \in 1..2 |-> 1]  BY <1>2, <3>1
    <3> QED  BY <3>2
  <2>3. DOMAIN m = Addresses  BY DEF Memory
  <2>4. Written(m, q) = [a \in Addresses |->
            IF a - address \notin 0..0 THEN m[a]
            ELSE q.data[2 * (a - address) + 1] * Base + q.data[2 * (a - address) + 2]]
    BY <1>2, <1>4, <2>3 DEF Written
  <2>5. \A a \in Addresses : Written(m, q)[a] = IF a - address \notin 0..0 THEN m[a] ELSE 1 * Base + 1
    BY <2>2, <2>4, PathAssumption
  <2>6. 1 * Base + 1 \in Int  BY BaseType
  <2>7. Written(m, q) \in Memory  BY <2>4, <2>5, <2>6 DEF Memory
  <2> QED  BY <2>5, <2>7 DEF q
<1> QED  BY <1>3, <1>4

-----------------------------------------------------------------------------
(* The reply to a query: the words or bits of its addresses, in order.      *)

InReach(first, count) == first \in Nat /\ count \in Nat /\ first..(first + count - 1) \subseteq Addresses

Answer(transport, m, table, first, count) ==
    LET q == CreateRead(table, first, count) IN DecodeReply(transport, q, ReadReply(transport, m, q))

LEMMA ReadRegisters ==
    ASSUME NEW m \in Memory, NEW transport \in Transports, NEW table \in {"holding", "input"},
           NEW first, NEW count, InReach(first, count),
           NEW result, result = Answer(transport, m, table, first, count)
    PROVE  /\ result # NoReply
           /\ result = [i \in 1..count |-> [high |-> m[first + i - 1] \div Base, low |-> m[first + i - 1] % Base]]
<1> DEFINE q == CreateRead(table, first, count)
           reply == ReadReply(transport, m, q)
           values == DecodeReply(transport, q, reply)
<1> first \in Nat /\ count \in Nat /\ first..(first + count - 1) \subseteq Addresses  BY DEF InReach
<1>1. q.code \in RegisterCodes /\ q.code \notin BitCodes /\ q.address = first /\ q.count = count
  BY DEF CreateRead, ReadCode, RegisterCodes, BitCodes
<1>2. Header(transport) \in Nat  BY DEF Header
<1> HIDE DEF q
<1> DEFINE bytes == [i \in 1..(2 * count) |->
                        LET w == m[first + (i - 1) \div 2] IN IF i % 2 = 1 THEN w \div Base ELSE w % Base]
<1>3. Len(bytes) = 2 * count  OBVIOUS
<1>4. reply = [code |-> q.code, data |-> bytes, size |-> Header(transport) + Len(bytes)]
  BY <1>1 DEF ReadReply
<1>5. values = DecodeRegisters(bytes)
  <2>1. reply.size = Header(transport) + 2 * count /\ reply.code = q.code /\ reply.data = bytes  BY <1>3, <1>4
  <2>2. ReplyLength(transport, q) = Header(transport) + 2 * count  BY <1>1 DEF ReplyLength
  <2> HIDE DEF bytes, reply
  <2>3. ~(reply.size < ReplyLength(transport, q)) /\ Len(reply.data) = reply.size - Header(transport)
    BY <1>2, <1>3, <2>1, <2>2
  <2> QED  BY <1>1, <2>1, <2>3 DEF DecodeReply
<1>6. \A i \in 1..count : /\ bytes[2 * i - 1] = m[first + i - 1] \div Base
                          /\ bytes[2 * i] = m[first + i - 1] % Base
  <2> TAKE i \in 1..count
  <2>1. 2 * i - 1 \in 1..(2 * count) /\ 2 * i \in 1..(2 * count)  OBVIOUS
  <2>2. (2 * i - 1) % 2 = 1 /\ ((2 * i - 1) - 1) \div 2 = i - 1  OBVIOUS
  <2>3. (2 * i) % 2 = 0 /\ ((2 * i) - 1) \div 2 = i - 1  OBVIOUS
  <2>4. first + (i - 1) = first + i - 1  OBVIOUS
  <2> QED  BY <2>1, <2>2, <2>3, <2>4
<1>7. Len(bytes) \div 2 = count  BY <1>3
<1> HIDE DEF bytes
<1>8. values = [i \in 1..count |-> [high |-> bytes[2 * i - 1], low |-> bytes[2 * i]]]
  BY <1>5, <1>7 DEF DecodeRegisters
<1>9. values = [i \in 1..count |-> [high |-> m[first + i - 1] \div Base, low |-> m[first + i - 1] % Base]]
  BY <1>6, <1>8
<1> HIDE DEF values
<1>10. \A i \in 1..count : m[first + i - 1] \in Int
  BY DEF Memory
<1>11. \A i \in 1..count : m[first + i - 1] \div Base \in Int /\ m[first + i - 1] % Base \in Int
  <2> TAKE i \in 1..count
  <2>1. m[first + i - 1] % Base \in 0..(Base - 1) /\ m[first + i - 1] \div Base \in Int
    BY <1>10, BaseType, Division
  <2> QED  BY <2>1, BaseType
<1>12. values \in [1..count -> [high : Int, low : Int]]  BY <1>9, <1>11
<1>13. values \in Seq([high : Int, low : Int])
  <2> DEFINE R == [high : Int, low : Int]
  <2> HIDE DEF R
  <2>1. values \in [1..count -> R]  BY <1>12 DEF R
  <2>2. values \in Seq(R)  BY <2>1
  <2> QED  BY <2>2 DEF R
<1>14. values # NoReply  BY <1>13, ReplyAssumption
<1> QED  BY <1>9, <1>14 DEF values, reply, q, Answer

LEMMA ReadBits ==
    ASSUME NEW m \in Memory, NEW transport \in Transports, NEW table \in {"coil", "digital"},
           NEW first, NEW count, InReach(first, count),
           NEW result, result = Answer(transport, m, table, first, count)
    PROVE  /\ result # NoReply /\ Len(result) \in Nat /\ count <= Len(result)
           /\ \A i \in 0..(count - 1) : result[i + 1] = m[first + i]
<1> DEFINE q == CreateRead(table, first, count)
           reply == ReadReply(transport, m, q)
           values == DecodeReply(transport, q, reply)
           full == CeilDiv(count, ByteBits)
<1> first \in Nat /\ count \in Nat /\ first..(first + count - 1) \subseteq Addresses  BY DEF InReach
<1>1. q.code \in BitCodes /\ q.address = first /\ q.count = count
  BY DEF CreateRead, ReadCode, BitCodes
<1>2. Header(transport) \in Nat  BY DEF Header
<1>3. full \in Nat /\ count <= ByteBits * full /\ ByteBits * full \in Nat
  <2> DEFINE x == count + ByteBits - 1
  <2>1. x \in Nat  BY BaseType
  <2> HIDE DEF x
  <2>2. x \div ByteBits \in Int /\ x % ByteBits \in 0..(ByteBits - 1) /\ x = ByteBits * (x \div ByteBits) + (x % ByteBits)
    BY <2>1, BaseType, Division
  <2>3. x \div ByteBits \in Nat  BY <2>1, BaseType, QuotientRange
  <2>4. ByteBits * (x \div ByteBits) \in Nat  BY <2>3, BaseType
  <2>5. x = count + ByteBits - 1  BY DEF x
  <2>6. full = x \div ByteBits  BY DEF CeilDiv, x
  <2> QED  BY <2>2, <2>3, <2>4, <2>5, <2>6, BaseType
<1> HIDE DEF q, full
<1> DEFINE last == first + count - 1
           bytes == [i \in 1..full |-> [j \in 0..(ByteBits - 1) |->
                        BitAt(m, first + ByteBits * (i - 1) + j, last)]]
<1>4. Len(bytes) = full  BY <1>3
<1>5. reply = [code |-> q.code, data |-> bytes, size |-> Header(transport) + Len(bytes)]
  BY <1>1 DEF ReadReply, full
<1> HIDE DEF reply
<1>6. values = DecodeBits(bytes)
  <2> HIDE DEF bytes
  <2>1. reply.size = Header(transport) + full /\ reply.code = q.code /\ reply.data = bytes  BY <1>4, <1>5
  <2>2. ReplyLength(transport, q) = Header(transport) + full  BY <1>1 DEF ReplyLength, full
  <2>3. ~(reply.size < ReplyLength(transport, q)) /\ Len(reply.data) = reply.size - Header(transport)
    BY <1>2, <1>3, <1>4, <2>1, <2>2
  <2> QED  BY <1>1, <2>1, <2>3 DEF DecodeReply
<1>7. values = [n \in 1..(ByteBits * full) |-> bytes[1 + (n - 1) \div ByteBits][(n - 1) % ByteBits]]
  BY <1>4, <1>6 DEF DecodeBits
<1>8. \A n \in 1..(ByteBits * full) :
         values[n] = IF first + (n - 1) <= last THEN m[first + (n - 1)] ELSE 0
  <2> TAKE n \in 1..(ByteBits * full)
  <2> DEFINE k == n - 1
  <2>1. k \in Nat /\ k \in Int /\ k < ByteBits * full  BY <1>3
  <2> HIDE DEF k
  <2>2. k \div ByteBits \in Int /\ k % ByteBits \in 0..(ByteBits - 1) /\ k = ByteBits * (k \div ByteBits) + (k % ByteBits)
    BY <2>1, BaseType, Division
  <2>3. k \div ByteBits \in 0..(full - 1)  BY <2>1, <1>3, BaseType, QuotientRange
  <2>5. 1 + k \div ByteBits \in 1..full /\ (1 + k \div ByteBits) - 1 = k \div ByteBits  BY <1>3, <2>3
  <2>6. bytes[1 + k \div ByteBits][k % ByteBits] = BitAt(m, first + ByteBits * (k \div ByteBits) + (k % ByteBits), last)
    BY <2>2, <2>5
  <2>7. first + ByteBits * (k \div ByteBits) + (k % ByteBits) = first + k
    <3>1. ByteBits * (k \div ByteBits) \in Int /\ k % ByteBits \in Int  BY <2>2, BaseType
    <3> QED  BY <3>1, <2>1, <2>2
  <2>8. values[n] = BitAt(m, first + k, last)  BY <1>7, <2>6, <2>7 DEF k
  <2> QED  BY <2>8 DEF BitAt, k
<1> HIDE DEF bytes, values, reply
<1>9. \A i \in 0..(count - 1) : values[i + 1] = m[first + i]
  <2> TAKE i \in 0..(count - 1)
  <2>1. i + 1 \in 1..(ByteBits * full) /\ first + ((i + 1) - 1) = first + i /\ first + i <= last  BY <1>3
  <2> QED  BY <2>1, <1>8
<1>10. DOMAIN values = 1..(ByteBits * full)  BY <1>7
<1>11. \A n \in 1..(ByteBits * full) : values[n] \in Int
  <2> TAKE n \in 1..(ByteBits * full)
  <2>1. first + (n - 1) <= last => first + (n - 1) \in Addresses  BY <1>3
  <2> QED  BY <2>1, <1>8 DEF Memory
<1>12. values \in [1..(ByteBits * full) -> Int]  BY <1>7, <1>11
<1>13. values \in Seq(Int) /\ Len(values) = ByteBits * full  BY <1>3, <1>12
<1>14. values # NoReply  BY <1>13, ReplyAssumption
<1> QED  BY <1>3, <1>9, <1>13, <1>14 DEF values, reply, q, Answer

-----------------------------------------------------------------------------
(* The inductive invariant: what is on its way is what is to arrive, what   *)
(* has arrived is in the device in the order of its addresses.              *)

PathTypes ==
    /\ point \in Points /\ query \in Reads /\ Covers(query, point)
    /\ stage \in {"idle", "write", "read", "shown"}
    /\ mem \in Memory /\ before \in Memory
    /\ stage # "idle" => meant \in Samples(Type)

OthersKept == \A a \in Addresses : Elsewhere(a) => mem[a] = before[a]

Underway ==
    stage = "write" =>
        /\ Writable(Type)
        /\ pending = IF IsBit(Type) THEN << Intended # 0 >>
                     ELSE ConvertToRegisterValue(Type, point.small, Intended)
        /\ sent # 0 => OthersKept

InPlace ==
    IF IsBit(Type) THEN mem[point.address] = Held(Type, Intended)
    ELSE \A i \in 1..Type.size :
            mem[point.address + i - 1] = Stored(Ordered(Type, Intended)[i], HighFirst(Type, point.small))

Delivered == stage \in {"read", "shown"} => OthersKept /\ (~SingleFrame => InPlace)

OnItsWay == Underway /\ Delivered /\ ShownAsAsked

LEMMA PointFields ==
    ASSUME PathTypes
    PROVE  /\ Type \in RegisterTypes \cup BitTypes /\ point.transport \in Transports
           /\ point.small \in BOOLEAN /\ point.address \in Nat
           /\ Samples(Type) \subseteq IF IsBit(Type) THEN {0, 1} ELSE Int
           /\ Writable(Type) => \A x \in Samples(Type) : Processed(OutLogic, x) \in Int
           /\ HighFirst(Type, point.small) \in BOOLEAN
BY PathAssumption, HighFirstType DEF PathTypes, Type, OutLogic

LEMMA TypeFields ==
    ASSUME PathTypes
    PROVE  /\ Type.size \in Sizes /\ Type.size \in Nat \ {0}
           /\ IsBit(Type) => Type \in BitTypes /\ Type.table \in {"coil", "digital"} /\ Type.size = 1
           /\ ~IsBit(Type) => Type \in RegisterTypes /\ Type.table \in {"holding", "input"}
<1>1. CASE Type \in RegisterTypes
  BY <1>1, RegisterTypeFields DEF Sizes
<1>2. CASE Type \in BitTypes
  BY <1>2, BitTypeFields DEF Sizes
<1> QED  BY <1>1, <1>2, PointFields

(* The device has the point's addresses, and the query asks for them.       *)
LEMMA PointThere ==
    ASSUME PathTypes
    PROVE  /\ query.first \in Nat /\ query.count \in Nat
           /\ query.first..(query.first + query.count - 1) \subseteq Addresses
           /\ point.address - query.first \in Nat
           /\ point.address - query.first + Type.size <= query.count
           /\ \A i \in 0..(Type.size - 1) : point.address + i \in Addresses
<1>1. /\ query.first \in Nat /\ query.count \in Nat
      /\ query.first..(query.first + query.count - 1) \subseteq Addresses
  BY PathAssumption DEF PathTypes
<1>2. point.address >= query.first /\ point.address + Type.size <= query.first + query.count
  BY DEF PathTypes, Covers, Type
<1>3. point.address \in Nat /\ Type.size \in Nat  BY PointFields, TypeFields
<1>4. \A i \in 0..(Type.size - 1) : point.address + i \in query.first..(query.first + query.count - 1)
  BY <1>1, <1>2, <1>3
<1> QED  BY <1>1, <1>2, <1>3, <1>4

LEMMA IntendedType ==
    ASSUME PathTypes, meant \in Samples(Type)
    PROVE  Intended \in Int /\ (IsBit(Type) /\ ~Writable(Type) => Intended \in {0, 1})
BY PointFields DEF Intended

(* The point stays.                                                         *)
LEMMA SamePoint ==
    ASSUME UNCHANGED << point, query >>
    PROVE  /\ Type' = Type /\ InLogic' = InLogic /\ OutLogic' = OutLogic
           /\ SingleFrame' = SingleFrame /\ Lossy' = Lossy
           /\ \A a : Elsewhere(a)' = Elsewhere(a)
BY DEF Type, InLogic, OutLogic, SingleFrame, Lossy, Elsewhere

LEMMA WriteValueStep ==
    ASSUME PathTypes, NEW x \in Samples(Type), WriteValue(x)
    PROVE  PathTypes' /\ OnItsWay'
<1>1. UNCHANGED << point, query >> /\ UNCHANGED << mem, before >> /\ stage' = "write" /\ meant' = x /\ sent' = 0
      /\ Writable(Type)
  BY DEF WriteValue
<1>2. Type' = Type /\ OutLogic' = OutLogic  BY <1>1, SamePoint
<1>3. PathTypes'  BY <1>1, <1>2 DEF PathTypes
<1>4. Intended' = Processed(OutLogic, x)  BY <1>1, <1>2 DEF Intended
<1>5. pending' = IF IsBit(Type) THEN << Processed(OutLogic, x) # 0 >>
                 ELSE ConvertToRegisterValue(Type, point.small, Processed(OutLogic, x))
  BY DEF WriteValue
<1>6. pending' = (IF IsBit(Type) THEN << Intended # 0 >> ELSE ConvertToRegisterValue(Type, point.small, Intended))'
  BY <1>1, <1>2, <1>4, <1>5
<1>7. Underway'  BY <1>1, <1>2, <1>6 DEF Underway
<1> QED  BY <1>1, <1>3, <1>7 DEF OnItsWay, Delivered, ShownAsAsked

(* What a device measures it keeps in the format of the type.               *)
LEMMA MeasureStep ==
    ASSUME PathTypes, NEW x \in Samples(Type), Measure(x)
    PROVE  PathTypes' /\ OnItsWay'
<1>1. /\ UNCHANGED << point, query >> /\ stage' = "read" /\ meant' = x /\ before' = mem /\ ~Writable(Type)
  BY DEF Measure
<1>2. Type' = Type /\ SingleFrame' = SingleFrame /\ \A a : Elsewhere(a)' = Elsewhere(a)  BY <1>1, SamePoint
<1>3. Intended' = x  BY <1>1, <1>2 DEF Intended
<1>4. x \in Int /\ (IsBit(Type) => x \in {0, 1})  BY PointFields
<1> DEFINE hf == HighFirst(Type, point.small)
           At(a) == IF IsBit(Type) THEN x
                    ELSE GetRegister(Ordered(Type, x)[a - point.address + 1], hf).high * Base
                         + GetRegister(Ordered(Type, x)[a - point.address + 1], hf).low
<1>5. mem' = [a \in Addresses |-> IF Elsewhere(a) THEN mem[a] ELSE At(a)]
  BY DEF Measure, Elsewhere, Ordered
<1>6. \A a \in Addresses : ~Elsewhere(a) => a - point.address + 1 \in 1..Type.size
  BY PointFields, TypeFields, PathAssumption DEF Elsewhere
<1>7. ASSUME ~IsBit(Type), NEW i \in 1..Type.size
      PROVE  /\ GetRegister(Ordered(Type, x)[i], hf).high * Base + GetRegister(Ordered(Type, x)[i], hf).low
                  = Stored(Ordered(Type, x)[i], hf)
             /\ Stored(Ordered(Type, x)[i], hf) \in Int
  <2> DEFINE w == Ordered(Type, x)[i]
  <2>1. w \in 0..(Word - 1)  BY <1>4, <1>7, TypeFields, OrderedType
  <2>2. hf \in BOOLEAN  BY PointFields
  <2> HIDE DEF w, hf
  <2>3. GetRegister(w, hf).high * Base + GetRegister(w, hf).low = Stored(w, hf) /\ Stored(w, hf) \in Nat
    BY <2>1, <2>2, RegisterBack
  <2> QED  BY <2>3 DEF w
<1>8. \A a \in Addresses : ~Elsewhere(a) => At(a) \in Int
  BY <1>4, <1>6, <1>7
<1> HIDE DEF At
<1>9. mem' \in Memory  BY <1>5, <1>8 DEF PathTypes, Memory
<1>10. PathTypes'  BY <1>1, <1>2, <1>9 DEF PathTypes
<1>11. OthersKept'  BY <1>1, <1>2, <1>5 DEF OthersKept
<1>12. \A i \in 1..Type.size : /\ point.address + i - 1 \in Addresses
                               /\ ~Elsewhere(point.address + i - 1)
                               /\ (point.address + i - 1) - point.address + 1 = i
  <2> TAKE i \in 1..Type.size
  <2>1. i - 1 \in 0..(Type.size - 1) /\ point.address + (i - 1) = point.address + i - 1
    BY TypeFields, PointFields
  <2>2. point.address + (i - 1) \in Addresses  BY <2>1, PointThere
  <2>3. (point.address + i - 1) - point.address = i - 1  BY TypeFields, PointFields
  <2> QED  BY <2>1, <2>2, <2>3, TypeFields DEF Elsewhere
<1>13. InPlace'
  <2>1. CASE IsBit(Type)
    <3>1. Type.size = 1 /\ point.address + 1 - 1 = point.address  BY <2>1, TypeFields, PointFields
    <3>2. mem'[point.address] = x  BY <2>1, <3>1, <1>5, <1>12 DEF At
    <3>3. Held(Type, x) = x  BY <2>1, <1>4 DEF Held, IsBit
    <3> QED  BY <2>1, <3>2, <3>3, <1>1, <1>2, <1>3 DEF InPlace
  <2>2. CASE ~IsBit(Type)
    <3>1. \A i \in 1..Type.size : mem'[point.address + i - 1] = Stored(Ordered(Type, x)[i], hf)
      BY <2>2, <1>5, <1>7, <1>12 DEF At
    <3> QED  BY <2>2, <3>1, <1>1, <1>2, <1>3 DEF InPlace
  <2> QED  BY <2>1, <2>2
<1> QED  BY <1>1, <1>10, <1>11, <1>13 DEF OnItsWay, Underway, Delivered, ShownAsAsked

(* What a write makes of a value.                                           *)
LEMMA RegistersOf ==
    ASSUME PathTypes, ~IsBit(Type), Writable(Type), NEW y \in Int
    PROVE  LET rs == ConvertToRegisterValue(Type, point.small, y)
               hf == HighFirst(Type, point.small)
           IN /\ rs \in [1..Type.size -> Register]
              /\ \A i \in 1..Type.size : rs[i].high * Base + rs[i].low = Stored(Ordered(Type, y)[i], hf)
<1> DEFINE hf == HighFirst(Type, point.small)
           rs == ConvertToRegisterValue(Type, point.small, y)
<1>1. Type \in RegisterTypes /\ Type.table = "holding" /\ hf \in BOOLEAN
  BY TypeFields, PointFields DEF Writable
<1>2. rs = [i \in 1..Type.size |-> GetRegister(Ordered(Type, y)[i], hf)]
  BY <1>1 DEF ConvertToRegisterValue, Ordered
<1> HIDE DEF hf, rs
<1>3. \A i \in 1..Type.size :
         /\ GetRegister(Ordered(Type, y)[i], hf) \in Register
         /\ GetRegister(Ordered(Type, y)[i], hf).high * Base + GetRegister(Ordered(Type, y)[i], hf).low
               = Stored(Ordered(Type, y)[i], hf)
  <2> TAKE i \in 1..Type.size
  <2> DEFINE w == Ordered(Type, y)[i]
  <2>1. w \in 0..(Word - 1)  BY <1>1, OrderedType
  <2> HIDE DEF w
  <2>2. /\ GetRegister(w, hf).high \in 0..(Base - 1) /\ GetRegister(w, hf).low \in 0..(Base - 1)
        /\ GetRegister(w, hf).high * Base + GetRegister(w, hf).low = Stored(w, hf)
    BY <1>1, <2>1, RegisterBack
  <2>3. GetRegister(w, hf) = [high |-> GetRegister(w, hf).high, low |-> GetRegister(w, hf).low]
    BY DEF GetRegister
  <2>4. 0..(Base - 1) \subseteq Nat  BY BaseType
  <2> HIDE DEF GetRegister
  <2>5. GetRegister(w, hf) \in Register  BY <2>2, <2>3, <2>4 DEF Register
  <2> QED  BY <2>2, <2>5 DEF w
<1> QED  BY <1>2, <1>3 DEF rs, hf

(* Whatever frame carries it, the device gets the value and keeps what it   *)
(* has elsewhere; but for one register over the serial line.                *)
LEMMA SendWriteStep ==
    ASSUME PathTypes, OnItsWay, SendWrite
    PROVE  PathTypes' /\ OnItsWay'
<1> DEFINE q == IF IsBit(Type) THEN CreateForceSingleCoil(point.address, pending[1])
                ELSE WriteRegisters(point.transport, point.address, pending)
<1>1. /\ UNCHANGED << point, query >> /\ meant' = meant /\ pending' = pending
      /\ stage = "write" /\ stage' \in {"read", "write"}
      /\ mem' = Written(mem, q) /\ before' = IF sent = 0 THEN mem ELSE before
  BY DEF SendWrite
<1> HIDE DEF q
<1>2. /\ Type' = Type /\ OutLogic' = OutLogic /\ SingleFrame' = SingleFrame
      /\ \A a : Elsewhere(a)' = Elsewhere(a)
  BY <1>1, SamePoint
<1>3. Intended' = Intended  BY <1>1, <1>2 DEF Intended
<1>4. /\ Writable(Type) /\ (sent # 0 => OthersKept)
      /\ pending = IF IsBit(Type) THEN << Intended # 0 >>
                   ELSE ConvertToRegisterValue(Type, point.small, Intended)
  BY <1>1 DEF OnItsWay, Underway
<1>5. mem \in Memory /\ before \in Memory /\ meant \in Samples(Type)  BY <1>1 DEF PathTypes
<1>6. Intended \in Int /\ point.address \in Nat /\ Type.size \in Nat \ {0}
  BY <1>5, IntendedType, PointFields, TypeFields
<1> DEFINE NewPlace == /\ mem' \in Memory
                       /\ \A a \in Addresses : Elsewhere(a) => mem'[a] = mem[a]
                       /\ ~SingleFrame => InPlace'
<1>7. NewPlace
  <2>1. CASE IsBit(Type)
    <3>1. q = CreateForceSingleCoil(point.address, Intended # 0)  BY <1>4, <2>1 DEF q
    <3>2. /\ mem' \in Memory
          /\ \A a \in Addresses : mem'[a] = IF a = point.address THEN IF Intended # 0 THEN 1 ELSE 0 ELSE mem[a]
      <4> DEFINE on == Intended # 0
      <4>1. on \in BOOLEAN /\ point.address \in Nat  BY <1>6
      <4>2. mem' = Written(mem, CreateForceSingleCoil(point.address, on))  BY <1>1, <3>1
      <4> HIDE DEF on
      <4>3. mem' \in Memory /\ \A a \in Addresses : mem'[a] = IF a = point.address THEN IF on THEN 1 ELSE 0 ELSE mem[a]
        <5> DEFINE w == mem'  ad == point.address  m == mem
        <5>1. m \in Memory /\ ad \in Nat /\ on \in BOOLEAN /\ w = Written(m, CreateForceSingleCoil(ad, on))
          BY <1>5, <4>1, <4>2
        <5> HIDE DEF w, ad, m
        <5>2. w \in Memory /\ \A a \in Addresses : w[a] = IF a = ad THEN IF on THEN 1 ELSE 0 ELSE m[a]
          BY <5>1, WrittenBit
        <5> QED  BY <5>2 DEF w, ad, m
      <4> QED  BY <4>3 DEF on
    <3>3. Type.size = 1 /\ point.address + 0 \in Addresses  BY <2>1, TypeFields, PointThere
    <3>4. point.address \in Addresses  BY <3>3, <1>6
    <3>5. \A a \in Addresses : Elsewhere(a) => a # point.address  BY <1>6, <3>3 DEF Elsewhere
    <3>6. mem'[point.address] = Held(Type, Intended)  BY <2>1, <3>2, <3>4 DEF Held, IsBit
    <3>7. InPlace'  BY <1>1, <1>2, <1>3, <2>1, <3>6 DEF InPlace
    <3> QED  BY <3>2, <3>5, <3>7
  <2>2. CASE ~IsBit(Type) /\ SingleFrame
    <3>1. pending \in [1..1 -> Register] /\ Type.size = 1
      BY <1>4, <1>6, <2>2, RegistersOf DEF SingleFrame
    <3>2. Len(pending) = 1 /\ pending[1] \in Register  BY <3>1
    <3>3. q = CreatePresetSingleRegister(point.address, pending[1])
      BY <2>2, <3>2 DEF q, WriteRegisters, SingleFrame
    <3>4. mem' \in Memory /\ \A a \in Addresses : a - point.address \notin 0..0 => mem'[a] = mem[a]
      BY <1>1, <1>5, <1>6, <3>2, <3>3, WrittenSingle
    <3> QED  BY <2>2, <3>1, <3>4 DEF Elsewhere
  <2>3. CASE ~IsBit(Type) /\ ~SingleFrame
    <3> DEFINE hf == HighFirst(Type, point.small)
    <3>1. /\ pending \in [1..Type.size -> Register]
          /\ \A i \in 1..Type.size :
                pending[i].high * Base + pending[i].low = Stored(Ordered(Type, Intended)[i], hf)
      BY <1>4, <1>6, <2>3, RegistersOf
    <3> HIDE DEF hf
    <3>2. Len(pending) = Type.size  BY <1>6, <3>1
    <3>3. Type.table = "holding"  BY <1>4, <2>3, TypeFields DEF Writable
    <3>4. q = CreatePresetMultipleRegisters(point.address, pending)
      BY <2>3, <3>2, <3>3 DEF q, WriteRegisters, SingleFrame
    <3>5. /\ mem' \in Memory
          /\ \A a \in Addresses :
                mem'[a] = IF a - point.address \in 0..(Type.size - 1)
                          THEN pending[a - point.address + 1].high * Base + pending[a - point.address + 1].low
                          ELSE mem[a]
      <4>1. mem' = Written(mem, CreatePresetMultipleRegisters(point.address, pending))  BY <1>1, <3>4
      <4>2. Type.size \in Nat  BY <1>6
      <4> DEFINE w == mem'  ad == point.address  m == mem  n == Type.size  rs == pending
      <4>3. m \in Memory /\ ad \in Nat /\ n \in Nat /\ rs \in [1..n -> Register]
            /\ w = Written(m, CreatePresetMultipleRegisters(ad, rs))
        BY <1>5, <1>6, <3>1, <4>1
      <4> HIDE DEF w, ad, m, n, rs
      <4>4. /\ w \in Memory
            /\ \A a \in Addresses :
                  w[a] = IF a - ad \in 0..(n - 1) THEN rs[a - ad + 1].high * Base + rs[a - ad + 1].low ELSE m[a]
        BY <4>3, WrittenRegisters
      <4> QED  BY <4>4 DEF w, ad, m, n, rs
    <3>6. \A i \in 1..Type.size : mem'[point.address + i - 1] = Stored(Ordered(Type, Intended)[i], hf)
      <4> TAKE i \in 1..Type.size
      <4>1. i - 1 \in 0..(Type.size - 1) /\ point.address + (i - 1) = point.address + i - 1  BY <1>6
      <4>2. point.address + i - 1 \in Addresses  BY <4>1, PointThere
      <4>3. (point.address + i - 1) - point.address = i - 1 /\ (i - 1) + 1 = i  BY <1>6
      <4>4. mem'[point.address + i - 1] = pending[i].high * Base + pending[i].low
        BY <3>5, <4>1, <4>2, <4>3
      <4> QED  BY <3>1, <4>4
    <3>7. InPlace'  BY <1>1, <1>2, <1>3, <2>3, <3>6 DEF InPlace, hf
    <3> QED  BY <3>5, <3>7 DEF Elsewhere
  <2> QED  BY <2>1, <2>2, <2>3
<1>8. PathTypes'  BY <1>1, <1>2, <1>5, <1>7 DEF PathTypes
<1>9. OthersKept'  BY <1>1, <1>2, <1>4, <1>7 DEF OthersKept
<1>10. Underway'
  BY <1>1, <1>2, <1>3, <1>4, <1>9 DEF Underway
<1>11. Delivered'  BY <1>2, <1>7, <1>9 DEF Delivered
<1> QED  BY <1>1, <1>8, <1>10, <1>11 DEF OnItsWay, ShownAsAsked

(* The reply reaches the point's place, and gives back what is there.       *)
LEMMA UpdateGivesBack ==
    ASSUME PathTypes, meant \in Samples(Type), InPlace, ~Lossy
    PROVE  LET q == CreateRead(Type.table, query.first, query.count)
               values == DecodeReply(point.transport, q, ReadReply(point.transport, mem, q))
           IN /\ values # NoReply /\ Len(values) \in Nat /\ point.address - query.first < Len(values)
              /\ Update(values) = Held(Type, Intended)
<1> DEFINE q == CreateRead(Type.table, query.first, query.count)
           values == DecodeReply(point.transport, q, ReadReply(point.transport, mem, q))
           index == point.address - query.first
<1>1. /\ query.first \in Nat /\ query.count \in Nat
      /\ query.first..(query.first + query.count - 1) \subseteq Addresses
      /\ index \in Nat /\ index + Type.size <= query.count
      /\ point.address \in Nat /\ point.transport \in Transports /\ mem \in Memory
      /\ Type.size \in Nat \ {0} /\ Intended \in Int
  BY PointThere, PointFields, TypeFields, IntendedType DEF PathTypes
<1>2. query.first + index = point.address  BY <1>1
<1>5. q = CreateRead(Type.table, query.first, query.count)  OBVIOUS
<1> HIDE DEF q
<1>6. values = DecodeReply(point.transport, q, ReadReply(point.transport, mem, q))  OBVIOUS
<1> HIDE DEF values
<1>3. CASE IsBit(Type)
  <2>1. Type.table \in {"coil", "digital"}  BY <1>3, TypeFields
  <2>2. /\ values # NoReply /\ Len(values) \in Nat /\ query.count <= Len(values)
        /\ \A i \in 0..(query.count - 1) : values[i + 1] = mem[query.first + i]
    <3> DEFINE m == mem  tr == point.transport  table == Type.table  first == query.first  count == query.count
    <3>1. /\ m \in Memory /\ tr \in Transports /\ table \in {"coil", "digital"}
          /\ InReach(first, count) /\ values = Answer(tr, m, table, first, count)
      BY <1>1, <1>5, <1>6, <2>1 DEF InReach, Answer
    <3> HIDE DEF m, tr, table, first, count
    <3>2. /\ values # NoReply /\ Len(values) \in Nat /\ count <= Len(values)
          /\ \A i \in 0..(count - 1) : values[i + 1] = m[first + i]
      BY <3>1, ReadBits
    <3> QED  BY <3>2 DEF m, first, count
  <2>3. index \in 0..(query.count - 1) /\ index < Len(values)  BY <1>1, <2>2
  <2>4. values[index + 1] = mem[point.address]
    <3> HIDE DEF index
    <3> QED  BY <1>2, <2>2, <2>3
  <2>5. Update(values) = Held(Type, Intended)  BY <1>3, <2>4 DEF Update, InPlace
  <2> QED  BY <2>2, <2>3, <2>5 DEF values, q
<1>4. CASE ~IsBit(Type)
  <2>1. Type.table \in {"holding", "input"} /\ Type \in RegisterTypes  BY <1>4, TypeFields
  <2>2. /\ values # NoReply
        /\ values = [i \in 1..query.count |-> [high |-> mem[query.first + i - 1] \div Base,
                                             low |-> mem[query.first + i - 1] % Base]]
    <3> DEFINE m == mem  tr == point.transport  table == Type.table  first == query.first  count == query.count
    <3>1. /\ m \in Memory /\ tr \in Transports /\ table \in {"holding", "input"}
          /\ InReach(first, count) /\ values = Answer(tr, m, table, first, count)
      BY <1>1, <1>5, <1>6, <2>1 DEF InReach, Answer
    <3> HIDE DEF m, tr, table, first, count
    <3>2. /\ values # NoReply
          /\ values = [i \in 1..count |-> [high |-> m[first + i - 1] \div Base, low |-> m[first + i - 1] % Base]]
      BY <3>1, ReadRegisters
    <3> QED  BY <3>2 DEF m, first, count
  <2>3. Len(values) = query.count /\ Len(values) \in Nat /\ index < Len(values)  BY <1>1, <2>2
  <2>4. SetRegisterValue(Type, values, index) = [i \in 1..Type.size |-> values[index + i]]
    <3> HIDE DEF index
    <3>1. Type.size <= Len(values) - index  BY <1>1, <2>3
    <3> QED  BY <3>1 DEF SetRegisterValue
  <2>6. \A i \in 1..Type.size : values[index + i] = Read(Type, point.small, Intended)[i]
    <3> TAKE i \in 1..Type.size
    <3>1. index + i \in 1..query.count /\ query.first + (index + i) - 1 = point.address + i - 1  BY <1>1
    <3>2. mem[point.address + i - 1] = Stored(Ordered(Type, Intended)[i], HighFirst(Type, point.small))
      BY <1>4 DEF InPlace
    <3> HIDE DEF index
    <3> QED  BY <2>2, <3>1, <3>2 DEF Read
  <2>7. SetRegisterValue(Type, values, index) = Read(Type, point.small, Intended)
    <3>1. SetRegisterValue(Type, values, index) = [i \in 1..Type.size |-> Read(Type, point.small, Intended)[i]]
      BY <2>4, <2>6
    <3> QED  BY <3>1 DEF Read
  <2>8. GetValue(Type, point.small, Read(Type, point.small, Intended)) = Held(Type, Intended)
    BY <1>1, <2>1, PointFields, ValueBack DEF Lossy
  <2>9. Update(values) = Held(Type, Intended)  BY <1>4, <2>7, <2>8 DEF Update
  <2> QED  BY <2>2, <2>3, <2>9 DEF values, q
<1> QED  BY <1>3, <1>4

LEMMA ReadBackStep ==
    ASSUME PathTypes, OnItsWay, ReadBack
    PROVE  PathTypes' /\ OnItsWay'
<1> DEFINE q == CreateRead(Type.table, query.first, query.count)
           values == DecodeReply(point.transport, q, ReadReply(point.transport, mem, q))
<1>1. /\ UNCHANGED << point, query >> /\ meant' = meant /\ mem' = mem /\ before' = before
      /\ stage = "read" /\ stage' = "shown"
      /\ cache' = IF values = NoReply \/ point.address - query.first >= Len(values) THEN cache
                  ELSE Processed(InLogic, Update(values))
  BY DEF ReadBack
<1>2. /\ Type' = Type /\ OutLogic' = OutLogic /\ InLogic' = InLogic
      /\ SingleFrame' = SingleFrame /\ Lossy' = Lossy /\ \A a : Elsewhere(a)' = Elsewhere(a)
  BY <1>1, SamePoint
<1>3. Intended' = Intended  BY <1>1, <1>2 DEF Intended
<1>4. PathTypes'  BY <1>1, <1>2 DEF PathTypes
<1>5. meant \in Samples(Type) /\ OthersKept /\ (~SingleFrame => InPlace)
  BY <1>1 DEF PathTypes, OnItsWay, Delivered
<1>6. Delivered'  BY <1>1, <1>2, <1>3, <1>5 DEF Delivered, OthersKept, InPlace
<1>7. ASSUME ~Lossy PROVE cache' = Processed(InLogic, Held(Type, Intended))
  <2>1. /\ values # NoReply /\ Len(values) \in Nat /\ point.address - query.first < Len(values)
        /\ Update(values) = Held(Type, Intended)
    BY <1>5, <1>7, UpdateGivesBack DEF Lossy
  <2> HIDE DEF values
  <2>2. ~(point.address - query.first >= Len(values))
    <3>1. point.address - query.first \in Nat  BY PointThere
    <3> QED  BY <2>1, <3>1
  <2> QED  BY <1>1, <2>1, <2>2
<1>8. ShownAsAsked'  BY <1>1, <1>2, <1>3, <1>7 DEF ShownAsAsked
<1> QED  BY <1>1, <1>4, <1>6, <1>8 DEF OnItsWay, Underway

LEMMA PathInitial == PathInit => PathTypes /\ OnItsWay
<1> SUFFICES ASSUME PathInit PROVE PathTypes /\ OnItsWay  OBVIOUS
<1>1. mem \in Memory /\ before \in Memory  BY DEF PathInit, Memory
<1>2. point \in Points /\ query \in Reads /\ Covers(query, point) /\ stage = "idle"  BY DEF PathInit
<1> QED  BY <1>1, <1>2 DEF PathTypes, OnItsWay, Underway, Delivered, ShownAsAsked

LEMMA PathStep == PathTypes /\ OnItsWay /\ [PathNext]_pathVars => PathTypes' /\ OnItsWay'
<1> SUFFICES ASSUME PathTypes, OnItsWay, [PathNext]_pathVars PROVE PathTypes' /\ OnItsWay'
  OBVIOUS
<1>1. CASE \E x \in Samples(Type) : WriteValue(x)  BY <1>1, WriteValueStep
<1>2. CASE \E x \in Samples(Type) : Measure(x)  BY <1>2, MeasureStep
<1>3. CASE SendWrite  BY <1>3, SendWriteStep
<1>4. CASE ReadBack  BY <1>4, ReadBackStep
<1>5. CASE UNCHANGED pathVars
  <2>1. /\ UNCHANGED << point, query >> /\ UNCHANGED << stage, pending, sent, mem, before, meant, cache >>
    BY <1>5 DEF pathVars
  <2>2. /\ Type' = Type /\ OutLogic' = OutLogic /\ InLogic' = InLogic
        /\ SingleFrame' = SingleFrame /\ Lossy' = Lossy /\ \A a : Elsewhere(a)' = Elsewhere(a)
    BY <2>1, SamePoint
  <2>3. Intended' = Intended /\ (OthersKept' <=> OthersKept)  BY <2>1, <2>2 DEF Intended, OthersKept
  <2>4. InPlace' <=> InPlace  BY <2>1, <2>2, <2>3 DEF InPlace
  <2>5. PathTypes'  BY <2>1, <2>2 DEF PathTypes
  <2> QED  BY <2>1, <2>2, <2>3, <2>4, <2>5 DEF OnItsWay, Underway, Delivered, ShownAsAsked
<1> QED  BY <1>1, <1>2, <1>3, <1>4, <1>5 DEF PathNext

LEMMA PathInvariant == PathSpec => [](PathTypes /\ OnItsWay)
BY PathInitial, PathStep, PTL DEF PathSpec

(* What the tree shows is what the in-logic makes of the value written or    *)
(* measured, as far as its type can hold it: update_value_from_source finds  *)
(* in the reply what _write_value sent, or the device has.                  *)
THEOREM PointsAreShown == PathSpec => []ShownAsAsked
<1>1. PathTypes /\ OnItsWay => ShownAsAsked  BY DEF OnItsWay
<1> QED  BY <1>1, PathInvariant, PTL

(* The registers of the device, read in the order of the type, are the       *)
(* number that was to be written.                                           *)
LEMMA DeviceNumberIs ==
    ASSUME PathTypes, ~IsBit(Type), meant \in Samples(Type), InPlace
    PROVE  DeviceNumber = Intended % Span(Type.size)
<1> DEFINE hf == HighFirst(Type, point.small)
           ordered == Ordered(Type, Intended)
           ws == [i \in 1..Type.size |->
                    LET w == mem[point.address + i - 1]
                    IN IF hf THEN w ELSE (w % Base) * Base + w \div Base]
<1>1. Type \in RegisterTypes /\ Type.size \in Sizes /\ Intended \in Int /\ hf \in BOOLEAN
  BY TypeFields, IntendedType, PointFields
<1>2. ordered \in [1..Type.size -> 0..(Word - 1)] /\ InOrder(Type, ordered) = Words(Intended, Type.size)
  BY <1>1, OrderedType
<1>3. \A i \in 1..Type.size : mem[point.address + i - 1] = Stored(ordered[i], hf)
  BY DEF InPlace
<1> HIDE DEF ordered, hf
<1>4. \A i \in 1..Type.size : (IF hf THEN Stored(ordered[i], hf) ELSE Swapped(Stored(ordered[i], hf))) = ordered[i]
  <2> TAKE i \in 1..Type.size
  <2>1. ordered[i] \in 0..(Word - 1)  BY <1>2
  <2> QED  BY <1>1, <2>1, RegisterBack
<1>5. ws = [i \in 1..Type.size |-> ordered[i]]
  BY <1>3, <1>4 DEF Swapped
<1>6. ws = ordered  BY <1>2, <1>5
<1>7. DeviceNumber = Number(IF Type.first = "L" THEN ws ELSE Reverse(ws))
  BY DEF DeviceNumber, hf
<1> HIDE DEF ws
<1>8. DeviceNumber = Number(Words(Intended, Type.size))  BY <1>2, <1>6, <1>7 DEF InOrder
<1> QED  BY <1>1, <1>8, NumberOfWords

(* After a write the device has the value in the format of its type, in the  *)
(* place of the point and nowhere else: write_holding_register and           *)
(* force_coil_status, but for the serial frame for one register.            *)
THEOREM DeviceSeesWhatIsMeant == PathSpec => []DeviceSees
<1>1. PathTypes /\ OnItsWay => DeviceSees
  <2> SUFFICES ASSUME PathTypes, OnItsWay, stage \in {"read", "shown"} PROVE DeviceSees
    BY DEF DeviceSees
  <2>1. OthersKept /\ (~SingleFrame => InPlace) /\ meant \in Samples(Type)
    BY DEF OnItsWay, Delivered, PathTypes
  <2>2. ~SingleFrame => IF IsBit(Type) THEN mem[point.address] = Held(Type, Intended)
                        ELSE DeviceNumber = Intended % Span(Type.size)
    BY <2>1, DeviceNumberIs DEF InPlace
  <2> QED  BY <2>1, <2>2 DEF DeviceSees, OthersKept
<1> QED  BY <1>1, PathInvariant, PTL

(* The numbers a type is for.                                               *)
InRange(t, x) ==
    LET n == Span(t.size)
    IN CASE t.kind = "bit" -> x \in {0, 1}
         [] t.kind = "float" \/ (t.kind = "uint" /\ t.size = 1) -> x \in 0..(n - 1)
         [] OTHER -> -n <= 2 * x /\ 2 * x < n

LEMMA HeldIsExact ==
    ASSUME NEW t \in RegisterTypes \cup BitTypes, NEW x \in Int, InRange(t, x)
    PROVE  Held(t, x) = x
<1>1. CASE t.kind = "bit"
  BY <1>1 DEF Held, InRange
<1>2. CASE t.kind # "bit"
  <2> DEFINE n == Span(t.size)  r == x % n
  <2>1. t.size \in 1..4
    <3>1. CASE t \in RegisterTypes  BY <3>1, RegisterTypeFields DEF Sizes
    <3>2. CASE t \in BitTypes  BY <3>2, BitTypeFields
    <3> QED  BY <3>1, <3>2
  <2>2. n \in Nat \ {0}  BY <2>1, WeightType, Zenon
  <2>3. /\ Held(t, x) = IF t.kind = "float" \/ (t.kind = "uint" /\ t.size = 1) THEN r
                        ELSE IF 2 * r < n THEN r ELSE r - n
        /\ IF t.kind = "float" \/ (t.kind = "uint" /\ t.size = 1) THEN x \in 0..(n - 1)
           ELSE -n <= 2 * x /\ 2 * x < n
    BY <1>2 DEF Held, InRange
  <2> HIDE DEF n
  <2>4. ASSUME 0 <= x, x < n PROVE r = x
    <3>1. x \in 0..(n - 1) /\ n * 0 + x = x  BY <2>2, <2>4
    <3>2. (n * 0 + x) % n = x  BY <2>2, <3>1, OneQuotient
    <3> QED  BY <3>1, <3>2
  <2>5. ASSUME -n <= x, x < 0 PROVE r = x + n
    <3>1. x + n \in 0..(n - 1) /\ n * (-1) + (x + n) = x  BY <2>2, <2>5
    <3>2. (n * (-1) + (x + n)) % n = x + n
      <4> DEFINE y == x + n
      <4>1. y \in 0..(n - 1)  BY <3>1
      <4> HIDE DEF y
      <4>2. -1 \in Int  OBVIOUS
      <4>3. (n * (-1) + y) % n = y  BY <2>2, <4>1, <4>2, OneQuotient
      <4> QED  BY <4>3 DEF y
    <3> QED  BY <3>1, <3>2
  <2> HIDE DEF r
  <2>6. CASE x < 0
    <3>1. -n <= 2 * x /\ ~(t.kind = "float" \/ (t.kind = "uint" /\ t.size = 1))  BY <2>2, <2>3, <2>6
    <3>2. -n <= x /\ r = x + n  BY <2>2, <2>5, <2>6, <3>1
    <3>3. ~(2 * r < n)  BY <2>2, <3>1, <3>2
    <3> QED  BY <2>2, <2>3, <3>1, <3>2, <3>3
  <2>7. CASE 0 <= x
    <3>1. x < n  BY <2>2, <2>3, <2>7
    <3>2. r = x  BY <2>4, <2>7, <3>1
    <3> QED  BY <2>3, <3>2
  <2> QED  BY <2>6, <2>7
<1> QED  BY <1>1, <1>2

(* A value that its type is for comes back without loss.                    *)
THEOREM ValuesComeBack ==
    PathSpec => [](stage = "shown" /\ ~Lossy /\ InRange(Type, Intended) => cache = Processed(InLogic, Intended))
<1>1. PathTypes /\ OnItsWay =>
         (stage = "shown" /\ ~Lossy /\ InRange(Type, Intended) => cache = Processed(InLogic, Intended))
  <2> SUFFICES ASSUME PathTypes, OnItsWay, stage = "shown", ~Lossy, InRange(Type, Intended)
               PROVE  cache = Processed(InLogic, Intended)
    OBVIOUS
  <2>1. meant \in Samples(Type)  BY DEF PathTypes
  <2>2. Intended \in Int /\ Type \in RegisterTypes \cup BitTypes  BY <2>1, IntendedType, PointFields
  <2>3. Held(Type, Intended) = Intended  BY <2>2, HeldIsExact
  <2> QED  BY <2>3 DEF OnItsWay, ShownAsAsked
<1> QED  BY <1>1, PathInvariant, PTL

(* The premise of PointPath: a query that was built covers the point of each *)
(* of its variables, so that the reply has all of its registers or its bit, *)
(* but for a TCP register that encloses a later one.                        *)
PlanCovers ==
    \A q \in Queries : \A v \in q.vars :
        \/ Encloses(q, v)
        \/ \A p \in Points : p.address = v.addr /\ p.type.size = v.width
                              => Covers([first |-> q.start, count |-> q.count], p)

COROLLARY QueriesCoverPoints == Spec => []PlanCovers
<1>1. VariablesServed => PlanCovers
  <2> SUFFICES ASSUME VariablesServed, NEW q \in Queries, NEW v \in q.vars, ~Encloses(q, v),
                      NEW p \in Points, p.address = v.addr, p.type.size = v.width
               PROVE  Covers([first |-> q.start, count |-> q.count], p)
    BY DEF PlanCovers
  <2>1. Serves(q, v)  BY DEF VariablesServed
  <2>2. p.address \in Nat /\ p.type.size \in Nat
    <3>1. CASE p.type \in RegisterTypes  BY <3>1, PathAssumption DEF RegisterTypes
    <3>2. CASE p.type \in BitTypes  BY <3>2, PathAssumption DEF BitTypes
    <3> QED  BY <3>1, <3>2, PathAssumption
  <2> QED  BY <2>1, <2>2 DEF Serves, End, Covers
<1> QED  BY <1>1, VariablesAreServed, PTL

=============================================================================
