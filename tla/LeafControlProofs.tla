------------------------- MODULE LeafControlProofs -------------------------
(***************************************************************************)
(* Proofs about LeafControl, for every set of points, clients, values and  *)
(* priorities.  CorrectionOwed is inductive together with TypeOK;          *)
(* SettledEnforced follows from it.                                        *)
(***************************************************************************)
EXTENDS LeafControl, TLAPS

Outs == [Prios -> Maybe(Values)]

-----------------------------------------------------------------------------
(* PrioritizedValue.                                                        *)

(* get_value is the value at the one active priority.                       *)
LEMMA ActiveIsHighest ==
    ASSUME NEW out, NEW i \in Prios, IsActive(out, i)
    PROVE  Highest(out) = out[i]
<1>1. ASSUME NEW j \in Prios, IsActive(out, j) PROVE j = i
  BY <1>1, LeafAssumption DEF IsActive, Prios
<1>2. (CHOOSE j \in Prios : IsActive(out, j)) = i
  BY <1>1
<1> QED
  BY <1>2 DEF Highest

(* get_value returns a value or the empty one.                              *)
LEMMA HighestType ==
    ASSUME NEW out \in Outs
    PROVE  Highest(out) \in Maybe(Values)
<1>1. CASE \E i \in Prios : IsActive(out, i)
  <2>1. PICK i \in Prios : IsActive(out, i)
    BY <1>1
  <2> QED
    BY <2>1, ActiveIsHighest DEF Outs
<1>2. CASE ~ \E i \in Prios : IsActive(out, i)
  BY <1>2 DEF Highest, Maybe
<1> QED
  BY <1>1, <1>2

(* A value put at a priority nothing outranks is the one get_value returns. *)
LEMMA PutOnTop ==
    ASSUME NEW out \in Outs, NEW i \in Prios, NEW v \in Values, ~Outranked(out, i)
    PROVE  Highest(Put(out, i, v)) = v
<1>1. Put(out, i, v) = [out EXCEPT ![i] = v]
  BY DEF Put
<1>2. IsActive(Put(out, i, v), i)
  BY <1>1, LeafAssumption DEF IsActive, Outranked, Outs, Prios
<1> QED
  BY <1>1, <1>2, ActiveIsHighest DEF Outs

(* What happens at and below a priority that is outranked does not matter.  *)
LEMMA OutrankedIsHidden ==
    ASSUME NEW out, NEW new, NEW i \in Prios, Outranked(out, i),
           \A j \in Prios : j < i => new[j] = out[j]
    PROVE  Highest(new) = Highest(out)
<1>1. PICK k \in Prios : k < i /\ out[k] # NoValue
  BY DEF Outranked
<1>2. ASSUME NEW j \in Prios PROVE IsActive(out, j) <=> IsActive(new, j)
  <2>1. CASE j < i
    BY <2>1, <1>1, LeafAssumption DEF IsActive, Prios
  <2>2. CASE ~(j < i)
    BY <2>2, <1>1, LeafAssumption DEF IsActive, Prios
  <2> QED
    BY <2>1, <2>2
<1>3. CASE \E j \in Prios : IsActive(out, j)
  <2>1. PICK j \in Prios : IsActive(out, j)
    BY <1>3
  <2>2. j < i
    BY <2>1, <1>1, LeafAssumption DEF IsActive, Prios
  <2>3. Highest(out) = out[j] /\ Highest(new) = new[j]
    BY <2>1, <1>2, ActiveIsHighest
  <2> QED
    BY <2>2, <2>3
<1>4. CASE ~ \E j \in Prios : IsActive(out, j)
  BY <1>4, <1>2 DEF Highest
<1> QED
  BY <1>3, <1>4

(* A momentary write that is not outranked leaves no out-value.             *)
LEMMA WriteLeavesNone ==
    ASSUME NEW out \in Outs, NEW i \in Prios, NEW v \in Values,
           ~Outranked(ClearLower(out, i), i)
    PROVE  Highest(Unset(Put(ClearLower(out, i), i, v), i)) = NoValue
<1> DEFINE cleared == ClearLower(out, i)
           new == Unset(Put(cleared, i, v), i)
<1>1. \A j \in Prios : j # i => cleared[j] = NoValue
  BY LeafAssumption DEF Outranked, ClearLower, Prios
<1>2. cleared \in [Prios -> Maybe(Values)]
  BY DEF ClearLower, Outs, Maybe
<1>3. Put(cleared, i, v) = [cleared EXCEPT ![i] = v]
  BY DEF Put
<1> HIDE DEF cleared
<1>4. new = [[cleared EXCEPT ![i] = v] EXCEPT ![i] = NoValue]
  BY <1>3 DEF Unset
<1>5. \A j \in Prios : new[j] = NoValue
  BY <1>1, <1>2, <1>4
<1>6. ~ \E j \in Prios : IsActive(new, j)
  BY <1>5 DEF IsActive
<1>7. Highest(new) = NoValue
  BY <1>6 DEF Highest
<1> QED
  BY <1>7 DEF cleared

(* Set, cleared and unset out-values are out-values.                        *)
LEMMA OutsClosed ==
    ASSUME NEW out \in Outs, NEW i \in Prios, NEW v \in Values
    PROVE  /\ Put(out, i, v) \in Outs
           /\ Unset(out, i) \in Outs
           /\ ClearLower(out, i) \in Outs
BY DEF Put, Unset, ClearLower, Outs, Maybe

-----------------------------------------------------------------------------
(* What the three operations of a client do to a leaf, in one statement:    *)
(* the out-value of p is replaced, and w is left to be written.             *)
LEMMA OperationEffect ==
    ASSUME TypeOK, NEW c \in Clients, ClientOperation(c)
    PROVE  \E p \in Points, out \in Outs, w \in Maybe(Values) :
              /\ IsIdle(c)
              /\ Leave(c, p, out, w)
              /\ \/ Highest(out) \in {NoValue, w}
                 \/ w = NoValue /\ Highest(out) = Active(p)
<1>1. PICK p \in Points, i \in Prios :
         \/ \E v \in Values : SetValue(c, p, i, v)
         \/ \E v \in Values : WriteValue(c, p, i, v)
         \/ UnsetValue(c, p, i)
  BY DEF ClientOperation
<1> DEFINE old == outValue[p]
<1>2. old \in Outs
  BY DEF TypeOK, Outs
<1>3. Active(p) = Highest(old)
  BY DEF Active
<1> HIDE DEF old
<1>4. ASSUME NEW v \in Values, SetValue(c, p, i, v)
      PROVE  \E out \in Outs, w \in Maybe(Values) :
                /\ IsIdle(c)
                /\ Leave(c, p, out, w)
                /\ \/ Highest(out) \in {NoValue, w}
                   \/ w = NoValue /\ Highest(out) = Active(p)
  <2> DEFINE out == Put(old, i, v)
             w == IF Outranked(old, i) THEN NoValue ELSE v
  <2>1. out \in Outs /\ w \in Maybe(Values)
    BY <1>2, OutsClosed DEF Maybe
  <2>2. IsIdle(c) /\ Leave(c, p, out, w)
    BY <1>4 DEF SetValue, old
  <2>3. CASE Outranked(old, i)
    <3>1. \A j \in Prios : j < i => out[j] = old[j]
      BY <1>2, LeafAssumption DEF Put, Outs, Prios
    <3>2. Highest(out) = Highest(old)
      BY <2>3, <3>1, OutrankedIsHidden
    <3> QED
      BY <2>1, <2>2, <2>3, <3>2, <1>3
  <2>4. CASE ~Outranked(old, i)
    <3>1. Highest(out) = v
      BY <2>4, <1>2, PutOnTop
    <3> QED
      BY <2>1, <2>2, <2>4, <3>1
  <2> QED
    BY <2>3, <2>4
<1>5. ASSUME NEW v \in Values, WriteValue(c, p, i, v)
      PROVE  \E out \in Outs, w \in Maybe(Values) :
                /\ IsIdle(c)
                /\ Leave(c, p, out, w)
                /\ \/ Highest(out) \in {NoValue, w}
                   \/ w = NoValue /\ Highest(out) = Active(p)
  <2> DEFINE cleared == ClearLower(old, i)
  <2>0. cleared \in Outs
    BY <1>2, OutsClosed
  <2>1. CASE Outranked(cleared, i)
    <3> DEFINE out == Put(cleared, i, v)
    <3>1. out \in Outs
      BY <2>0, OutsClosed
    <3>2. IsIdle(c) /\ Leave(c, p, out, NoValue)
      BY <1>5, <2>1 DEF WriteValue, old
    <3>3. \A j \in Prios : j < i => out[j] = old[j]
      BY <1>2, LeafAssumption DEF Put, ClearLower, Outs, Prios
    <3>4. Outranked(old, i)
      BY <2>1, LeafAssumption DEF Outranked, ClearLower, Prios
    <3>5. Highest(out) = Highest(old)
      BY <3>3, <3>4, OutrankedIsHidden
    <3> QED
      BY <3>1, <3>2, <3>5, <1>3 DEF Maybe
  <2>2. CASE ~Outranked(cleared, i)
    <3> DEFINE out == Unset(Put(cleared, i, v), i)
    <3>1. out \in Outs
      BY <2>0, OutsClosed
    <3>2. IsIdle(c) /\ Leave(c, p, out, v)
      BY <1>5, <2>2 DEF WriteValue, old
    <3>3. Highest(out) = NoValue
      BY <1>2, <2>2, WriteLeavesNone
    <3> QED
      BY <3>1, <3>2, <3>3 DEF Maybe
  <2> QED
    BY <2>1, <2>2
<1>6. ASSUME UnsetValue(c, p, i)
      PROVE  \E out \in Outs, w \in Maybe(Values) :
                /\ IsIdle(c)
                /\ Leave(c, p, out, w)
                /\ \/ Highest(out) \in {NoValue, w}
                   \/ w = NoValue /\ Highest(out) = Active(p)
  <2> DEFINE out == Unset(old, i)
  <2>1. out \in Outs
    BY <1>2 DEF Outs, Unset, Maybe
  <2>2. IsIdle(c) /\ Leave(c, p, out, Highest(out))
    BY <1>6 DEF UnsetValue, old
  <2>3. Highest(out) \in Maybe(Values)
    BY <2>1, HighestType
  <2> QED
    BY <2>1, <2>2, <2>3
<1> QED
  BY <1>1, <1>4, <1>5, <1>6

-----------------------------------------------------------------------------
(* What a value becomes in the queue and on the way back.                   *)
LEMMA LogicTypes ==
    /\ \A v \in Values : OutLogic[v] \in Raw /\ InLogic[OutLogic[v]] = v
    /\ \A r \in Raw : InLogic[r] \in Values
BY LeafAssumption, RoundTrip

LEMMA InitTypeOK == Init => TypeOK
BY LeafAssumption DEF Init, TypeOK, PollShape, Nothing, Maybe

LEMMA OperationTypeOK ==
    ASSUME TypeOK, NEW c \in Clients, ClientOperation(c)
    PROVE  TypeOK'
<1>1. PICK p \in Points, out \in Outs, w \in Maybe(Values) : Leave(c, p, out, w)
  BY OperationEffect
<1>2. outValue' = [outValue EXCEPT ![p] = out]
  BY <1>1 DEF Leave
<1>3. toWrite' = [toWrite EXCEPT ![c] = [toWrite[c] EXCEPT ![p] = w]]
  BY <1>1 DEF Leave
<1>4. UNCHANGED << cache, pending, pollVars, device, slip >>
  BY <1>1 DEF Leave
<1>5. outValue' \in [Points -> [Prios -> Maybe(Values)]]
  BY <1>2 DEF TypeOK, Outs
<1>6. toWrite' \in [Clients -> [Points -> Maybe(Values)]]
  BY <1>3 DEF TypeOK
<1> QED
  BY <1>4, <1>5, <1>6 DEF TypeOK, PollShape, pollVars, Nothing

LEMMA PollTypeOK ==
    ASSUME TypeOK, PollStep
    PROVE  TypeOK'
<1> USE LogicTypes DEF TypeOK, PollShape, Nothing, Maybe
<1>1. CASE Connect
  BY <1>1 DEF Connect
<1>2. CASE NoWrite
  BY <1>2 DEF NoWrite
<1>3. CASE SendFails
  BY <1>3 DEF SendFails
<1>4. CASE QueryAnswered
  BY <1>4 DEF QueryAnswered
<1>5. CASE QueryFails
  BY <1>5 DEF QueryFails
<1>6. CASE PublishDone
  BY <1>6 DEF PublishDone
<1>7. ASSUME NEW p \in Points, TakeWrite(p) PROVE TypeOK'
  BY <1>7 DEF TakeWrite
<1>8. ASSUME NEW p \in Points, SendTaken(p) PROVE TypeOK'
  <2>1. device' \in [Points -> Raw]
    BY <1>8 DEF SendTaken
  <2>2. sending' = Nothing
    BY <1>8 DEF SendTaken
  <2>3. pc' \in {"query", "closed"}
    BY <1>8 DEF SendTaken
  <2> QED
    BY <1>8, <2>1, <2>2, <2>3 DEF SendTaken
<1>9. ASSUME NEW p \in Points, SendIgnored(p) PROVE TypeOK'
  BY <1>9 DEF SendIgnored
<1>10. ASSUME NEW p \in Points, PublishChange(p) PROVE TypeOK'
  BY <1>10 DEF PublishChange
<1>11. ASSUME NEW p \in Points, PublishSame(p) PROVE TypeOK'
  BY <1>11 DEF PublishSame
<1>12. ASSUME NEW p \in Points, CatchChange(p) PROVE TypeOK'
  <2>1. Active(p) \in Maybe(Values)
    BY HighestType DEF Active, Outs
  <2>2. forcing = Nothing /\ catching' = {}
    BY <1>12 DEF CatchChange
  <2>3. UNCHANGED << outValue, cache, toWrite, pending, sending, reply, device, slip >>
    BY <1>12 DEF CatchChange
  <2>4. CASE ForceBack(Active(p), cache[p])
    <3>1. forcing' = [forcing EXCEPT ![p] = Active(p)] /\ pc' = "force"
      BY <1>12, <2>4 DEF CatchChange
    <3>2. Active(p) # cache[p]
      BY <2>4 DEF ForceBack
    <3>3. sending = Nothing
      BY <1>12 DEF CatchChange
    <3> QED
      BY <2>1, <2>2, <2>3, <3>1, <3>2, <3>3
  <2>5. CASE ~ForceBack(Active(p), cache[p])
    <3>1. UNCHANGED forcing /\ pc' = "publish" /\ pc = "catch"
      BY <1>12, <2>5 DEF CatchChange
    <3> QED
      BY <2>2, <2>3, <3>1
  <2> QED
    BY <2>4, <2>5
<1>13. ASSUME NEW p \in Points, ForceValue(p) PROVE TypeOK'
  <2>1. forcing' = [forcing EXCEPT ![p] = NoValue] /\ pc' = "publish" /\ pc = "force"
    BY <1>13 DEF ForceValue
  <2>4. forcing' = Nothing
    <3>1. \A q \in Points : q # p => forcing[q] = NoValue
      BY <1>13 DEF ForceValue
    <3> QED
      BY <2>1, <3>1
  <2>2. pending' \in [Points -> Raw \cup {NoValue}]
    BY <1>13 DEF ForceValue, Queue
  <2>3. UNCHANGED << outValue, cache, toWrite, sending, reply, catching, device, slip >>
    BY <1>13 DEF ForceValue
  <2> QED
    BY <2>1, <2>2, <2>3, <2>4
<1> QED
  BY <1>1, <1>2, <1>3, <1>4, <1>5, <1>6, <1>7, <1>8, <1>9, <1>10, <1>11, <1>12, <1>13
     DEF PollStep

(* Types are preserved by every step, and the polling thread carries an     *)
(* entry of the queue only between taking it and sending it.                *)
THEOREM TypeInvariant == Spec => []TypeOK
<1>1. TypeOK /\ [Next]_vars => TypeOK'
  <2> SUFFICES ASSUME TypeOK, [Next]_vars PROVE TypeOK'
    OBVIOUS
  <2>1. ASSUME NEW c \in Clients, ClientOperation(c) PROVE TypeOK'
    BY <2>1, OperationTypeOK
  <2>2. ASSUME NEW c \in Clients, NEW p \in Points, HandToVariable(c, p) PROVE TypeOK'
    BY <2>2, LogicTypes DEF HandToVariable, Queue, pollVars, LateAndUnseen, TypeOK, PollShape, Nothing, Maybe
  <2>3. CASE PollStep
    BY <2>3, PollTypeOK
  <2>4. CASE Override
    BY <2>4, LogicTypes DEF Override, DeviceOverride, pollVars, TypeOK, PollShape, Nothing, Maybe
  <2>5. CASE UNCHANGED vars
    BY <2>5 DEF vars, TypeOK, PollShape, Nothing
  <2> QED
    BY <2>1, <2>2, <2>3, <2>4, <2>5 DEF Next
<1> QED
  BY <1>1, InitTypeOK, PTL DEF Spec

-----------------------------------------------------------------------------
(* CorrectionOwed, one point at a time.                                     *)
Owed(p) == Unenforced(p) /\ ~slip[p] => ChangeIsComing(p)

LEMMA OperationKeepsOwed ==
    ASSUME TypeOK, CorrectionOwed, NEW c \in Clients, ClientOperation(c), NEW q \in Points
    PROVE  Owed(q)'
<1>1. PICK p \in Points, out \in Outs, w \in Maybe(Values) :
         /\ IsIdle(c)
         /\ Leave(c, p, out, w)
         /\ \/ Highest(out) \in {NoValue, w}
            \/ w = NoValue /\ Highest(out) = Active(p)
  BY OperationEffect
<1>2. /\ outValue' = [outValue EXCEPT ![p] = out]
      /\ toWrite' = [toWrite EXCEPT ![c][p] = w]
      /\ UNCHANGED << cache, pending, sending, catching, forcing, device, slip >>
  BY <1>1 DEF Leave, pollVars
<1>3. toWrite[c] = Nothing
  BY <1>1 DEF IsIdle
<1>4. Owed(q)
  BY DEF CorrectionOwed, Owed
<1>5. CASE q # p
  <2>1. Active(q)' = Active(q)
    BY <1>2, <1>5 DEF Active, TypeOK
  <2>2. \A d \in Clients : toWrite'[d][q] = toWrite[d][q]
    BY <1>2, <1>5 DEF TypeOK
  <2> QED
    BY <1>2, <1>4, <2>1, <2>2 DEF Owed, Unenforced, ChangeIsComing
<1>6. CASE q = p
  <2>1. Active(q)' = Highest(out)
    BY <1>2, <1>6 DEF Active, TypeOK
  <2>2. toWrite'[c][q] = w
    BY <1>2, <1>6 DEF TypeOK
  <2>3. CASE Highest(out) \in {NoValue, w}
    BY <1>2, <2>1, <2>2, <2>3 DEF Owed, Unenforced, ChangeIsComing
  <2>4. CASE w = NoValue /\ Highest(out) = Active(p)
    <3>1. toWrite' = toWrite
      BY <1>2, <1>3, <2>4 DEF TypeOK, Nothing
    <3>2. Active(q)' = Active(q)
      BY <2>1, <2>4, <1>6
    <3> QED
      BY <1>2, <1>4, <3>1, <3>2 DEF Owed, Unenforced, ChangeIsComing
  <2> QED
    BY <1>1, <2>3, <2>4
<1> QED
  BY <1>5, <1>6

LEMMA HandingKeepsOwed ==
    ASSUME TypeOK, CorrectionOwed, NEW c \in Clients, NEW p \in Points,
           HandToVariable(c, p), NEW q \in Points
    PROVE  Owed(q)'
<1> DEFINE v == toWrite[c][p]
<1>1. /\ v \in Values
      /\ pending' = [pending EXCEPT ![p] = OutLogic[v]]
      /\ toWrite' = [toWrite EXCEPT ![c][p] = NoValue]
      /\ slip' = [slip EXCEPT ![p] = LateAndUnseen(p, v)]
      /\ UNCHANGED << outValue, cache, sending, catching, forcing, device >>
  BY DEF HandToVariable, Queue, pollVars, TypeOK, Maybe
<1> HIDE DEF v
<1>2. Active(q)' = Active(q)
  BY <1>1 DEF Active
<1>3. Owed(q)
  BY DEF CorrectionOwed, Owed
<1>4. CASE q # p
  <2>1. pending'[q] = pending[q] /\ slip'[q] = slip[q]
    BY <1>1, <1>4 DEF TypeOK
  <2>2. \A d \in Clients : toWrite'[d][q] = toWrite[d][q]
    BY <1>1, <1>4 DEF TypeOK
  <2> QED
    BY <1>1, <1>2, <1>3, <2>1, <2>2 DEF Owed, Unenforced, ChangeIsComing
<1>5. CASE q = p
  <2>1. slip'[q] = LateAndUnseen(q, v)
    BY <1>1, <1>5 DEF TypeOK
  <2>2. pending'[q] = OutLogic[v]
    BY <1>1, <1>5 DEF TypeOK
  <2>3. pending'[q] # NoValue /\ InLogic[pending'[q]] = v
    BY <1>1, <2>2, LogicTypes, LeafAssumption
  <2>4. CASE v # cache[q]
    BY <1>1, <2>3, <2>4 DEF Owed, ChangeIsComing
  <2>5. CASE v = cache[q] /\ Active(q) \in {NoValue, v}
    BY <1>1, <1>2, <2>5 DEF Owed, Unenforced
  <2>6. CASE v = cache[q] /\ Active(q) \notin {NoValue, v}
    BY <2>1, <2>6 DEF Owed, LateAndUnseen
  <2> QED
    BY <2>4, <2>5, <2>6
<1> QED
  BY <1>4, <1>5

LEMMA OverrideKeepsOwed ==
    ASSUME TypeOK, CorrectionOwed, NEW p \in Points, NEW r \in Raw,
           DeviceOverride(p, r), NEW q \in Points
    PROVE  Owed(q)'
<1>1. /\ device' = [device EXCEPT ![p] = r]
      /\ slip' = [slip EXCEPT ![p] = slip[p] \/ InLogic[r] = cache[p]]
      /\ UNCHANGED << outValue, cache, toWrite, pending, sending, catching, forcing >>
  BY DEF DeviceOverride, pollVars
<1>2. Active(q)' = Active(q)
  BY <1>1 DEF Active
<1>3. Owed(q)
  BY DEF CorrectionOwed, Owed
<1>4. CASE q # p
  <2>1. device'[q] = device[q] /\ slip'[q] = slip[q]
    BY <1>1, <1>4 DEF TypeOK
  <2> QED
    BY <1>1, <1>2, <1>3, <2>1 DEF Owed, Unenforced, ChangeIsComing
<1>5. CASE q = p
  <2>1. device'[q] = r
    BY <1>1, <1>5 DEF TypeOK
  <2>2. slip'[q] <=> (slip[q] \/ InLogic[r] = cache[q])
    BY <1>1, <1>5, Zenon DEF TypeOK
  <2>3. CASE ~slip'[q] /\ Unenforced(q)'
    <3>1. InLogic[r] # cache[q] /\ ChangeIsComing(q)
      BY <1>1, <1>2, <1>3, <2>2, <2>3 DEF Owed, Unenforced
    <3> QED
      BY <1>1, <2>1, <3>1 DEF Owed, ChangeIsComing
  <2> QED
    BY <2>3 DEF Owed
<1> QED
  BY <1>4, <1>5

LEMMA PollKeepsOwed ==
    ASSUME TypeOK, CorrectionOwed, PollStep, NEW q \in Points
    PROVE  Owed(q)'
<1>0. Owed(q)
  BY DEF CorrectionOwed, Owed
<1> USE <1>0 DEF Owed, Unenforced, ChangeIsComing, Active
<1>1. CASE Connect
  BY <1>1 DEF Connect
<1>2. CASE NoWrite
  BY <1>2 DEF NoWrite
<1>3. CASE SendFails
  <2>1. slip'[q] <=> (slip[q] \/ pending[q] # NoValue \/ sending[q] # NoValue)
    BY <1>3, Zenon DEF SendFails
  <2>2. pending'[q] = NoValue /\ sending'[q] = NoValue
    BY <1>3 DEF SendFails, Nothing
  <2>3. UNCHANGED << outValue, cache, toWrite, catching, forcing, device >>
    BY <1>3 DEF SendFails
  <2> QED
    BY <2>1, <2>2, <2>3
<1>4. CASE QueryAnswered
  BY <1>4 DEF QueryAnswered
<1>5. CASE QueryFails
  BY <1>5 DEF QueryFails
<1>6. CASE PublishDone
  BY <1>6 DEF PublishDone
<1>7. ASSUME NEW p \in Points, TakeWrite(p) PROVE Owed(q)'
  <2>1. sending[q] = NoValue
    BY <1>7 DEF TakeWrite, TypeOK, PollShape, Nothing
  <2>2. CASE q = p
    BY <1>7, <2>1, <2>2 DEF TakeWrite, TypeOK
  <2>3. CASE q # p
    BY <1>7, <2>1, <2>3 DEF TakeWrite, TypeOK
  <2> QED
    BY <2>2, <2>3
<1>8. ASSUME NEW p \in Points, SendTaken(p) PROVE Owed(q)'
  <2>1. /\ device' = [device EXCEPT ![p] = sending[p]]
        /\ sending' = [sending EXCEPT ![p] = NoValue]
        /\ UNCHANGED << outValue, cache, toWrite, pending, catching, forcing, slip >>
    BY <1>8 DEF SendTaken
  <2>2. CASE q = p
    BY <1>8, <2>1, <2>2 DEF SendTaken, TypeOK
  <2>3. CASE q # p
    BY <2>1, <2>3 DEF TypeOK
  <2> QED
    BY <2>2, <2>3
<1>9. ASSUME NEW p \in Points, SendIgnored(p) PROVE Owed(q)'
  <2>1. CASE q = p
    BY <1>9, <2>1 DEF SendIgnored, TypeOK
  <2>2. CASE q # p
    BY <1>9, <2>2 DEF SendIgnored, TypeOK
  <2> QED
    BY <2>1, <2>2
<1>10. ASSUME NEW p \in Points, PublishChange(p) PROVE Owed(q)'
  <2>1. CASE q = p
    BY <1>10, <2>1 DEF PublishChange, TypeOK
  <2>2. CASE q # p
    <3>1. catching = {}
      BY <1>10 DEF PublishChange, TypeOK, PollShape
    <3> QED
      BY <1>10, <2>2, <3>1 DEF PublishChange, TypeOK
  <2> QED
    BY <2>1, <2>2
<1>11. ASSUME NEW p \in Points, PublishSame(p) PROVE Owed(q)'
  BY <1>11 DEF PublishSame
<1>12. ASSUME NEW p \in Points, CatchChange(p) PROVE Owed(q)'
  <2>1. CASE q = p
    BY <1>12, <2>1 DEF CatchChange, ForceBack, TypeOK
  <2>2. CASE q # p
    <3>1. q \notin catching
      BY <1>12, <2>2 DEF CatchChange, TypeOK, PollShape
    <3> QED
      BY <1>12, <2>2, <3>1 DEF CatchChange, ForceBack, TypeOK
  <2> QED
    BY <2>1, <2>2
<1>13. ASSUME NEW p \in Points, ForceValue(p) PROVE Owed(q)'
  <2>1. /\ pending' = [pending EXCEPT ![p] = OutLogic[forcing[p]]]
        /\ forcing' = [forcing EXCEPT ![p] = NoValue]
        /\ forcing[p] \in Values /\ forcing[p] # cache[p]
        /\ UNCHANGED << outValue, cache, toWrite, sending, catching, device, slip >>
    BY <1>13 DEF ForceValue, Queue, TypeOK, PollShape, Maybe
  <2>2. CASE q = p
    BY <2>1, <2>2, LogicTypes, LeafAssumption DEF TypeOK
  <2>3. CASE q # p
    BY <2>1, <2>3 DEF TypeOK
  <2> QED
    BY <2>2, <2>3
<1> QED
  BY <1>1, <1>2, <1>3, <1>4, <1>5, <1>6, <1>7, <1>8, <1>9, <1>10, <1>11, <1>12, <1>13
     DEF PollStep

(* A difference between what is published and the out-value is always being *)
(* corrected, unless a command slipped.                                     *)
THEOREM CorrectionIsOwed == Spec => []CorrectionOwed
<1>1. Init => CorrectionOwed
  <2>1. ASSUME Init, NEW p \in Points PROVE Active(p) = NoValue
    <3>1. ~ \E i \in Prios : IsActive(outValue[p], i)
      BY <2>1 DEF Init, IsActive
    <3> QED
      BY <3>1 DEF Active, Highest
  <2> QED
    BY <2>1 DEF CorrectionOwed, Unenforced
<1>2. TypeOK /\ CorrectionOwed /\ [Next]_vars => CorrectionOwed'
  <2> SUFFICES ASSUME TypeOK, CorrectionOwed, [Next]_vars, NEW q \in Points
               PROVE  Owed(q)'
    BY DEF CorrectionOwed, Owed
  <2>1. ASSUME NEW c \in Clients, ClientOperation(c) PROVE Owed(q)'
    BY <2>1, OperationKeepsOwed
  <2>2. ASSUME NEW c \in Clients, NEW p \in Points, HandToVariable(c, p) PROVE Owed(q)'
    BY <2>2, HandingKeepsOwed
  <2>3. CASE PollStep
    BY <2>3, PollKeepsOwed
  <2>4. CASE Override
    BY <2>4, OverrideKeepsOwed DEF Override
  <2>5. CASE UNCHANGED vars
    BY <2>5 DEF vars, CorrectionOwed, Owed, Unenforced, ChangeIsComing, Active
  <2> QED
    BY <2>1, <2>2, <2>3, <2>4, <2>5 DEF Next
<1> QED
  BY <1>1, <1>2, TypeInvariant, PTL DEF Spec

(* At rest, the out-value is what is published, unless a command slipped.   *)
THEOREM SettledIsEnforced == Spec => []SettledEnforced
<1>1. CorrectionOwed => SettledEnforced
  BY DEF CorrectionOwed, SettledEnforced, Unenforced, Settled, ChangeIsComing
<1> QED
  BY <1>1, CorrectionIsOwed, PTL

-----------------------------------------------------------------------------
(* What one client is about to write is still the out-value, if any is set. *)
HandsActive ==
    \A c \in Clients, p \in Points :
        toWrite[c][p] # NoValue => Active(p) \in {NoValue, toWrite[c][p]}

(* With one client, a connection that does not break and a device that      *)
(* obeys, no command is ever lost: the loss needs a second client.          *)
THEOREM OneClientLosesNothing ==
    ASSUME \A c, d \in Clients : c = d, ~Lossy, ~Overrides
    PROVE  Spec => []NothingSlips
<1> DEFINE Inv == HandsActive /\ NothingSlips
<1>1. Init => Inv
  BY DEF Init, HandsActive, NothingSlips, Nothing
<1>2. TypeOK /\ Inv /\ [Next]_vars => Inv'
  <2> SUFFICES ASSUME TypeOK, HandsActive, NothingSlips, [Next]_vars PROVE Inv'
    OBVIOUS
  <2>1. ASSUME NEW c \in Clients, ClientOperation(c) PROVE Inv'
    <3>1. PICK p \in Points, out \in Outs, w \in Maybe(Values) :
             /\ IsIdle(c)
             /\ Leave(c, p, out, w)
             /\ \/ Highest(out) \in {NoValue, w}
                \/ w = NoValue /\ Highest(out) = Active(p)
      BY <2>1, OperationEffect
    <3>2. /\ outValue' = [outValue EXCEPT ![p] = out]
          /\ toWrite' = [toWrite EXCEPT ![c][p] = w]
          /\ toWrite[c] = Nothing
          /\ slip' = slip
      BY <3>1 DEF Leave, IsIdle
    <3>3. ASSUME NEW d \in Clients, NEW q \in Points, toWrite'[d][q] # NoValue
          PROVE  Active(q)' \in {NoValue, toWrite'[d][q]}
      <4>1. d = c
        OBVIOUS
      <4>2. q = p /\ toWrite'[d][q] = w
        BY <3>2, <3>3, <4>1 DEF TypeOK, Nothing
      <4>3. Active(q)' = Highest(out)
        BY <3>2, <4>2 DEF Active, TypeOK
      <4> QED
        BY <3>1, <3>3, <4>2, <4>3
    <3> QED
      BY <3>2, <3>3 DEF HandsActive, NothingSlips
  <2>2. ASSUME NEW c \in Clients, NEW p \in Points, HandToVariable(c, p) PROVE Inv'
    <3>1. ~LateAndUnseen(p, toWrite[c][p])
      BY <2>2 DEF HandToVariable, LateAndUnseen, HandsActive
    <3>2. /\ slip' = [slip EXCEPT ![p] = LateAndUnseen(p, toWrite[c][p])]
          /\ toWrite' = [toWrite EXCEPT ![c][p] = NoValue]
          /\ outValue' = outValue
      BY <2>2 DEF HandToVariable
    <3>3. NothingSlips'
      BY <3>1, <3>2 DEF NothingSlips, TypeOK
    <3>4. HandsActive'
      BY <3>2 DEF HandsActive, TypeOK, Active
    <3> QED
      BY <3>3, <3>4
  <2>3. CASE PollStep
    <3>1. outValue' = outValue /\ toWrite' = toWrite
      BY <2>3 DEF PollStep, Connect, NoWrite, SendFails, QueryAnswered, QueryFails,
                  PublishDone, TakeWrite, SendTaken, SendIgnored, PublishChange,
                  PublishSame, CatchChange, ForceValue
    <3>2. HandsActive'
      BY <3>1 DEF HandsActive, Active
    <3>3. slip' = slip \/ \E p \in Points : slip' = [slip EXCEPT ![p] = FALSE]
      BY <2>3 DEF PollStep, Connect, NoWrite, SendFails, QueryAnswered, QueryFails,
                  PublishDone, TakeWrite, SendTaken, SendIgnored, PublishChange,
                  PublishSame, CatchChange, ForceValue
    <3>4. NothingSlips'
      BY <3>3 DEF NothingSlips, TypeOK
    <3> QED
      BY <3>2, <3>4
  <2>4. CASE Override
    BY <2>4 DEF Override, DeviceOverride
  <2>5. CASE UNCHANGED vars
    BY <2>5 DEF vars, HandsActive, NothingSlips, Active
  <2> QED
    BY <2>1, <2>2, <2>3, <2>4, <2>5 DEF Next
<1> QED
  BY <1>1, <1>2, TypeInvariant, PTL DEF Spec
=============================================================================
