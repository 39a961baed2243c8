------------------------- MODULE ModbusRtuPollProofs -------------------------
(***************************************************************************)
(* Proofs about ModbusRtuPoll, for any variables, any four lists of         *)
(* queries, any writes asked for, and both kinds of ports.                  *)
(***************************************************************************)
EXTENDS ModbusRtuPoll, FiniteSetTheorems, TLAPS

Writes == [var : Writable, value : Values]
WriteReplies == {WriteReply(w) : w \in Writes}
RepliesTo(t) ==
    {[list |-> t[1], values |-> [v \in Queries[t[1]][t[2]] |-> d[v]]] : d \in [Vars -> Values]}
ReadReplies == UNION {RepliesTo(t) : t \in Turns}

(* What waits in the port is the reply to a request of this thread.         *)
LateShape == late \in {None} \cup WriteReplies \cup ReadReplies

(* What waits to be sent is what was asked for last, unless a newer value   *)
(* waits behind it.                                                         *)
WaitingIsNewest ==
    /\ \A v \in DOMAIN regs : regs[v] = asked[v]
    /\ \A v \in DOMAIN coils : coils[v] = asked[v]
    /\ \A i \in DOMAIN batch :
          batch[i].var \notin Waiting => batch[i].value = asked[batch[i].var]

(* A variable has one write in what the thread took.                        *)
OneEach == \A i, j \in DOMAIN batch : batch[i].var = batch[j].var => i = j

(* A late reply that tells a value tells the one that is in the device; a   *)
(* single register never gets another than Ones.                            *)
LateIsTrue ==
    \A w \in Writes : w.var \notin Multiples /\ late = WriteReply(w) /\ late # None
        => device[w.var] = w.value /\ (w.var \in Singles => w.value = Ones)

Shape == TypeOK /\ LateShape
Books == Shape /\ WaitingIsNewest /\ OneEach /\ LateIsTrue /\ NewestWins

-----------------------------------------------------------------------------
(* The constants.                                                           *)
LEMMA WantedType ==
    ASSUME NEW w \in Wanted
    PROVE  w[1] \in Writable /\ w[2] \in Values
BY RtuAssumption DEF Values

LEMMA OnesType == Ones \in Values /\ 0 \in Values
BY DEF Values

LEMMA ReadingType == Readings \subseteq Values
BY DEF Values

LEMMA WritableType == Writable \subseteq Vars
BY RtuAssumption

LEMMA TurnType ==
    ASSUME NEW t \in Turns
    PROVE  /\ t[1] \in Lists /\ t[2] \in 1..Len(Queries[t[1]])
           /\ t = << t[1], t[2] >>
           /\ Len(Queries[t[1]]) \in Nat
           /\ Queries[t[1]][t[2]] \subseteq Vars
<1>1. PICK k \in Lists : t \in {k} \X DOMAIN Queries[k]
  BY DEF Turns
<1>2. Queries[k] \in Seq(SUBSET Vars)
  BY RtuAssumption
<1>3. DOMAIN Queries[k] = 1..Len(Queries[k]) /\ Len(Queries[k]) \in Nat
  BY <1>2
<1>4. t[1] = k /\ t[2] \in 1..Len(Queries[k]) /\ t = << t[1], t[2] >>
  BY <1>1, <1>3
<1>5. Queries[k][t[2]] \subseteq Vars
  BY <1>2, <1>4
<1> QED
  BY <1>3, <1>4, <1>5

LEMMA IsTurn ==
    ASSUME NEW k \in Lists, NEW i \in 1..Len(Queries[k])
    PROVE  << k, i >> \in Turns
<1>1. Queries[k] \in Seq(SUBSET Vars)
  BY RtuAssumption
<1>2. DOMAIN Queries[k] = 1..Len(Queries[k])
  BY <1>1
<1>3. << k, i >> \in {k} \X DOMAIN Queries[k]
  BY <1>2
<1> QED
  BY <1>3 DEF Turns

(* The first list from the k-th on with a query, where there is one.        *)
LEMMA FirstIsTurn ==
    ASSUME NEW k \in Nat, FirstFrom(k) # {}
    PROVE  << Min(FirstFrom(k)), 1 >> \in Turns
<1> DEFINE S == FirstFrom(k)
<1>1. S \subseteq 1..4
  BY DEF FirstFrom, Lists
<1>2. \E x \in S : \A y \in S : x =< y
  <2>1. CASE 1 \in S
    BY <1>1, <2>1
  <2>2. CASE 1 \notin S /\ 2 \in S
    <3>1. S \subseteq 2..4
      BY <1>1, <2>2
    <3> QED
      BY <2>2, <3>1
  <2>3. CASE 1 \notin S /\ 2 \notin S /\ 3 \in S
    <3>1. S \subseteq 3..4
      BY <1>1, <2>3
    <3> QED
      BY <2>3, <3>1
  <2>4. CASE 1 \notin S /\ 2 \notin S /\ 3 \notin S
    <3>1. S = {4}
      BY <1>1, <2>4
    <3> QED
      BY <3>1
  <2> QED
    BY <2>1, <2>2, <2>3, <2>4
<1>3. Min(S) \in S
  BY <1>2 DEF Min
<1>4. Min(S) \in Lists /\ Queries[Min(S)] # << >>
  BY <1>3 DEF FirstFrom
<1>5. Queries[Min(S)] \in Seq(SUBSET Vars)
  BY <1>4, RtuAssumption
<1>6. 1 \in 1..Len(Queries[Min(S)])
  BY <1>4, <1>5
<1> QED
  BY <1>4, <1>6, IsTurn

LEMMA RequestedType ==
    ASSUME NEW w \in Writes, Requested(w) # None
    PROVE  /\ Requested(w) \in Writes /\ Requested(w).var = w.var
           /\ w.var \notin Singles => Requested(w) = w
           /\ w.var \in Singles => Requested(w).value = Ones
<1>1. w.var \in Writable /\ w.value \in Values
  BY DEF Writes
<1>2. CASE w.var \notin Singles
  BY <1>2 DEF Requested
<1>3. CASE w.var \in Singles
  <2>1. Requested(w) = Write(w.var, Ones)
    BY <1>3 DEF Requested
  <2>2. Write(w.var, Ones) \in Writes /\ Write(w.var, Ones).var = w.var /\ Write(w.var, Ones).value = Ones
    BY <1>1, OnesType DEF Write, Writes
  <2> QED
    BY <1>3, <2>1, <2>2
<1> QED
  BY <1>2, <1>3

LEMMA WriteType ==
    ASSUME NEW v \in Writable, NEW x \in Values
    PROVE  Write(v, x) \in Writes /\ Write(v, x).var = v /\ Write(v, x).value = x
BY DEF Write, Writes

(* A reply to a write differs from one to a query, and tells the variable.  *)
LEMMA RepliesDiffer ==
    /\ \A w \in Writes : "wrote" \in DOMAIN WriteReply(w) /\ WriteReply(w).wrote = w.var
    /\ \A r \in ReadReplies : "wrote" \notin DOMAIN r
    /\ \A w \in Writes : w.var \notin Multiples => WriteReply(w).value = w.value
<1>1. \A w \in Writes : "wrote" \in DOMAIN WriteReply(w) /\ WriteReply(w).wrote = w.var
  BY DEF WriteReply
<1>2. \A w \in Writes : w.var \notin Multiples => WriteReply(w).value = w.value
  BY DEF WriteReply
<1>3. \A r \in ReadReplies : "wrote" \notin DOMAIN r
  BY DEF ReadReplies, RepliesTo
<1> QED
  BY <1>1, <1>2, <1>3

-----------------------------------------------------------------------------
(* The steps, one by one: types and the replies that wait.                  *)
LEMMA InitShape == Init => Shape
<1> SUFFICES ASSUME Init
             PROVE  Shape
  OBVIOUS
<1>1. order \in Seq(Singles \cup Multiples) /\ batch \in Seq(Writes)
  BY DEF Init
<1>2. Range(order) = DOMAIN regs /\ IsInjective(order)
  BY DEF Init, Empty, Range, IsInjective
<1>3. DOMAIN regs = {} /\ DOMAIN coils = {} /\ Range(regs) = {} /\ Range(coils) = {}
  BY DEF Init, Empty, Range
<1>4. device \in [Vars -> Values] /\ cache \in [Vars -> Values]
  BY OnesType DEF Init
<1>5. asked \in [Writable -> Values \cup {None}]
  BY DEF Init
<1>6. batch \in Seq([var : Writable, value : Values])
  BY DEF Init
<1>7. /\ pc = "stopped" /\ keepRunning \in BOOLEAN /\ keepsLate \in BOOLEAN
      /\ late = None /\ batch = << >> /\ tries = 0
  BY DEF Init
<1>8. DOMAIN regs \subseteq Singles \cup Multiples /\ Range(regs) \subseteq Values
  BY <1>3
<1>9. DOMAIN coils \subseteq Coils /\ Range(coils) \subseteq Values
  BY <1>3
<1>10. /\ pc \in {"stopped", "round", "registers", "writing", "coils", "query"}
       /\ pc \in {"registers", "writing", "coils", "query"} => turn \in Turns
       /\ pc = "writing" <=> batch # << >>
       /\ tries \in 0..1
       /\ ~keepsLate => late = None
  BY <1>7
<1>11. TypeOK
  BY <1>1, <1>2, <1>4, <1>5, <1>6, <1>7, <1>8, <1>9, <1>10, Zenon DEF TypeOK
<1> QED
  BY <1>7, <1>11 DEF Shape, LateShape

LEMMA AskedShape ==
    ASSUME TypeOK, NEW v \in Writable, NEW x \in Values, Asked(v, x)
    PROVE  asked' \in [Writable -> Values \cup {None}]
BY DEF TypeOK, Asked

LEMMA AddRegisterShape ==
    ASSUME Shape, NEW v \in Writable, NEW x \in Values, AddWriteHoldingRegister(v, x)
    PROVE  Shape'
<1> USE DEF Shape, TypeOK
<1>1. Asked(v, x) /\ v \in Singles \cup Multiples
  BY DEF AddWriteHoldingRegister
<1>2. asked' \in [Writable -> Values \cup {None}]
  BY <1>1, AskedShape
<1>3. /\ order' = IF v \in DOMAIN regs THEN order ELSE Append(order, v)
      /\ regs' = [w \in DOMAIN regs \cup {v} |-> IF w = v THEN x ELSE regs[w]]
      /\ coils' = coils
  BY DEF AddWriteHoldingRegister
<1>4. DOMAIN regs' = DOMAIN regs \cup {v} /\ DOMAIN regs' \subseteq Singles \cup Multiples
  BY <1>1, <1>3
<1>5. Range(regs') \subseteq Values
  BY <1>3 DEF Range
<1>6. order' \in Seq(Singles \cup Multiples)
  BY <1>1, <1>3
<1>7. Range(order') = DOMAIN regs' /\ IsInjective(order')
  <2>1. CASE v \in DOMAIN regs
    <3>1. DOMAIN regs \cup {v} = DOMAIN regs /\ order' = order
      BY <1>3, <2>1
    <3> QED
      BY <1>4, <3>1
  <2>2. CASE v \notin DOMAIN regs
    <3>1. order' = Append(order, v)
      BY <1>3, <2>2
    <3>2. /\ Len(order) \in Nat /\ DOMAIN order = 1..Len(order)
          /\ DOMAIN order' = 1..Len(order) + 1
          /\ \A i \in 1..Len(order) : order'[i] = order[i]
          /\ order'[Len(order) + 1] = v
      BY <3>1
    <3>3. \A i \in 1..Len(order) : order[i] # v
      BY <2>2, <3>2 DEF Range
    <3>4. IsInjective(order')
      <4>1. \A a, b \in 1..Len(order) : order[a] = order[b] => a = b
        BY <3>2 DEF IsInjective
      <4> QED
        BY <3>2, <3>3, <4>1 DEF IsInjective
    <3>5. Range(order') = Range(order) \cup {v}
      <4>1. Range(order) = {order[i] : i \in 1..Len(order)}
        BY <3>2 DEF Range
      <4>2. Range(order') = {order'[i] : i \in 1..Len(order) + 1}
        BY <3>2 DEF Range
      <4>3. 1..Len(order) + 1 = 1..Len(order) \cup {Len(order) + 1}
        BY <3>2
      <4>4. Range(order') = {order'[i] : i \in 1..Len(order)} \cup {order'[Len(order) + 1]}
        BY <4>2, <4>3
      <4>5. {order'[i] : i \in 1..Len(order)} = {order[i] : i \in 1..Len(order)}
        BY <3>2
      <4> QED
        BY <3>2, <4>1, <4>4, <4>5
    <3> QED
      BY <1>4, <3>4, <3>5
  <2> QED
    BY <2>1, <2>2
<1>8. UNCHANGED << control, sending, port, device, cache >>
  BY <1>1 DEF Asked
<1> QED
  BY <1>2, <1>3, <1>4, <1>5, <1>6, <1>7, <1>8 DEF control, sending, port, LateShape

LEMMA AddCoilShape ==
    ASSUME Shape, NEW v \in Writable, NEW x \in Values, AddForceCoilStatus(v, x)
    PROVE  Shape'
<1> USE DEF Shape, TypeOK
<1>1. Asked(v, x) /\ v \in Coils
  BY DEF AddForceCoilStatus
<1>2. asked' \in [Writable -> Values \cup {None}]
  BY <1>1, AskedShape
<1>3. /\ coils' = [w \in DOMAIN coils \cup {v} |-> IF w = v THEN x ELSE coils[w]]
      /\ order' = order /\ regs' = regs
  BY DEF AddForceCoilStatus
<1>4. DOMAIN coils' \subseteq Coils /\ Range(coils') \subseteq Values
  BY <1>1, <1>3 DEF Range
<1>5. UNCHANGED << control, sending, port, device, cache >>
  BY <1>1 DEF Asked
<1> QED
  BY <1>2, <1>3, <1>4, <1>5 DEF control, sending, port, LateShape

LEMMA MeasureShape ==
    ASSUME Shape, NEW v \in Vars, NEW x \in Readings, Measure(v, x)
    PROVE  Shape'
<1> USE DEF Shape, TypeOK
<1>1. device' \in [Vars -> Values]
  BY ReadingType DEF Measure
<1> QED
  BY <1>1 DEF Measure, control, pending, sending, port, LateShape

LEMMA RoundShape == Shape /\ Round => Shape'
<1> SUFFICES ASSUME Shape, Round
             PROVE  Shape'
  OBVIOUS
<1> USE DEF Shape, TypeOK
<1>1. /\ pc' \in {"stopped", "round", "registers"}
      /\ pc' = "registers" => turn' \in Turns
  BY FirstIsTurn DEF Round
<1>2. pc = "round"
  BY DEF Round
<1> QED
  BY <1>1, <1>2 DEF Round, pending, sending, port, LateShape

LEMMA TakeRegistersShape == Shape /\ TakeRegisters => Shape'
<1> SUFFICES ASSUME Shape, TakeRegisters
             PROVE  Shape'
  OBVIOUS
<1> USE DEF Shape, TypeOK
<1>1. Len(order) \in Nat /\ DOMAIN order = 1..Len(order)
  OBVIOUS
<1>2. \A i \in 1..Len(order) : order[i] \in DOMAIN regs /\ order[i] \in Writable
  BY <1>1 DEF Range, Writable
<1>3. \A i \in 1..Len(order) : regs[order[i]] \in Values
  BY <1>2 DEF Range
<1>4. \A i \in 1..Len(order) : Write(order[i], regs[order[i]]) \in Writes
  BY <1>2, <1>3, WriteType
<1>5. batch' \in [1..Len(order) -> Writes]
  BY <1>1, <1>4 DEF TakeRegisters
<1>6. batch' \in Seq(Writes) /\ Len(batch') = Len(order)
  BY <1>1, <1>5
<1>7. order' = << >> /\ regs' = << >>
  BY DEF TakeRegisters, Empty
<1>8. /\ order' \in Seq(Singles \cup Multiples)
      /\ Range(order') = DOMAIN regs' /\ IsInjective(order')
      /\ DOMAIN regs' = {} /\ Range(regs') = {}
  BY <1>7 DEF Range, IsInjective
<1>9. pc' \in {"coils", "writing"} /\ (pc' = "writing" <=> batch' # << >>)
  BY <1>6 DEF TakeRegisters
<1>10. pc = "registers"
  BY DEF TakeRegisters
<1> QED
  BY <1>6, <1>8, <1>9, <1>10 DEF TakeRegisters, port, LateShape, Writes

(* What InOrder returns is a sequence of all elements.                      *)
LEMMA InOrderType ==
    ASSUME NEW S, IsFiniteSet(S), NEW s \in InOrder(S)
    PROVE  /\ Cardinality(S) \in Nat /\ s \in [1..Cardinality(S) -> S]
           /\ DOMAIN s = 1..Cardinality(S) /\ Range(s) = S
           /\ Cardinality(S) = 0 <=> S = {}
<1>1. Cardinality(S) \in Nat /\ (Cardinality(S) = 0 <=> S = {})
  BY FS_CardinalityType, FS_EmptySet
<1> QED
  BY <1>1 DEF InOrder

LEMMA TakeCoilsShape == Shape /\ TakeCoils => Shape'
<1> SUFFICES ASSUME Shape, TakeCoils
             PROVE  Shape'
  OBVIOUS
<1> USE DEF Shape, TypeOK
<1>1. IsFiniteSet(DOMAIN coils)
  <2>1. DOMAIN coils \subseteq Vars
    BY WritableType DEF Writable
  <2> QED
    BY <2>1, RtuAssumption, FS_Subset
<1>2. PICK s \in InOrder(DOMAIN coils) : batch' = [i \in DOMAIN s |-> Write(s[i], coils[s[i]])]
  BY DEF TakeCoils
<1> DEFINE n == Cardinality(DOMAIN coils)
<1>3. n \in Nat /\ s \in [1..n -> DOMAIN coils] /\ DOMAIN s = 1..n /\ (n = 0 <=> DOMAIN coils = {})
  BY <1>1, <1>2, InOrderType
<1> HIDE DEF n
<1>4. \A i \in 1..n : s[i] \in DOMAIN coils /\ s[i] \in Writable
  BY <1>3 DEF Writable
<1>5. \A i \in 1..n : coils[s[i]] \in Values
  BY <1>4 DEF Range
<1>6. \A i \in 1..n : Write(s[i], coils[s[i]]) \in Writes
  BY <1>4, <1>5, WriteType
<1>7. batch' \in [1..n -> Writes]
  BY <1>2, <1>3, <1>6
<1>8. batch' \in Seq(Writes) /\ Len(batch') = n
  BY <1>3, <1>7
<1>9. pc' \in {"query", "writing"} /\ (pc' = "writing" <=> batch' # << >>)
  BY <1>3, <1>8 DEF TakeCoils
<1>10. pc = "coils"
  BY DEF TakeCoils
<1>11. DOMAIN coils' = {} /\ Range(coils') = {}
  BY DEF TakeCoils, Empty, Range
<1> QED
  BY <1>8, <1>9, <1>10, <1>11 DEF TakeCoils, port, LateShape, Writes

LEMMA EmptyHasNoLength ==
    ASSUME NEW S, NEW s \in Seq(S)
    PROVE  s = << >> <=> Len(s) = 0
OBVIOUS

(* The reply to the request r.                                              *)
Own(r) == IF r = None THEN None ELSE WriteReply(r)

(* What a try does to the device and, when it is the last, to the thread.   *)
TryEffect(w, r, got) ==
    /\ device' = IF r = None THEN device ELSE [device EXCEPT ![r.var] = r.value]
    /\ IF Acknowledges(w, got) \/ tries = 1
       THEN /\ batch' = Tail(batch) /\ tries' = 0
            /\ pc' = AfterWrite(w)
            /\ asked' = IF Acknowledges(w, got) \/ w.var \in Waiting THEN asked
                        ELSE [asked EXCEPT ![w.var] = None]
       ELSE tries' = 1 /\ UNCHANGED << batch, pc, asked >>

LEMMA TryParts ==
    ASSUME Shape, TryWrite
    PROVE  \E r \in Writes \cup {None}, got \in {None} \cup WriteReplies \cup ReadReplies :
             /\ r = None \/ r = Requested(Head(batch))
             /\ r # None => /\ r.var = Head(batch).var
                            /\ r.var \notin Singles => r = Head(batch)
                            /\ r.var \in Singles => r.value = Ones
             /\ Line(Own(r), got) /\ late' \in {None, Own(r)}
             /\ TryEffect(Head(batch), r, got)
<1> DEFINE w == Head(batch)
<1>1. batch \in Seq(Writes) /\ batch # << >>
  BY DEF Shape, TypeOK, TryWrite, Writes
<1>2. w \in Writes
  BY <1>1
<1>3. PICK r \in {None, Requested(w)} :
        \E got \in {None, late, Own(r)} : Line(Own(r), got) /\ TryEffect(w, r, got)
  BY Zenon DEF TryWrite, Own, TryEffect
<1>4. PICK got \in {None, late, Own(r)} : Line(Own(r), got) /\ TryEffect(w, r, got)
  BY <1>3
<1> HIDE DEF w
<1>5. r # None => /\ r \in Writes /\ r.var = w.var
                  /\ r.var \notin Singles => r = w
                  /\ r.var \in Singles => r.value = Ones
  BY <1>2, <1>3, RequestedType
<1>6. Own(r) \in {None} \cup WriteReplies
  BY <1>5 DEF WriteReplies, Own
<1>7. got \in {None} \cup WriteReplies \cup ReadReplies
  BY <1>4, <1>6 DEF Shape, LateShape
<1>8. late' \in {None, Own(r)}
  BY <1>4 DEF Line
<1>9. r \in Writes \cup {None}
  BY <1>5
<1>10. r = None \/ r = Requested(w)
  BY <1>3
<1> QED
  BY <1>4, <1>5, <1>7, <1>8, <1>9, <1>10, Zenon DEF w

LEMMA TryWriteShape == Shape /\ TryWrite => Shape'
<1> SUFFICES ASSUME Shape, TryWrite
             PROVE  Shape'
  OBVIOUS
<1> DEFINE w == Head(batch)
<1>1. batch \in Seq(Writes) /\ batch # << >>
  BY DEF Shape, TypeOK, TryWrite, Writes
<1>2. w \in Writes
  BY <1>1
<1>3. PICK r \in Writes \cup {None}, got \in {None} \cup WriteReplies \cup ReadReplies :
        Line(Own(r), got) /\ late' \in {None, Own(r)} /\ TryEffect(w, r, got)
  BY TryParts, Zenon
<1> HIDE DEF w
<1>4. late' \in {None} \cup WriteReplies
  BY <1>3 DEF WriteReplies, Own
<1>5. device' \in [Vars -> Values]
  <2>1. device \in [Vars -> Values]
    BY DEF Shape, TypeOK
  <2>2. CASE r = None
    BY <1>3, <2>1, <2>2 DEF TryEffect
  <2>3. CASE r # None
    <3>1. r.value \in Values
      BY <2>3 DEF Writes
    <3>2. device' = [device EXCEPT ![r.var] = r.value]
      BY <1>3, <2>3 DEF TryEffect
    <3> QED
      BY <2>1, <3>1, <3>2
  <2> QED
    BY <2>2, <2>3
<1>6. ~keepsLate => late' = None
  BY <1>3 DEF Line, Own, Shape, TypeOK
<1>7. /\ batch' \in Seq(Writes) /\ tries' \in 0..1
      /\ asked' \in [Writable -> Values \cup {None}]
      /\ pc' \in {"writing", "coils", "query"}
      /\ pc' = "writing" <=> batch' # << >>
  <2>1. tries \in 0..1 /\ pc = "writing" /\ asked \in [Writable -> Values \cup {None}]
    BY DEF Shape, TypeOK, TryWrite
  <2>2. Tail(batch) \in Seq(Writes)
    BY <1>1
  <2>5. Len(batch) > 1 <=> Tail(batch) # << >>
    <3>1. Len(batch) \in Nat /\ Len(batch) # 0 /\ Len(Tail(batch)) = Len(batch) - 1
      BY <1>1
    <3>2. Tail(batch) = << >> <=> Len(Tail(batch)) = 0
      BY <2>2, EmptyHasNoLength
    <3> QED
      BY <3>1, <3>2
  <2>6. w.var \in Writable
    BY <1>2 DEF Writes
  <2>3. CASE Acknowledges(w, got) \/ tries = 1
    <3>1. /\ batch' = Tail(batch) /\ tries' = 0
          /\ pc' = IF Len(batch) > 1 THEN "writing"
                   ELSE IF w.var \in Coils THEN "query" ELSE "coils"
          /\ asked' = asked \/ asked' = [asked EXCEPT ![w.var] = None]
      BY <1>3, <2>3 DEF TryEffect, AfterWrite
    <3>2. asked' \in [Writable -> Values \cup {None}]
      BY <2>1, <2>6, <3>1
    <3> QED
      BY <2>2, <2>5, <3>1, <3>2
  <2>4. CASE ~(Acknowledges(w, got) \/ tries = 1)
    <3>1. tries' = 1 /\ batch' = batch /\ pc' = pc /\ asked' = asked
      BY <1>3, <2>4 DEF TryEffect
    <3> QED
      BY <1>1, <2>1, <3>1
  <2> QED
    BY <2>3, <2>4
<1>8. UNCHANGED << keepRunning, turn, pending, keepsLate, cache >>
  BY DEF TryWrite
<1>9. pc = "writing"
  BY DEF TryWrite
<1> QED
  BY <1>4, <1>5, <1>6, <1>7, <1>8, <1>9 DEF Shape, TypeOK, LateShape, pending, Writes

LEMMA ReadReplyType ==
    ASSUME NEW t \in Turns, device \in [Vars -> Values]
    PROVE  ReadReply(t) \in ReadReplies
<1>1. ReadReply(t) = [list |-> t[1], values |-> [v \in Queries[t[1]][t[2]] |-> device[v]]]
  BY DEF ReadReply
<1>2. ReadReply(t) \in RepliesTo(t)
  BY <1>1 DEF RepliesTo
<1> QED
  BY <1>2 DEF ReadReplies

(* What a reply publishes are values.                                       *)
LEMMA PublishedType ==
    ASSUME cache \in [Vars -> Values], NEW t \in Turns,
           NEW got \in {None} \cup WriteReplies \cup ReadReplies,
           NEW f \in Published(t, got)
    PROVE  f \in [Vars -> Values]
<1>1. CASE got = None \/ "wrote" \in DOMAIN got
  BY <1>1 DEF Published
<1>2. CASE ~(got = None \/ "wrote" \in DOMAIN got)
  <2>1. got \in ReadReplies
    BY <1>2, RepliesDiffer DEF WriteReplies
  <2>2. PICK u \in Turns, d \in [Vars -> Values] :
          got = [list |-> u[1], values |-> [v \in Queries[u[1]][u[2]] |-> d[v]]]
    BY <2>1 DEF ReadReplies, RepliesTo
  <2>3. DOMAIN got.values \subseteq Vars /\ \A v \in DOMAIN got.values : got.values[v] \in Values
    BY <2>2, TurnType
  <2> DEFINE g == got.values
  <2>4. CASE got.list # t[1]
    BY <1>2, <2>4 DEF Published
  <2>5. CASE got.list = t[1] /\ DOMAIN g = Queries[t[1]][t[2]]
    <3>1. f = [v \in Vars |-> IF v \in DOMAIN g THEN g[v] ELSE cache[v]]
      BY <1>2, <2>5 DEF Published
    <3> HIDE DEF g
    <3>2. \A v \in Vars : f[v] \in Values
      BY <2>3, <3>1 DEF g
    <3> QED
      BY <3>1, <3>2
  <2>6. CASE got.list = t[1] /\ DOMAIN g # Queries[t[1]][t[2]]
    BY <1>2, <2>6 DEF Published
  <2> QED
    BY <2>4, <2>5, <2>6
<1> QED
  BY <1>1, <1>2

LEMMA NextTurnType ==
    ASSUME NEW t \in Turns, NextTurn(t), turn = t
    PROVE  /\ pc' \in {"registers", "round"}
           /\ pc' = "registers" => turn' \in Turns
<1>1. /\ t[1] \in Lists /\ t[2] \in 1..Len(Queries[t[1]]) /\ Len(Queries[t[1]]) \in Nat
  BY TurnType
<1>2. CASE t[2] < Len(Queries[t[1]])
  <2>1. t[2] + 1 \in 1..Len(Queries[t[1]])
    BY <1>1, <1>2
  <2> QED
    BY <1>1, <1>2, <2>1, IsTurn DEF NextTurn
<1>3. CASE ~(t[2] < Len(Queries[t[1]]))
  <2>1. t[1] + 1 \in Nat
    BY <1>1 DEF Lists
  <2> QED
    BY <1>3, <2>1, FirstIsTurn DEF NextTurn
<1> QED
  BY <1>2, <1>3

LEMMA AskQueryShape ==
    ASSUME Shape, NEW got \in {None, late, ReadReply(turn)}, AskQuery(got)
    PROVE  Shape' /\ late' \in {None} \cup ReadReplies
<1>1. pc = "query" /\ turn \in Turns /\ batch = << >>
  BY DEF Shape, TypeOK, AskQuery
<1>2. device \in [Vars -> Values] /\ cache \in [Vars -> Values]
  BY DEF Shape, TypeOK
<1>3. ReadReply(turn) \in ReadReplies
  BY <1>1, <1>2, ReadReplyType
<1>4. got \in {None} \cup WriteReplies \cup ReadReplies
  BY <1>3 DEF Shape, LateShape
<1>5. cache' \in [Vars -> Values]
  BY <1>1, <1>2, <1>4, PublishedType DEF AskQuery
<1>6. late' \in {None, ReadReply(turn)} /\ (~keepsLate => late' = None)
  BY DEF AskQuery, Line, Shape, TypeOK
<1>7. /\ pc' \in {"registers", "round"}
      /\ pc' = "registers" => turn' \in Turns
  BY <1>1, NextTurnType DEF AskQuery
<1>8. UNCHANGED << keepRunning, pending, sending, keepsLate, device, asked >>
  BY DEF AskQuery
<1>9. late' \in {None} \cup ReadReplies
  BY <1>3, <1>6
<1> QED
  BY <1>1, <1>5, <1>6, <1>7, <1>8, <1>9
  DEF Shape, TypeOK, LateShape, pending, sending

LEMMA StopStartShape == Shape /\ (Stop \/ Start) => Shape'
<1> SUFFICES ASSUME Shape, Stop \/ Start
             PROVE  Shape'
  OBVIOUS
<1>1. /\ keepRunning' \in BOOLEAN
      /\ pc' = pc \/ (pc = "stopped" /\ pc' = "round")
      /\ UNCHANGED << turn, pending, sending, port, device, cache, asked >>
  BY DEF Stop, Start
<1> QED
  BY <1>1 DEF Shape, TypeOK, LateShape, pending, sending, port

LEMMA NextShape == Shape /\ [Next]_vars => Shape'
<1> SUFFICES ASSUME Shape, [Next]_vars
             PROVE  Shape'
  OBVIOUS
<1>1. ASSUME NEW w \in Wanted, AddWriteHoldingRegister(w[1], w[2])
      PROVE  Shape'
  BY <1>1, WantedType, AddRegisterShape
<1>2. ASSUME NEW w \in Wanted, AddForceCoilStatus(w[1], w[2])
      PROVE  Shape'
  BY <1>2, WantedType, AddCoilShape
<1>3. ASSUME NEW v \in Vars, NEW x \in Readings, Measure(v, x)
      PROVE  Shape'
  BY <1>3, MeasureShape
<1>4. ASSUME NEW got \in {None, late, ReadReply(turn)}, AskQuery(got)
      PROVE  Shape'
  BY <1>4, AskQueryShape
<1>5. CASE UNCHANGED vars
  <2>1. UNCHANGED << control, pending, sending, port, device, cache, asked >>
    BY <1>5 DEF vars
  <2> QED
    BY <2>1 DEF Shape, TypeOK, LateShape, control, pending, sending, port
<1> QED
  BY <1>1, <1>2, <1>3, <1>4, <1>5, RoundShape, TakeRegistersShape, TakeCoilsShape,
     TryWriteShape, StopStartShape DEF Next, Thread

(* Every variable keeps its type, whatever comes over the line.  The        *)
(* replies that wait in the port are needed: what they hold is published.   *)
THEOREM RtuTypeInvariant == Spec => []TypeOK
<1>1. Shape => TypeOK
  BY DEF Shape
<1> QED
  BY <1>1, InitShape, NextShape, PTL DEF Spec

-----------------------------------------------------------------------------
(* The newest value wins.                                                   *)
LEMMA InitBooks == Init => Books
<1> SUFFICES ASSUME Init
             PROVE  Books
  OBVIOUS
<1>1. DOMAIN regs = {} /\ DOMAIN coils = {} /\ DOMAIN batch = {} /\ late = None
  BY DEF Init, Empty
<1>2. \A v \in Writable : asked[v] = None
  BY DEF Init
<1> QED
  BY <1>1, <1>2, InitShape DEF Books, WaitingIsNewest, OneEach, LateIsTrue, NewestWins

LEMMA BatchType ==
    ASSUME TypeOK
    PROVE  /\ batch \in Seq(Writes) /\ Len(batch) \in Nat /\ DOMAIN batch = 1..Len(batch)
           /\ \A i \in DOMAIN batch : batch[i].var \in Writable
<1>1. batch \in Seq(Writes)
  BY DEF TypeOK, Writes
<1>2. Len(batch) \in Nat /\ DOMAIN batch = 1..Len(batch)
  BY <1>1
<1>3. \A i \in DOMAIN batch : batch[i] \in Writes
  BY <1>1, <1>2
<1> QED
  BY <1>1, <1>2, <1>3 DEF Writes

(* Asking for a write: the value asked for waits.                           *)
LEMMA AddBooks ==
    ASSUME Books, NEW v \in Writable, NEW x \in Values,
           AddWriteHoldingRegister(v, x) \/ AddForceCoilStatus(v, x)
    PROVE  WaitingIsNewest' /\ OneEach' /\ LateIsTrue' /\ NewestWins'
<1>1. Asked(v, x)
  BY DEF AddWriteHoldingRegister, AddForceCoilStatus
<1>2. /\ asked' = [asked EXCEPT ![v] = x]
      /\ UNCHANGED << batch, late, keepsLate, device >>
  BY <1>1 DEF Asked, sending, port
<1>3. /\ asked'[v] = x
      /\ \A u \in Writable \ {v} : asked'[u] = asked[u]
  BY <1>2 DEF Books, Shape, TypeOK
<1>4. \/ /\ regs' = [w \in DOMAIN regs \cup {v} |-> IF w = v THEN x ELSE regs[w]]
         /\ coils' = coils /\ v \in Singles \cup Multiples
      \/ /\ coils' = [w \in DOMAIN coils \cup {v} |-> IF w = v THEN x ELSE coils[w]]
         /\ regs' = regs /\ v \in Coils
  BY DEF AddWriteHoldingRegister, AddForceCoilStatus
<1>5. DOMAIN regs \subseteq Singles \cup Multiples /\ DOMAIN coils \subseteq Coils
  BY DEF Books, Shape, TypeOK
<1>6. v \in Waiting' /\ Waiting' = Waiting \cup {v}
  BY <1>4 DEF Waiting
<1>7. /\ \A u \in DOMAIN regs : regs[u] = asked[u]
      /\ \A u \in DOMAIN coils : coils[u] = asked[u]
      /\ \A i \in DOMAIN batch :
            batch[i].var \notin Waiting => batch[i].value = asked[batch[i].var]
  BY DEF Books, WaitingIsNewest
<1>8. \A u \in DOMAIN regs' : regs'[u] = asked'[u]
  <2>1. CASE v \in Coils
    <3>1. regs' = regs /\ v \notin DOMAIN regs
      BY <1>4, <1>5, <2>1, RtuAssumption
    <3> QED
      BY <1>3, <1>5, <1>7, <3>1 DEF Writable
  <2>2. CASE v \notin Coils
    BY <1>3, <1>4, <1>5, <1>7, <2>2 DEF Writable
  <2> QED
    BY <2>1, <2>2
<1>9. \A u \in DOMAIN coils' : coils'[u] = asked'[u]
  <2>1. CASE v \in Coils
    <3>1. v \notin Singles \cup Multiples
      BY <2>1, RtuAssumption
    <3> QED
      BY <1>3, <1>4, <1>5, <1>7, <3>1 DEF Writable
  <2>2. CASE v \notin Coils
    <3>1. coils' = coils /\ v \notin DOMAIN coils
      BY <1>4, <1>5, <2>2
    <3> QED
      BY <1>3, <1>5, <1>7, <3>1 DEF Writable
  <2> QED
    BY <2>1, <2>2
<1>10. \A i \in DOMAIN batch : batch[i].var \in Writable
  BY BatchType DEF Books, Shape
<1>11. WaitingIsNewest'
  BY <1>2, <1>3, <1>6, <1>7, <1>8, <1>9, <1>10 DEF WaitingIsNewest
<1>12. LateIsTrue' /\ OneEach'
  BY <1>2 DEF Books, LateIsTrue, OneEach
<1>13. NewestWins'
  BY <1>2, <1>3, <1>6 DEF Books, NewestWins, Waits
<1> QED
  BY <1>11, <1>12, <1>13

(* A step that leaves writes and what is known of them alone.               *)
LEMMA AsideBooks ==
    ASSUME Books, Shape', UNCHANGED << regs, coils, batch, asked, keepsLate >>,
           late' = late \/ late' \in {None} \cup ReadReplies,
           \A v \in Writable : device'[v] = device[v]
    PROVE  WaitingIsNewest' /\ OneEach' /\ LateIsTrue' /\ NewestWins'
<1>1. WaitingIsNewest' /\ OneEach'
  BY DEF Books, WaitingIsNewest, OneEach, Waiting
<1>2. NewestWins'
  BY DEF Books, NewestWins, Waits, Waiting
<1>3. LateIsTrue'
  <2> SUFFICES ASSUME NEW w \in Writes, w.var \notin Multiples, late' = WriteReply(w), late' # None
               PROVE  device'[w.var] = w.value /\ (w.var \in Singles => w.value = Ones)
    BY DEF LateIsTrue
  <2>1. late' \notin ReadReplies
    BY RepliesDiffer
  <2>2. late' = late
    BY <2>1
  <2>3. w.var \in Writable
    BY DEF Writes
  <2> QED
    BY <2>2, <2>3 DEF Books, LateIsTrue
<1> QED
  BY <1>1, <1>2, <1>3

LEMMA TakeRegistersBooks ==
    ASSUME Books, TakeRegisters
    PROVE  WaitingIsNewest' /\ OneEach' /\ LateIsTrue' /\ NewestWins'
<1>1. /\ batch' = [i \in DOMAIN order |-> Write(order[i], regs[order[i]])]
      /\ batch = << >> /\ regs' = << >>
      /\ UNCHANGED << coils, late, keepsLate, device, asked >>
  BY DEF TakeRegisters, Empty, port
<1>2. DOMAIN regs' = {} /\ DOMAIN batch = {}
  BY <1>1
<1>3. Range(order) = DOMAIN regs /\ DOMAIN batch' = DOMAIN order
  BY <1>1 DEF Books, Shape, TypeOK
<1>4. \A i \in DOMAIN order : batch'[i].var = order[i] /\ batch'[i].value = regs[order[i]]
  BY <1>1 DEF Write
<1>5. \A i \in DOMAIN order : order[i] \in DOMAIN regs
  BY <1>3 DEF Range
<1>6. \A v \in DOMAIN regs : \E i \in DOMAIN order : order[i] = v
  BY <1>3 DEF Range
<1>7. WaitingIsNewest'
  BY <1>1, <1>2, <1>3, <1>4, <1>5 DEF Books, WaitingIsNewest, Waiting
<1>8. LateIsTrue' /\ OneEach'
  <2>1. \A a, b \in DOMAIN order : order[a] = order[b] => a = b
    BY DEF Books, Shape, TypeOK, IsInjective
  <2> QED
    BY <1>1, <1>3, <1>4, <2>1 DEF Books, LateIsTrue, OneEach
<1>9. \A v \in Writable : Waits(v)' <=> Waits(v)
  BY <1>1, <1>2, <1>3, <1>4, <1>5, <1>6 DEF Waits, Waiting
<1>10. NewestWins'
  BY <1>1, <1>9 DEF Books, NewestWins
<1> QED
  BY <1>7, <1>8, <1>10

LEMMA TakeCoilsBooks ==
    ASSUME Books, TakeCoils
    PROVE  WaitingIsNewest' /\ OneEach' /\ LateIsTrue' /\ NewestWins'
<1>1. PICK s \in InOrder(DOMAIN coils) : batch' = [i \in DOMAIN s |-> Write(s[i], coils[s[i]])]
  BY DEF TakeCoils
<1>2. /\ batch = << >> /\ coils' = << >>
      /\ UNCHANGED << regs, late, keepsLate, device, asked >>
  BY DEF TakeCoils, Empty, port
<1>3. DOMAIN coils' = {} /\ DOMAIN batch = {}
  BY <1>2
<1>4. Range(s) = DOMAIN coils /\ DOMAIN batch' = DOMAIN s
  BY <1>1 DEF InOrder
<1>5. \A i \in DOMAIN s : batch'[i].var = s[i] /\ batch'[i].value = coils[s[i]]
  BY <1>1 DEF Write
<1>6. \A i \in DOMAIN s : s[i] \in DOMAIN coils
  BY <1>4 DEF Range
<1>7. \A v \in DOMAIN coils : \E i \in DOMAIN s : s[i] = v
  BY <1>4 DEF Range
<1>8. WaitingIsNewest'
  BY <1>2, <1>3, <1>4, <1>5, <1>6 DEF Books, WaitingIsNewest, Waiting
<1>9. LateIsTrue' /\ OneEach'
  <2>1. DOMAIN s \subseteq Int /\ \A a \in DOMAIN s : s[a] \in Nat
    <3>1. DOMAIN coils \subseteq Nat
      BY RtuAssumption, WritableType DEF Books, Shape, TypeOK, Writable
    <3>2. DOMAIN s = 1..Cardinality(DOMAIN coils)
      BY DEF InOrder
    <3> QED
      BY <1>6, <3>1, <3>2
  <2>2. \A a, b \in DOMAIN s : a < b => s[a] < s[b]
    BY DEF InOrder
  <2>3. \A a, b \in DOMAIN s : s[a] = s[b] => a = b
    <3> SUFFICES ASSUME NEW a \in DOMAIN s, NEW b \in DOMAIN s, a # b
                 PROVE  s[a] # s[b]
      OBVIOUS
    <3>1. a < b \/ b < a
      BY <2>1
    <3>2. s[a] < s[b] \/ s[b] < s[a]
      BY <2>2, <3>1
    <3> QED
      BY <2>1, <3>2
  <2> QED
    BY <1>2, <1>4, <1>5, <2>3 DEF Books, LateIsTrue, OneEach
<1>10. \A v \in Writable : Waits(v)' <=> Waits(v)
  BY <1>2, <1>3, <1>4, <1>5, <1>6, <1>7 DEF Waits, Waiting
<1>11. NewestWins'
  BY <1>2, <1>10 DEF Books, NewestWins
<1> QED
  BY <1>8, <1>9, <1>11

(* An acknowledged write is in the device: its own reply says so, or a late *)
(* one that is still true.                                                  *)
LEMMA AcknowledgedIsThere ==
    ASSUME Books, NEW w \in Writes, w.var \in Multiples => ~keepsLate,
           NEW r \in Writes \cup {None},
           r # None => /\ r.var = w.var
                       /\ r.var \notin Singles => r = w
                       /\ r.var \in Singles => r.value = Ones,
           NEW got, Line(Own(r), got), Acknowledges(w, got),
           device' = IF r = None THEN device ELSE [device EXCEPT ![r.var] = r.value]
    PROVE  device'[w.var] = w.value
<1>1. got # None /\ got = WriteReply(w)
  BY DEF Acknowledges
<1>2. w.var \in Vars
  BY WritableType DEF Writes
<1>3. device \in [Vars -> Values]
  BY DEF Books, Shape, TypeOK
<1>4. r # None => device'[w.var] = r.value
  BY <1>2, <1>3
<1>5. CASE got = Own(r) /\ late = None
  <2>1. r # None /\ WriteReply(r) = WriteReply(w)
    BY <1>1, <1>5 DEF Own
  <2>2. CASE w.var \in Multiples
    <3>1. w.var \notin Singles
      BY <2>2, RtuAssumption
    <3> QED
      BY <1>4, <2>1, <3>1
  <2>3. CASE w.var \notin Multiples
    BY <1>4, <2>1, <2>3, RepliesDiffer
  <2> QED
    BY <2>2, <2>3
<1>6. CASE late # None /\ got = late
  <2>1. w.var \notin Multiples
    BY <1>6 DEF Books, Shape, TypeOK
  <2>2. device[w.var] = w.value /\ (w.var \in Singles => w.value = Ones)
    BY <1>1, <1>6, <2>1 DEF Books, LateIsTrue
  <2>3. r # None => r.value = w.value
    BY <2>2
  <2> QED
    BY <1>4, <2>2, <2>3
<1> QED
  BY <1>1, <1>5, <1>6 DEF Line

LEMMA TryWriteBooks ==
    ASSUME Books, TryWrite
    PROVE  WaitingIsNewest' /\ OneEach' /\ LateIsTrue' /\ NewestWins'
<1> DEFINE w == Head(batch)
<1>1. batch \in Seq(Writes) /\ Len(batch) \in Nat /\ DOMAIN batch = 1..Len(batch)
  BY BatchType DEF Books, Shape
<1>2. batch # << >>
  BY DEF Books, Shape, TypeOK, TryWrite
<1>3. w \in Writes /\ 1 \in DOMAIN batch /\ w = batch[1] /\ w.var \in Writable
  <2>1. w \in Writes /\ 1 \in DOMAIN batch /\ w = batch[1]
    BY <1>1, <1>2
  <2> QED
    BY <2>1 DEF Writes
<1>4. PICK r \in Writes \cup {None}, got \in {None} \cup WriteReplies \cup ReadReplies :
        /\ r # None => /\ r.var = w.var
                       /\ r.var \notin Singles => r = w
                       /\ r.var \in Singles => r.value = Ones
        /\ Line(Own(r), got) /\ late' \in {None, Own(r)}
        /\ TryEffect(w, r, got)
  BY TryParts, Zenon DEF Books
<1>5. /\ Tail(batch) \in Seq(Writes) /\ Len(Tail(batch)) = Len(batch) - 1
      /\ DOMAIN Tail(batch) = 1..Len(batch) - 1
      /\ \A i \in DOMAIN Tail(batch) : i + 1 \in DOMAIN batch /\ Tail(batch)[i] = batch[i + 1]
      /\ \A i \in DOMAIN batch : i # 1 => i - 1 \in DOMAIN Tail(batch) /\ Tail(batch)[i - 1] = batch[i]
  BY <1>1, <1>2
<1>6. UNCHANGED << regs, coils, keepsLate >> /\ Waiting' = Waiting
  BY DEF TryWrite, pending, Waiting
<1> HIDE DEF w
<1>7. device' = IF r = None THEN device ELSE [device EXCEPT ![r.var] = r.value]
  BY <1>4 DEF TryEffect
<1>8. device \in [Vars -> Values] /\ asked \in [Writable -> Values \cup {None}]
  BY DEF Books, Shape, TypeOK
<1>9. \/ batch' = batch /\ asked' = asked
      \/ /\ batch' = Tail(batch)
         /\ \/ asked' = asked /\ (Acknowledges(w, got) \/ w.var \in Waiting)
            \/ asked' = [asked EXCEPT ![w.var] = None] /\ w.var \notin Waiting
  <2>1. CASE Acknowledges(w, got) \/ tries = 1
    BY <1>4, <2>1 DEF TryEffect
  <2>2. CASE ~(Acknowledges(w, got) \/ tries = 1)
    BY <1>4, <2>2 DEF TryEffect
  <2> QED
    BY <2>1, <2>2
<1>10. \A v \in Writable :
          /\ v # w.var \/ w.var \in Waiting => asked'[v] = asked[v]
          /\ asked'[v] = None \/ asked'[v] = asked[v]
  BY <1>3, <1>8, <1>9
<1>11. /\ \A v \in DOMAIN regs : regs[v] = asked[v] /\ v \in Writable /\ v \in Waiting
       /\ \A v \in DOMAIN coils : coils[v] = asked[v] /\ v \in Writable /\ v \in Waiting
       /\ \A i \in DOMAIN batch :
             /\ batch[i].var \in Writable
             /\ batch[i].var \notin Waiting => batch[i].value = asked[batch[i].var]
       /\ \A i, j \in DOMAIN batch : batch[i].var = batch[j].var => i = j
  BY <1>1, BatchType DEF Books, WaitingIsNewest, OneEach, Shape, TypeOK, Waiting, Writable
(* What is left of the batch is of other variables than the write done.     *)
<1>12. batch' = Tail(batch) =>
          \A i \in DOMAIN batch' : i + 1 \in DOMAIN batch /\ batch'[i] = batch[i + 1] /\ batch'[i].var # w.var
  <2> SUFFICES ASSUME batch' = Tail(batch), NEW i \in DOMAIN batch'
               PROVE  i + 1 \in DOMAIN batch /\ batch'[i] = batch[i + 1] /\ batch'[i].var # w.var
    OBVIOUS
  <2>1. i + 1 \in DOMAIN batch /\ batch'[i] = batch[i + 1] /\ i + 1 # 1
    BY <1>1, <1>5
  <2> QED
    BY <1>3, <1>11, <2>1
<1>13. WaitingIsNewest'
  <2>1. \A v \in DOMAIN regs : regs[v] = asked'[v]
    BY <1>10, <1>11
  <2>2. \A v \in DOMAIN coils : coils[v] = asked'[v]
    BY <1>10, <1>11
  <2>3. \A i \in DOMAIN batch' :
          batch'[i].var \notin Waiting => batch'[i].value = asked'[batch'[i].var]
    BY <1>9, <1>10, <1>11, <1>12
  <2> QED
    BY <1>6, <2>1, <2>2, <2>3 DEF WaitingIsNewest
<1>14. OneEach'
  <2>1. CASE batch' = batch
    BY <1>11, <2>1 DEF OneEach
  <2>2. CASE batch' = Tail(batch)
    <3> SUFFICES ASSUME NEW i \in DOMAIN batch', NEW j \in DOMAIN batch', batch'[i].var = batch'[j].var
                 PROVE  i = j
      BY DEF OneEach
    <3>1. i \in Int /\ j \in Int
      BY <1>5, <2>2
    <3>2. i + 1 = j + 1
      BY <1>11, <1>12, <2>2
    <3> QED
      BY <3>1, <3>2
  <2> QED
    BY <1>9, <2>1, <2>2
<1>15. LateIsTrue'
  <2> SUFFICES ASSUME NEW u \in Writes, u.var \notin Multiples, late' = WriteReply(u), late' # None
               PROVE  device'[u.var] = u.value /\ (u.var \in Singles => u.value = Ones)
    BY DEF LateIsTrue
  <2>1. r # None /\ WriteReply(r) = WriteReply(u)
    BY <1>4 DEF Own
  <2>2. r.var = u.var
    BY <2>1, RepliesDiffer
  <2>3. r.value = u.value
    BY <2>1, <2>2, RepliesDiffer
  <2>4. r.var \in Vars
    BY <2>1, WritableType DEF Writes
  <2>5. device'[r.var] = r.value
    BY <1>7, <1>8, <2>1, <2>4
  <2> QED
    BY <1>4, <2>1, <2>2, <2>3, <2>5
<1>16. NewestWins'
  <2> SUFFICES ASSUME NEW v \in Writable, asked'[v] # None, ~Waits(v)',
                      v \in Multiples => ~keepsLate
               PROVE  device'[v] = asked'[v]
    BY <1>6 DEF NewestWins
  <2>1. asked'[v] = asked[v]
    BY <1>10
  <2>2. v \notin Waiting /\ \A i \in DOMAIN batch' : batch'[i].var # v
    BY <1>6 DEF Waits
  <2>3. CASE v # w.var
    <3>1. device'[v] = device[v]
      BY <1>4, <1>7, <1>8, <2>3
    <3>2. \A i \in DOMAIN batch : batch[i].var # v
      <4>1. CASE batch' = batch
        BY <2>2, <4>1
      <4>2. CASE batch' = Tail(batch)
        BY <1>3, <1>5, <2>2, <2>3, <4>2
      <4> QED
        BY <1>9, <4>1, <4>2
    <3>3. ~Waits(v)
      BY <2>2, <3>2 DEF Waits
    <3> QED
      BY <2>1, <3>1, <3>3 DEF Books, NewestWins
  <2>4. CASE v = w.var
    <3>1. batch' # batch
      BY <1>3, <2>2, <2>4
    <3>2. Acknowledges(w, got)
      BY <1>3, <1>8, <1>9, <2>2, <2>4, <3>1
    <3>3. w.value = asked[v]
      BY <1>3, <1>11, <2>2, <2>4
    <3>4. device'[w.var] = w.value
      BY <1>3, <1>4, <1>7, <2>4, <3>2, AcknowledgedIsThere
    <3> QED
      BY <2>1, <2>4, <3>3, <3>4
  <2> QED
    BY <2>3, <2>4
<1> QED
  BY <1>13, <1>14, <1>15, <1>16

LEMMA NextBooks == Books /\ [Next]_vars => Books'
<1> SUFFICES ASSUME Books, [Next]_vars
             PROVE  Books'
  OBVIOUS
<1>1. Shape'
  BY NextShape DEF Books
<1> DEFINE Goal == WaitingIsNewest' /\ OneEach' /\ LateIsTrue' /\ NewestWins'
<1> SUFFICES Goal
  BY <1>1 DEF Books
<1>2. ASSUME NEW w \in Wanted,
             AddWriteHoldingRegister(w[1], w[2]) \/ AddForceCoilStatus(w[1], w[2])
      PROVE  Goal
  BY <1>2, WantedType, AddBooks
<1>3. ASSUME NEW v \in Vars, NEW x \in Readings, Measure(v, x)
      PROVE  Goal
  <2>1. \A u \in Writable : device'[u] = device[u]
    BY <1>3, WritableType DEF Measure, Books, Shape, TypeOK
  <2>2. late' = late /\ UNCHANGED << regs, coils, batch, asked, keepsLate >>
    BY <1>3 DEF Measure, pending, sending, port
  <2> QED
    BY <1>1, <2>1, <2>2, AsideBooks
<1>4. ASSUME NEW got \in {None, late, ReadReply(turn)}, AskQuery(got)
      PROVE  Goal
  <2>1. late' \in {None} \cup ReadReplies
    BY <1>4, AskQueryShape DEF Books
  <2>2. UNCHANGED << regs, coils, batch, asked, keepsLate, device >>
    BY <1>4 DEF AskQuery, pending, sending
  <2> QED
    BY <1>1, <2>1, <2>2, AsideBooks
<1>5. CASE Round \/ Stop \/ Start \/ UNCHANGED vars
  <2>1. UNCHANGED << regs, coils, batch, late, asked, keepsLate, device >>
    BY <1>5 DEF Round, Stop, Start, vars, pending, sending, port
  <2> QED
    BY <1>1, <2>1, AsideBooks
<1>6. CASE TakeRegisters
  BY <1>6, TakeRegistersBooks
<1>7. CASE TakeCoils
  BY <1>7, TakeCoilsBooks
<1>8. CASE TryWrite
  BY <1>8, TryWriteBooks
<1> QED
  BY <1>2, <1>3, <1>4, <1>5, <1>6, <1>7, <1>8 DEF Next, Thread

(* The last value asked for of a variable is in the device, waits, or was   *)
(* itself given up after two tries: an older one never comes after it,      *)
(* whatever the line loses or brings late, and nothing is excused by an     *)
(* older one that was given up.  A batch with one write of a variable is    *)
(* needed: giving up one would otherwise leave another without its value.   *)
THEOREM NewestAlwaysWins == Spec => []NewestWins
<1>1. Books => NewestWins
  BY DEF Books
<1> QED
  BY <1>1, InitBooks, NextBooks, PTL DEF Spec
=============================================================================
