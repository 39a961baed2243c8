---------------------------- MODULE ModbusRtuPoll ----------------------------
(***************************************************************************)
(* The thread of ModbusRtuProcess on its serial line: a round asks every    *)
(* query of the four lists in turn, and before each query sends what was    *)
(* asked to be written since the query before: registers in the order in    *)
(* which they were first asked for, coils in the order of their addresses.  *)
(* A write is tried twice and then forgotten.  Tables of the device and     *)
(* variables are one: what a variable stands for is known by its address    *)
(* (QueryPlan shows that a query covers its variables), and conversions     *)
(* between registers and values are left to PointPath.                      *)
(***************************************************************************)
EXTENDS Integers, SequencesExt, FiniteSetsExt, Functions

CONSTANTS
    Vars,           (* variables, as numbers in the order of their addresses *)
    Singles,        (* those written with PRESET_SINGLE_REGISTER             *)
    Multiples,      (* those written with PRESET_MULTIPLE_REGISTERS          *)
    Coils,          (* those written with FORCE_SINGLE_COIL                  *)
    Queries,        (* the four lists, each a sequence of sets of variables  *)
    Readings,       (* values a device may measure                           *)
    Wanted,         (* bound: writes that clients may ask for, <<variable, value>> *)
    MaxWaiting,     (* bound: addresses that wait to be taken at once        *)
    None            (* no value or reply                                     *)

Lists == 1..4       (* holding registers, input registers, coils, digital inputs *)
(* A register whose two bytes are 1, as a number.                           *)
Ones == 257
Values == Readings \cup {w[2] : w \in Wanted} \cup {0, Ones}
Writable == Singles \cup Multiples \cup Coils
Turns == UNION {{k} \X DOMAIN Queries[k] : k \in Lists}

ASSUME RtuAssumption ==
    /\ Vars \subseteq Nat /\ IsFiniteSet(Vars) /\ Writable \subseteq Vars
    /\ Singles \cap Multiples = {} /\ (Singles \cup Multiples) \cap Coils = {}
    /\ Queries \in [Lists -> Seq(SUBSET Vars)]
    /\ Wanted \subseteq Writable \X Nat /\ Readings \subseteq Nat
    /\ MaxWaiting \in Nat \ {0}
    /\ None \notin Values

VARIABLES
    keepRunning,
    pc,             (* where the thread is                                   *)
    turn,           (* the query that is next                                *)
    order,          (* writeHoldingRegisterData.writeOrder                   *)
    regs,           (* writeHoldingRegisterData.address2ValueWriteMap        *)
    coils,          (* forceCoilData.address2ValueWriteMap                   *)
    batch,          (* what the thread took to write: variables with values  *)
    tries,          (* how often the first of them was sent                  *)
    keepsLate,      (* the port keeps a reply that came too late             *)
    late,           (* such a reply, or None                                 *)
    device,         (* device[v]: the value at v's address                   *)
    cache,          (* cache[v]: the value published last                    *)
    asked           (* asked[v]: value a client asked for last, None before  *)
                    (* that and once that very write is given up (history)   *)

control == << keepRunning, pc, turn >>
pending == << order, regs, coils >>
sending == << batch, tries >>
port == << keepsLate, late >>
vars == << control, pending, sending, port, device, cache, asked >>

Empty == << >>
Write(v, x) == [var |-> v, value |-> x]

Init ==
    /\ keepRunning = FALSE /\ pc = "stopped"
    /\ turn = << 1, 1 >>
    /\ order = << >> /\ regs = Empty /\ coils = Empty
    /\ batch = << >> /\ tries = 0
    /\ keepsLate \in BOOLEAN /\ late = None
    /\ device = [v \in Vars |-> 0] /\ cache = [v \in Vars |-> 0]
    /\ asked = [v \in Writable |-> None]

-----------------------------------------------------------------------------
(* Clients: the variable converts the value and hands it to the process.    *)
Waiting == DOMAIN regs \cup DOMAIN coils

Asked(v, x) ==
    /\ v \in Waiting \/ Cardinality(Waiting) < MaxWaiting
    /\ asked' = [asked EXCEPT ![v] = x]
    /\ UNCHANGED << control, sending, port, device, cache >>

(* A new value for an address that waits takes its place in the order.      *)
AddWriteHoldingRegister(v, x) ==
    /\ v \in Singles \cup Multiples
    /\ order' = IF v \in DOMAIN regs THEN order ELSE Append(order, v)
    /\ regs' = [w \in DOMAIN regs \cup {v} |-> IF w = v THEN x ELSE regs[w]]
    /\ UNCHANGED coils
    /\ Asked(v, x)

AddForceCoilStatus(v, x) ==
    /\ v \in Coils
    /\ coils' = [w \in DOMAIN coils \cup {v} |-> IF w = v THEN x ELSE coils[w]]
    /\ UNCHANGED << order, regs >>
    /\ Asked(v, x)

(* The device changes a value that cannot be written.                       *)
Measure(v, x) ==
    /\ v \in Vars \ Writable
    /\ device' = [device EXCEPT ![v] = x]
    /\ UNCHANGED << control, pending, sending, port, cache, asked >>

-----------------------------------------------------------------------------
(* write_then_read.  The request reaches the device or not, its reply comes *)
(* in time, late or not at all.  Nothing in src/ tells whether the port     *)
(* throws a late reply away before the next request or hands it out as the  *)
(* reply to that; both are considered.                                      *)
Line(own, got) ==
    \/ /\ late = None
       /\ \/ got = own /\ late' = None
          \/ got = None /\ late' \in {None, IF keepsLate THEN own ELSE None}
    \/ /\ late # None /\ got = late
       /\ late' \in {own, None}

(* What the device answers.  The reply to several registers tells their     *)
(* number and not their values.                                             *)
WriteReply(w) ==
    IF w.var \in Multiples THEN [wrote |-> w.var] ELSE [wrote |-> w.var, value |-> w.value]

(* What the device reads in the request for write w.                        *)
(* create_preset_single_register appends as many bytes 1 as the high byte   *)
(* says and as many as the low byte says: unless there are two of them, the *)
(* request has the wrong length and the device does not take it.            *)
Requested(w) ==
    IF w.var \notin Singles THEN w
    ELSE IF (w.value \div 256) + (w.value % 256) = 2 THEN Write(w.var, Ones)
    ELSE None

ReadReply(t) == [list |-> t[1], values |-> [v \in Queries[t[1]][t[2]] |-> device[v]]]

(* Mutant of Acknowledges: any reply with the right function code will do.  *)
AcknowledgesAny(w, got) ==
    /\ got # None /\ "wrote" \in DOMAIN got
    /\ w.var \in Coils <=> got.wrote \in Coils

(* The reply acknowledges write w.  That a coil was switched on is never    *)
(* seen: decode_reply compares a signed byte with 0xff.                     *)
Acknowledges(w, got) ==
    /\ got # None /\ got = WriteReply(w)
    /\ w.var \in Coils => w.value = 0

(* The thread.                                                              *)
FirstFrom(k) == {l \in Lists : l >= k /\ Queries[l] # << >>}

Round ==
    /\ pc = "round"
    /\ IF ~keepRunning THEN pc' = "stopped" /\ UNCHANGED turn
       ELSE IF FirstFrom(1) = {} THEN UNCHANGED << pc, turn >>
       ELSE pc' = "registers" /\ turn' = << Min(FirstFrom(1)), 1 >>
    /\ UNCHANGED << keepRunning, pending, sending, port, device, cache, asked >>

(* Mutant of TakeRegisters: the map is copied and not moved.                *)
TakeRegistersCopied ==
    /\ pc = "registers" /\ batch = << >>
    /\ batch' = [i \in DOMAIN order |-> Write(order[i], regs[order[i]])]
    /\ pc' = IF order = << >> THEN "coils" ELSE "writing"
    /\ order' = << >>
    /\ UNCHANGED << keepRunning, turn, regs, coils, tries, port, device, cache, asked >>

(* write_holding_register takes all that is pending, under the mutex.       *)
TakeRegisters ==
    /\ pc = "registers" /\ batch = << >>
    /\ batch' = [i \in DOMAIN order |-> Write(order[i], regs[order[i]])]
    /\ pc' = IF order = << >> THEN "coils" ELSE "writing"
    /\ order' = << >> /\ regs' = Empty
    /\ UNCHANGED << keepRunning, turn, coils, tries, port, device, cache, asked >>

(* The elements of S, each once, smallest first: a std::map's order.        *)
InOrder(S) ==
    {s \in [1..Cardinality(S) -> S] :
        Range(s) = S /\ \A i, j \in DOMAIN s : i < j => s[i] < s[j]}

(* force_coil_status, in the order of the map.                              *)
TakeCoils ==
    /\ pc = "coils" /\ batch = << >>
    /\ \E s \in InOrder(DOMAIN coils) : batch' = [i \in DOMAIN s |-> Write(s[i], coils[s[i]])]
    /\ pc' = IF DOMAIN coils = {} THEN "query" ELSE "writing"
    /\ coils' = Empty
    /\ UNCHANGED << keepRunning, turn, order, regs, tries, port, device, cache, asked >>

(* Mutant of AfterWrite: what was asked for meanwhile is sent first.        *)
AfterWriteMore(w) ==
    IF Len(batch) > 1 THEN "writing"
    ELSE IF Waiting # {} THEN "registers"
    ELSE IF w.var \in Coils THEN "query" ELSE "coils"

(* What was asked for meanwhile waits until after the query.                *)
AfterWrite(w) ==
    IF Len(batch) > 1 THEN "writing"
    ELSE IF w.var \in Coils THEN "query" ELSE "coils"

(* One try; after a second one the write is forgotten in any case.          *)
TryWrite ==
    /\ pc = "writing"
    /\ LET w == Head(batch)
       IN \E r \in {None, Requested(w)} :
          LET own == IF r = None THEN None ELSE WriteReply(r)
          IN \E got \in {None, late, own} :
            /\ Line(own, got)
            /\ device' = IF r = None THEN device ELSE [device EXCEPT ![r.var] = r.value]
            /\ IF Acknowledges(w, got) \/ tries = 1
               THEN /\ batch' = Tail(batch) /\ tries' = 0
                    /\ pc' = AfterWrite(w)
                    /\ asked' = IF Acknowledges(w, got) \/ w.var \in Waiting THEN asked
                                ELSE [asked EXCEPT ![w.var] = None]
               ELSE tries' = 1 /\ UNCHANGED << batch, pc, asked >>
    /\ UNCHANGED << keepRunning, turn, pending, keepsLate, cache >>

(* Mutant of Published: a value of 0 is taken for no value.                 *)
PublishedNonzero(t, got) ==
    IF got = None \/ "wrote" \in DOMAIN got THEN {cache}
    ELSE {[v \in Vars |-> IF v \in DOMAIN got.values /\ got.values[v] # 0 THEN got.values[v] ELSE cache[v]]}

(* A reply is taken for the query's when it is long enough and has its      *)
(* function code.  The reply to another query has other addresses' values,  *)
(* and more or fewer of them.                                               *)
Published(t, got) ==
    IF got = None \/ "wrote" \in DOMAIN got THEN {cache}
    ELSE IF got.list # t[1] THEN {cache}
    ELSE IF DOMAIN got.values = Queries[t[1]][t[2]]
         THEN {[v \in Vars |-> IF v \in DOMAIN got.values THEN got.values[v] ELSE cache[v]]}
    ELSE {f \in [Vars -> Values] :
            \A v \in Vars : f[v] \in {cache[v]} \cup IF v \in Queries[t[1]][t[2]] THEN Range(got.values) ELSE {}}

NextTurn(t) ==
    IF t[2] < Len(Queries[t[1]]) THEN pc' = "registers" /\ turn' = << t[1], t[2] + 1 >>
    ELSE IF FirstFrom(t[1] + 1) # {} THEN pc' = "registers" /\ turn' = << Min(FirstFrom(t[1] + 1)), 1 >>
    ELSE pc' = "round" /\ UNCHANGED turn

(* Whatever comes, the next query is asked next.                            *)
AskQuery(got) ==
    /\ pc = "query"
    /\ \E reached \in BOOLEAN : Line(IF reached THEN ReadReply(turn) ELSE None, got)
    /\ cache' \in Published(turn, got)
    /\ NextTurn(turn)
    /\ UNCHANGED << keepRunning, pending, sending, keepsLate, device, asked >>

-----------------------------------------------------------------------------
(* stop waits for the end of the round; start makes a new thread.           *)
Stop ==
    /\ keepRunning
    /\ keepRunning' = FALSE
    /\ UNCHANGED << pc, turn, pending, sending, port, device, cache, asked >>

Start ==
    /\ pc = "stopped"
    /\ keepRunning' = TRUE /\ pc' = "round"
    /\ UNCHANGED << turn, pending, sending, port, device, cache, asked >>

Answered(t) == turn = t /\ AskQuery(ReadReply(t))

Thread ==
    \/ Round \/ TakeRegisters \/ TakeCoils \/ TryWrite
    \/ \E got \in {None, late, ReadReply(turn)} : AskQuery(got)

Next ==
    \/ \E w \in Wanted : AddWriteHoldingRegister(w[1], w[2]) \/ AddForceCoilStatus(w[1], w[2])
    \/ \E v \in Vars, x \in Readings : Measure(v, x)
    \/ Thread
    \/ Stop
    \/ Start

(* The thread runs; a query that is asked again and again is answered again *)
(* and again.                                                               *)
Fairness == WF_vars(Thread) /\ \A t \in Turns : SF_vars(Answered(t))

Spec == Init /\ [][Next]_vars /\ Fairness

-----------------------------------------------------------------------------
(* Every variable has its type; what waits in the order waits in the map,   *)
(* once.                                                                    *)
TypeOK ==
    /\ keepRunning \in BOOLEAN
    /\ pc \in {"stopped", "round", "registers", "writing", "coils", "query"}
    /\ pc \in {"registers", "writing", "coils", "query"} => turn \in Turns
    /\ order \in Seq(Singles \cup Multiples) /\ Range(order) = DOMAIN regs /\ IsInjective(order)
    /\ DOMAIN regs \subseteq Singles \cup Multiples /\ Range(regs) \subseteq Values
    /\ DOMAIN coils \subseteq Coils /\ Range(coils) \subseteq Values
    /\ batch \in Seq([var : Writable, value : Values]) /\ tries \in 0..1
    /\ pc = "writing" <=> batch # << >>
    /\ keepsLate \in BOOLEAN /\ (~keepsLate => late = None)
    /\ device \in [Vars -> Values] /\ cache \in [Vars -> Values]
    /\ asked \in [Writable -> Values \cup {None}]

Waits(v) == v \in Waiting \/ \E i \in DOMAIN batch : batch[i].var = v

(* The last value asked for is in the device, or waits to be sent, or was   *)
(* itself given up after two tries: an older one never comes after it, and  *)
(* an older one that was given up does not matter to it.  The reply to a    *)
(* write of several registers does not tell their values: on a port that    *)
(* keeps late replies it may be that of an older write.                     *)
NewestWins ==
    \A v \in Writable :
        asked[v] # None /\ ~Waits(v) /\ (v \in Multiples => ~keepsLate)
            => device[v] = asked[v]

(* Clients may go on asking for writes for ever, and replies may be lost:   *)
(* every query is asked again and again while the process is not stopped.   *)
EveryQueryAsked ==
    \A t \in Turns : <>[]keepRunning => []<>(pc = "query" /\ turn = t)

(* On a port without late replies, a value that stays in the device is      *)
(* shown in the end, and for good.                                          *)
EventuallyShown ==
    \A v \in UNION {Queries[t[1]][t[2]] : t \in Turns} :
        <>[](keepRunning /\ ~keepsLate) /\ <>[][device'[v] = device[v]]_device => <>[](cache[v] = device[v])
=============================================================================
