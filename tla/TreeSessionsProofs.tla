------------------------- MODULE TreeSessionsProofs -------------------------
(***************************************************************************)
(* Proofs about TreeSessions, for any connections, paths, points and        *)
(* commands.                                                                *)
(***************************************************************************)
EXTENDS TreeSessions, TLAPS

Shape == TypeOK /\ tree[Root] # "none"

(* While nothing has crossed, partialMessage holds the beginning that one   *)
(* connection has sent, or nothing.                                         *)
OneBeginning ==
    ~crossed =>
        \/ partial = << >> /\ \A c \in Connections : mid[c] = None
        \/ \E c \in Connections :
              /\ mid[c] # None /\ partial = << Piece(c, mid[c]) >>
              /\ \A d \in Connections \ {c} : mid[d] = None

(* Who is owed an update has a listener.                                    *)
OwedListen == \A c \in Connections : \A x \in stale[c] : x[1] \in listens[c]

(* The ids collected on the way up lead back to the leaf.                   *)
WayBack(w) ==
    /\ Len(w.leaf) = Len(w.node) + Len(w.keys)
    /\ \A i \in 1..Len(w.node) : w.leaf[i] = w.node[i]
    /\ \A i \in 1..Len(w.keys) : w.leaf[Len(w.leaf) - i + 1] = w.keys[i]

(* Whom thread t is writing to in its walk w has a listener there, and the  *)
(* walk carries what the leaf has.  A channel's thread carries changes of   *)
(* its points, the talker those of leaves without a device: no two threads  *)
(* carry changes of one leaf.                                               *)
Current(t, w) ==
    /\ w.busy # None => w.node \in listens[w.busy]
    /\ IF t = Talker THEN tree[w.leaf] = "ram" ELSE w.leaf \in Points /\ w.leaf[1] = t
    /\ w.value = value[w.leaf]
    /\ WayBack(w)

AllCurrent ==
    /\ \A p \in Points : tree[p] = "point"
    /\ \A t \in Threads : Walking(t) => Current(t, walk[t])

-----------------------------------------------------------------------------
(* Paths.                                                                   *)
LEMMA PathType ==
    ASSUME NEW p \in Paths
    PROVE  p \in Seq(Ids) /\ Len(p) \in Nat /\ p # None
<1>1. p \in Seq(Range(p)) /\ p # None
  BY TreeAssumption
<1>2. DOMAIN p = 1..Len(p) /\ Len(p) \in Nat
  BY <1>1
<1>3. \A i \in 1..Len(p) : p[i] \in Range(p)
  BY <1>2 DEF Range
<1>4. \A i \in 1..Len(p) : p[i] \in Ids
  BY <1>3 DEF Ids
<1>5. p = [i \in 1..Len(p) |-> p[i]]
  BY <1>1, <1>2
<1>6. p \in [1..Len(p) -> Ids]
  BY <1>4, <1>5
<1> QED
  BY <1>1, <1>2, <1>6

LEMMA RootIsPath == Root \in Paths /\ Root = << >>
BY TreeAssumption DEF Root

LEMMA FrontOfPath ==
    ASSUME NEW p \in Paths, p # Root
    PROVE  /\ Front(p) \in Paths /\ Len(Front(p)) = Len(p) - 1 /\ Len(p) \in Nat \ {0}
           /\ \A i \in 1..Len(p) - 1 : Front(p)[i] = p[i]
           /\ Last(p) = p[Len(p)] /\ Last(p) \in Ids
<1>1. p \in Seq(Ids) /\ Len(p) \in Nat
  BY PathType
<1>2. Len(p) # 0
  BY <1>1 DEF Root
<1>3. Front(p) \in Paths
  BY TreeAssumption
<1>4. p[Len(p)] \in Ids
  BY <1>1, <1>2
<1>5. Front(p) = SubSeq(p, 1, Len(p) - 1)
  BY DEF Front
<1>6. Len(p) - 1 \in Nat /\ Len(p) - 1 <= Len(p)
  BY <1>1, <1>2
<1>7. Front(p) = [i \in 1..Len(p) - 1 |-> p[i]]
  BY <1>1, <1>5, <1>6
<1>8. Len(Front(p)) = Len(p) - 1
  BY <1>6, <1>7
<1> QED
  BY <1>1, <1>2, <1>3, <1>4, <1>7, <1>8 DEF Last

LEMMA PrefixOfPath ==
    ASSUME NEW m \in Paths, NEW n \in Paths
    PROVE  /\ IsPrefix(m, n) <=> Len(m) <= Len(n) /\ \A i \in 1..Len(m) : m[i] = n[i]
           /\ IsPrefix(n, n)
           /\ IsPrefix(m, n) /\ n = Root => m = Root
           /\ IsPrefix(m, n) /\ m # n /\ n # Root => IsPrefix(m, Front(n))
<1>1. m \in Seq(Ids) /\ n \in Seq(Ids) /\ Len(m) \in Nat /\ Len(n) \in Nat
  BY PathType
<1>2. ASSUME NEW a \in Seq(Ids), NEW b \in Seq(Ids), Len(a) <= Len(b)
      PROVE  SubSeq(a, 1, Len(a)) = SubSeq(b, 1, Len(a)) <=> \A i \in 1..Len(a) : a[i] = b[i]
  <2>1. Len(a) \in Nat /\ Len(b) \in Nat
    BY <1>2
  <2>2. /\ SubSeq(a, 1, Len(a)) = [i \in 1..Len(a) |-> a[i]]
        /\ SubSeq(b, 1, Len(a)) = [i \in 1..Len(a) |-> b[i]]
    BY <1>2, <2>1
  <2> QED
    BY <2>2
<1>3. IsPrefix(m, n) <=> Len(m) <= Len(n) /\ \A i \in 1..Len(m) : m[i] = n[i]
  BY <1>1, <1>2 DEF IsPrefix
<1>4. IsPrefix(n, n)
  BY <1>1, <1>2 DEF IsPrefix
<1>5. ASSUME IsPrefix(m, n), n = Root
      PROVE  m = Root
  <2>1. Len(n) = 0
    BY <1>5 DEF Root
  <2>2. Len(m) = 0
    BY <1>1, <1>3, <1>5, <2>1
  <2> QED
    BY <1>1, <2>2 DEF Root
<1>6. ASSUME IsPrefix(m, n), m # n, n # Root
      PROVE  IsPrefix(m, Front(n))
  <2>1. Len(m) # Len(n)
    <3>1. SUFFICES ASSUME Len(m) = Len(n)
                   PROVE  m = n
      BY <1>6
    <3>2. \A i \in 1..Len(m) : m[i] = n[i]
      BY <1>3, <1>6
    <3> QED
      BY <1>1, <3>1, <3>2
  <2>2. Len(m) <= Len(n) - 1
    BY <1>1, <1>3, <1>6, <2>1
  <2>3. /\ Front(n) \in Paths /\ Len(Front(n)) = Len(n) - 1
        /\ \A i \in 1..Len(n) - 1 : Front(n)[i] = n[i]
    BY <1>6, FrontOfPath
  <2>4. Front(n) \in Seq(Ids)
    BY <2>3, PathType
  <2>5. \A i \in 1..Len(m) : m[i] = Front(n)[i]
    BY <1>1, <1>3, <1>6, <2>2, <2>3
  <2> QED
    BY <1>1, <1>2, <2>2, <2>3, <2>4, <2>5 DEF IsPrefix
<1> QED
  BY <1>3, <1>4, <1>5, <1>6

-----------------------------------------------------------------------------
(* The threads' walks.                                                      *)
LEMMA WalkParts ==
    ASSUME NEW w \in Walk
    PROVE  /\ w.leaf \in Paths /\ w.value \in Values /\ w.node \in Paths /\ w.keys \in Seq(Ids)
           /\ w.inside \in BOOLEAN /\ w.left \in SUBSET Connections /\ w.busy \in Connections \cup {None}
           /\ w # None
BY TreeAssumption DEF Walk

LEMMA WalkType ==
    ASSUME Shape, NEW t \in Threads, Walking(t)
    PROVE  walk[t] \in Walk
BY DEF Shape, TypeOK, Walking

(* Only the walk of thread t changes, into w.                               *)
OnlyWalk(t, w) ==
    /\ walk' \in [Threads -> Walk \cup {None}]
    /\ walk'[t] = w
    /\ \A u \in Threads \ {t} : walk'[u] = walk[u]

(* The same, where the walk goes on.                                        *)
WalkOn(t, w) == w \in Walk /\ OnlyWalk(t, w)

LEMMA WalkChanged ==
    ASSUME Shape, NEW t \in Threads, NEW w \in Walk \cup {None}, walk' = [walk EXCEPT ![t] = w]
    PROVE  OnlyWalk(t, w)
<1>1. walk \in [Threads -> Walk \cup {None}]
  BY DEF Shape, TypeOK
<1> QED
  BY <1>1 DEF OnlyWalk

(* A walk with all its parts.                                               *)
Going(l, v, n, k, i, rest, b) ==
    [leaf |-> l, value |-> v, node |-> n, keys |-> k, inside |-> i, left |-> rest, busy |-> b]

LEMMA GoingType ==
    ASSUME NEW l \in Paths, NEW v \in Values, NEW n \in Paths, NEW k \in Seq(Ids),
           NEW i \in BOOLEAN, NEW rest \in SUBSET Connections, NEW b \in Connections \cup {None}
    PROVE  /\ Going(l, v, n, k, i, rest, b) \in Walk
           /\ Going(l, v, n, k, i, rest, b) # None
BY TreeAssumption DEF Going, Walk

(* What a step makes of a walk.                                             *)
LEMMA WalkEntering ==
    ASSUME NEW w \in Walk, NEW L \in SUBSET Connections
    PROVE  [w EXCEPT !.inside = TRUE, !.left = L] = Going(w.leaf, w.value, w.node, w.keys, TRUE, L, w.busy)
<1> DEFINE r == [w EXCEPT !.inside = TRUE, !.left = L]
<1>1. r \in Walk
  BY DEF Walk
<1>2. /\ r.leaf = w.leaf
      /\ r.value = w.value
      /\ r.node = w.node
      /\ r.keys = w.keys
      /\ r.inside = TRUE
      /\ r.left = L
      /\ r.busy = w.busy
  BY DEF Walk
<1> HIDE DEF r
<1>3. r = Going(w.leaf, w.value, w.node, w.keys, TRUE, L, w.busy)
  BY <1>1, <1>2 DEF Walk, Going
<1> QED
  BY <1>3 DEF r

LEMMA WalkTaking ==
    ASSUME NEW w \in Walk, NEW L \in SUBSET Connections, NEW b \in Connections \cup {None}
    PROVE  [w EXCEPT !.left = L, !.busy = b] = Going(w.leaf, w.value, w.node, w.keys, w.inside, L, b)
<1> DEFINE r == [w EXCEPT !.left = L, !.busy = b]
<1>1. r \in Walk
  BY DEF Walk
<1>2. /\ r.leaf = w.leaf
      /\ r.value = w.value
      /\ r.node = w.node
      /\ r.keys = w.keys
      /\ r.inside = w.inside
      /\ r.left = L
      /\ r.busy = b
  BY DEF Walk
<1> HIDE DEF r
<1>3. r = Going(w.leaf, w.value, w.node, w.keys, w.inside, L, b)
  BY <1>1, <1>2 DEF Walk, Going
<1> QED
  BY <1>3 DEF r

LEMMA WalkSending ==
    ASSUME NEW w \in Walk, NEW b \in Connections \cup {None}
    PROVE  [w EXCEPT !.busy = b] = Going(w.leaf, w.value, w.node, w.keys, w.inside, w.left, b)
<1> DEFINE r == [w EXCEPT !.busy = b]
<1>1. r \in Walk
  BY DEF Walk
<1>2. /\ r.leaf = w.leaf
      /\ r.value = w.value
      /\ r.node = w.node
      /\ r.keys = w.keys
      /\ r.inside = w.inside
      /\ r.left = w.left
      /\ r.busy = b
  BY DEF Walk
<1> HIDE DEF r
<1>3. r = Going(w.leaf, w.value, w.node, w.keys, w.inside, w.left, b)
  BY <1>1, <1>2 DEF Walk, Going
<1> QED
  BY <1>3 DEF r

LEMMA WalkGoingUp ==
    ASSUME NEW w \in Walk, NEW f \in Paths, NEW k \in Seq(Ids)
    PROVE  [w EXCEPT !.inside = FALSE, !.node = f, !.keys = k] = Going(w.leaf, w.value, f, k, FALSE, w.left, w.busy)
<1> DEFINE r == [w EXCEPT !.inside = FALSE, !.node = f, !.keys = k]
<1>1. r \in Walk
  BY DEF Walk
<1>2. /\ r.leaf = w.leaf
      /\ r.value = w.value
      /\ r.node = f
      /\ r.keys = k
      /\ r.inside = FALSE
      /\ r.left = w.left
      /\ r.busy = w.busy
  BY DEF Walk
<1> HIDE DEF r
<1>3. r = Going(w.leaf, w.value, f, k, FALSE, w.left, w.busy)
  BY <1>1, <1>2 DEF Walk, Going
<1> QED
  BY <1>3 DEF r

LEMMA EnterWalk ==
    ASSUME Shape, NEW t \in Threads, Enter(t)
    PROVE  LET w == walk[t]
           IN  WalkOn(t, Going(w.leaf, w.value, w.node, w.keys, TRUE,
                                 {c \in Connections : w.node \in listens[c]}, w.busy))
<1> DEFINE w == walk[t]
           L == {c \in Connections : w.node \in listens[c]}
           g == Going(w.leaf, w.value, w.node, w.keys, TRUE, L, w.busy)
<1>1. w \in Walk
  BY WalkType DEF Enter
<1>2. walk' = [walk EXCEPT ![t] = [w EXCEPT !.inside = TRUE, !.left = L]]
  BY DEF Enter
<1> HIDE DEF L
<1>4. L \in SUBSET Connections
  BY DEF L
<1>3. [w EXCEPT !.inside = TRUE, !.left = L] = g
  BY <1>1, <1>4, WalkEntering
<1>5. g \in Walk
  BY <1>1, <1>4, WalkParts, GoingType
<1> HIDE DEF g
<1>6. WalkOn(t, g)
  BY <1>2, <1>3, <1>5, WalkChanged DEF WalkOn
<1> QED
  BY <1>6 DEF g, L

LEMMA TakeWalk ==
    ASSUME Shape, NEW t \in Threads, NEW c \in Connections, Take(t, c)
    PROVE  LET w == walk[t]
           IN  WalkOn(t, Going(w.leaf, w.value, w.node, w.keys, w.inside, w.left \ {c},
                                 IF w.node \in listens[c] THEN c ELSE None))
<1> DEFINE w == walk[t]
           L == w.left \ {c}
           b == IF w.node \in listens[c] THEN c ELSE None
           g == Going(w.leaf, w.value, w.node, w.keys, w.inside, L, b)
<1>1. w \in Walk
  BY WalkType DEF Take
<1>2. walk' = [walk EXCEPT ![t] = [w EXCEPT !.left = L, !.busy = b]]
  BY DEF Take
<1>3. L \in SUBSET Connections /\ b \in Connections \cup {None}
  BY <1>1, WalkParts
<1> HIDE DEF L, b
<1>4. [w EXCEPT !.left = L, !.busy = b] = g
  BY <1>1, <1>3, WalkTaking
<1>5. g \in Walk
  BY <1>1, <1>3, WalkParts, GoingType
<1> HIDE DEF g
<1>6. WalkOn(t, g)
  BY <1>2, <1>4, <1>5, WalkChanged DEF WalkOn
<1> QED
  BY <1>6 DEF g, L, b

LEMMA SendWalk ==
    ASSUME Shape, NEW t \in Threads, Send(t)
    PROVE  LET w == walk[t]
           IN  WalkOn(t, Going(w.leaf, w.value, w.node, w.keys, w.inside, w.left, None))
<1> DEFINE w == walk[t]
           g == Going(w.leaf, w.value, w.node, w.keys, w.inside, w.left, None)
<1>1. w \in Walk
  BY WalkType DEF Send
<1>2. walk' = [walk EXCEPT ![t] = [w EXCEPT !.busy = None]]
  BY DEF Send
<1>3. [w EXCEPT !.busy = None] = g
  BY <1>1, WalkSending
<1>4. g \in Walk
  BY <1>1, WalkParts, GoingType
<1> HIDE DEF g
<1>5. WalkOn(t, g)
  BY <1>2, <1>3, <1>4, WalkChanged DEF WalkOn
<1> QED
  BY <1>5 DEF g

LEMMA UpWalk ==
    ASSUME Shape, NEW t \in Threads, Up(t)
    PROVE  LET w == walk[t]
           IN  WalkOn(t, Going(w.leaf, w.value, Front(w.node), Append(w.keys, Last(w.node)),
                                 FALSE, w.left, w.busy))
<1> DEFINE w == walk[t]
           f == Front(w.node)
           k == Append(w.keys, Last(w.node))
           g == Going(w.leaf, w.value, f, k, FALSE, w.left, w.busy)
<1>1. w \in Walk /\ w.node # Root
  BY WalkType DEF Up
<1>2. walk' = [walk EXCEPT ![t] = [w EXCEPT !.inside = FALSE, !.node = f, !.keys = k]]
  BY DEF Up
<1>3. f \in Paths /\ k \in Seq(Ids)
  <2>1. Front(w.node) \in Paths /\ Last(w.node) \in Ids /\ w.keys \in Seq(Ids)
    BY <1>1, WalkParts, FrontOfPath
  <2> QED
    BY <2>1
<1> HIDE DEF f, k
<1>4. [w EXCEPT !.inside = FALSE, !.node = f, !.keys = k] = g
  BY <1>1, <1>3, WalkGoingUp
<1>5. g \in Walk
  BY <1>1, <1>3, WalkParts, GoingType
<1> HIDE DEF g
<1>6. WalkOn(t, g)
  BY <1>2, <1>4, <1>5, WalkChanged DEF WalkOn
<1> QED
  BY <1>6 DEF g, f, k

LEMMA DoneWalk ==
    ASSUME Shape, NEW t \in Threads, Done(t)
    PROVE  OnlyWalk(t, None)
BY WalkChanged DEF Done

LEMMA ChangeWalk ==
    ASSUME Shape, NEW t \in Threads, NEW p \in Paths, NEW v \in Values, Change(t, p, v)
    PROVE  WalkOn(t, Going(p, v, p, << >>, FALSE, {}, None))
<1> DEFINE g == Going(p, v, p, << >>, FALSE, {}, None)
<1>1. walk' = [walk EXCEPT ![t] = g]
  BY DEF Change, Going
<1>2. << >> \in Seq(Ids)
  OBVIOUS
<1>3. g \in Walk
  BY <1>2, GoingType
<1> HIDE DEF g
<1>4. WalkOn(t, g)
  BY <1>1, <1>3, WalkChanged DEF WalkOn
<1> QED
  BY <1>4 DEF g

-----------------------------------------------------------------------------
(* Commands.                                                                *)

(* A node is made where none was.                                           *)
Grow(p, k) ==
    /\ tree[p] = "none" /\ tree' = [tree EXCEPT ![p] = k]
    /\ UNCHANGED << value, session, serving, walk, stale >>

(* What a command may do.                                                   *)
Effect(c) ==
    \/ OnlyReply
    \/ \E n \in Paths : tree[n] # "none" /\ MoveTo(c, n)
    \/ \E n \in Paths : Listen(c, n)
    \/ \E p \in Paths, v \in Values : PutRam(c, p, v)
    \/ \E p \in Paths, k \in {"branch", "ram"} : Grow(p, k)

LEMMA NewNodeEffect ==
    ASSUME NEW c, NEW p, NEW k \in {"branch", "ram"}, NewNode(p, k)
    PROVE  Effect(c)
<1>1. CASE p \in Paths /\ tree[p] = "none" /\ tree' = [tree EXCEPT ![p] = k]
  <2>1. Grow(p, k)
    BY <1>1 DEF NewNode, Grow
  <2> QED
    BY <1>1, <2>1 DEF Effect
<1>2. CASE tree' = tree
  BY <1>2 DEF NewNode, Effect, OnlyReply
<1> QED
  BY <1>1, <1>2 DEF NewNode

LEMMA ExecuteEffect ==
    ASSUME Shape, NEW c, NEW h, NEW a, Execute(c, h, a)
    PROVE  Effect(c)
<1>1. CASE MoveToTop(c, h)
  BY <1>1, RootIsPath DEF MoveToTop, Effect, Shape
<1>2. CASE MoveDown(c, h)
  BY <1>2 DEF MoveDown, Found, Effect
<1>3. CASE ListenValue(c, h, a)
  BY <1>3 DEF ListenValue, Found, Effect
<1>4. CASE WriteValue(c, h, a)
  BY <1>4 DEF WriteValue, Found, Effect
<1>5. CASE SetValue(c, h, a)
  BY <1>5 DEF SetValue, Found, Effect
<1>6. CASE UnsetValue(c, h)
  BY <1>6 DEF UnsetValue, Found, Effect
<1>7. CASE CreateBranch(c, h, a)
  BY <1>7, NewNodeEffect DEF CreateBranch
<1>8. CASE CreateLeaf(c, h, a)
  BY <1>8, NewNodeEffect DEF CreateLeaf
<1>9. CASE Show(c, h) \/ Read(c, h) \/ GetPriority(c, h) \/ ListenBranch(c, h)
           \/ DeleteChild(c, h) \/ Refused(c, h, a)
  BY <1>9 DEF Show, Read, GetPriority, ListenBranch, DeleteChild, Refused, Effect
<1> QED
  BY <1>1, <1>2, <1>3, <1>4, <1>5, <1>6, <1>7, <1>8, <1>9 DEF Execute

(* The end of a line: the command and its reply.                            *)
LEMMA LineEffect ==
    ASSUME Shape, NEW c, NEW asked, NEW pieces, NEW a, LineEnds(c, asked, pieces, a)
    PROVE  Effect(c) /\ Answered(c, asked, pieces)
<1>1. CASE Len(pieces) = 1
  BY <1>1, ExecuteEffect DEF LineEnds
<1>2. CASE Len(pieces) # 1
  BY <1>2 DEF LineEnds, Effect
<1> QED
  BY <1>1, <1>2 DEF LineEnds

-----------------------------------------------------------------------------
(* Types.                                                                   *)
Thing == {"none", "branch", "ram", "point"}

(* The parts of Shape that have to do with lines, and the others.           *)
LineShape ==
    /\ partial \in Seq([from : Connections, head : Split])
    /\ mid \in [Connections -> Split \cup {None}] /\ misled \in BOOLEAN

TreeShape ==
    /\ tree \in [Paths -> Thing] /\ tree[Root] # "none"
    /\ value \in [Paths -> Values]
    /\ cursor \in [Connections -> Paths \cup {None}]
    /\ \A c \in Connections : IsOpen(c) => tree[cursor[c]] # "none"

WatchShape ==
    /\ listens \in [Connections -> SUBSET Paths]
    /\ stale \in [Connections -> SUBSET (Paths \X Paths)]

WalkShape ==
    /\ serving \in Connections \cup {None}
    /\ Walking(Talker) <=> serving # None
    /\ walk \in [Threads -> Walk \cup {None}]

LEMMA ShapeParts == Shape <=> LineShape /\ TreeShape /\ WatchShape /\ WalkShape
BY DEF Shape, TypeOK, LineShape, TreeShape, WatchShape, WalkShape, Thing

LEMMA ShapeAfter == LineShape' /\ TreeShape' /\ WatchShape' /\ WalkShape' => Shape'
BY DEF Shape, TypeOK, LineShape, TreeShape, WatchShape, WalkShape, Thing

LEMMA InitShape == Init => Shape
<1> SUFFICES ASSUME Init
             PROVE  Shape
  OBVIOUS
<1>1. LineShape
  <2>1. << >> \in Seq([from : Connections, head : Split])
    OBVIOUS
  <2>2. mid \in [Connections -> Split \cup {None}]
    BY DEF Init
  <2> QED
    BY <2>1, <2>2 DEF Init, LineShape
<1>2. TreeShape
  <2>1. tree = [p \in Paths |-> IF p \in Points THEN "point"
                                ELSE IF p = Root \/ p \in {Front(q) : q \in Points} THEN "branch"
                                ELSE "none"]
    BY DEF Init, Attached
  <2>2. tree \in [Paths -> Thing] /\ tree[Root] # "none"
    BY <2>1, RootIsPath DEF Thing
  <2>3. value \in [Paths -> Values] /\ \A c \in Connections : cursor[c] = None
    BY DEF Init
  <2>4. cursor \in [Connections -> Paths \cup {None}]
    BY DEF Init
  <2> QED
    BY <2>2, <2>3, <2>4 DEF TreeShape, IsOpen
<1>3. WatchShape
  BY DEF Init, WatchShape
<1>4. WalkShape
  BY DEF Init, WalkShape, Walking, Threads
<1> QED
  BY <1>1, <1>2, <1>3, <1>4, ShapeParts

(* A change of leaf p in a thread that has no walk yet.                     *)
LEMMA ChangeShape ==
    ASSUME Shape, NEW t \in Threads, NEW p \in Paths, NEW v \in Values, Change(t, p, v)
    PROVE  /\ value' \in [Paths -> Values]
           /\ stale' \in [Connections -> SUBSET (Paths \X Paths)]
           /\ walk' \in [Threads -> Walk \cup {None}]
           /\ walk'[t] # None /\ \A u \in Threads \ {t} : walk'[u] = walk[u]
<1>1. value' \in [Paths -> Values]
  BY DEF Change, Shape, TypeOK
<1>2. stale' \in [Connections -> SUBSET (Paths \X Paths)]
  <2>1. stale' = [c \in Connections |->
                    stale[c] \cup {<< n, p >> : n \in {m \in Paths : m \in listens[c] /\ IsPrefix(m, p)}}]
    BY DEF Change
  <2>2. \A c \in Connections : stale[c] \in SUBSET (Paths \X Paths)
    BY DEF Shape, TypeOK
  <2> QED
    BY <2>1, <2>2
<1>3. WalkOn(t, Going(p, v, p, << >>, FALSE, {}, None))
  BY ChangeWalk
<1>4. walk'[t] # None
  BY <1>3, WalkParts DEF WalkOn, OnlyWalk
<1> QED
  BY <1>1, <1>2, <1>3, <1>4 DEF WalkOn, OnlyWalk

LEMMA TalkerIsThread == Talker \in Threads /\ \A p \in Points : p[1] \in Threads /\ p[1] # Talker
BY TreeAssumption DEF Threads, Channels

LEMMA PublishShape ==
    ASSUME Shape, NEW p \in Points, NEW v \in Values, Publish(p, v)
    PROVE  Shape'
<1>1. Change(p[1], p, v) /\ p[1] \in Threads /\ p[1] # Talker /\ p \in Paths
  BY TalkerIsThread, TreeAssumption DEF Publish
<1>2. /\ value' \in [Paths -> Values]
      /\ stale' \in [Connections -> SUBSET (Paths \X Paths)]
      /\ walk' \in [Threads -> Walk \cup {None}]
      /\ walk'[Talker] = walk[Talker]
  BY <1>1, ChangeShape, TalkerIsThread
<1>3. UNCHANGED << tree, session, line, serving >>
  BY DEF Publish
<1>4. LineShape'
  BY <1>3, ShapeParts DEF LineShape, line
<1>5. TreeShape'
  BY <1>2, <1>3, ShapeParts DEF TreeShape, session, IsOpen
<1>6. WatchShape'
  BY <1>2, <1>3, ShapeParts DEF WatchShape, session
<1>7. WalkShape'
  BY <1>2, <1>3, ShapeParts DEF WalkShape, Walking
<1> QED
  BY <1>4, <1>5, <1>6, <1>7, ShapeAfter

LEMMA ThreadShape ==
    ASSUME Shape, NEW t \in Threads, Thread(t)
    PROVE  Shape'
<1>1. UNCHANGED << tree, value, session, line >>
  BY DEF Thread, Enter, Take, Send, Up, Done
<1>2. LineShape' /\ TreeShape'
  BY <1>1, ShapeParts DEF LineShape, TreeShape, line, session, IsOpen
<1>3. WatchShape'
  <2>1. CASE Send(t)
    <3>1. stale \in [Connections -> SUBSET (Paths \X Paths)]
      BY DEF Shape, TypeOK
    <3>2. stale' \in [Connections -> SUBSET (Paths \X Paths)]
      BY <2>1, <3>1 DEF Send
    <3> QED
      BY <1>1, <3>2, ShapeParts DEF WatchShape, session
  <2>2. CASE ~Send(t)
    <3>1. stale' = stale
      BY <2>2 DEF Thread, Enter, Take, Up, Done
    <3> QED
      BY <1>1, <3>1, ShapeParts DEF WatchShape, session
  <2> QED
    BY <2>1, <2>2
<1>4. WalkShape'
  <2>1. CASE Done(t)
    <3>1. OnlyWalk(t, None)
      BY <2>1, DoneWalk
    <3>2. serving' = IF t = Talker THEN None ELSE serving
      BY <2>1 DEF Done
    <3> QED
      BY <3>1, <3>2, ShapeParts, TalkerIsThread DEF WalkShape, OnlyWalk, Walking
  <2>2. CASE ~Done(t)
    <3>1. \E w \in Walk : OnlyWalk(t, w)
      <4>1. CASE Enter(t)
        BY <4>1, EnterWalk DEF WalkOn
      <4>2. CASE Send(t)
        BY <4>2, SendWalk DEF WalkOn
      <4>3. CASE Up(t)
        BY <4>3, UpWalk DEF WalkOn
      <4>4. ASSUME NEW c \in Connections, Take(t, c)
            PROVE  \E w \in Walk : OnlyWalk(t, w)
        BY <4>4, TakeWalk DEF WalkOn
      <4> QED
        BY <2>2, <4>1, <4>2, <4>3, <4>4 DEF Thread
    <3>2. Walking(t)
      BY <2>2 DEF Thread, Enter, Take, Send, Up
    <3>3. serving' = serving
      BY <2>2 DEF Thread, Enter, Take, Send, Up
    <3> QED
      BY <3>1, <3>2, <3>3, ShapeParts, TalkerIsThread, WalkParts DEF WalkShape, OnlyWalk, Walking
  <2> QED
    BY <2>1, <2>2
<1> QED
  BY <1>2, <1>3, <1>4, ShapeAfter

(* What a command leaves behind but for the line it came on.                *)
LEMMA EffectShape ==
    ASSUME Shape, serving = None, NEW c \in Connections, Effect(c)
    PROVE  TreeShape' /\ WatchShape' /\ WalkShape'
<1> USE ShapeParts
<1>1. CASE OnlyReply
  BY <1>1 DEF OnlyReply, TreeShape, WatchShape, WalkShape, session, IsOpen, Walking
<1>2. ASSUME NEW n \in Paths, tree[n] # "none", MoveTo(c, n)
      PROVE  TreeShape' /\ WatchShape' /\ WalkShape'
  <2>1. cursor' \in [Connections -> Paths \cup {None}]
    BY <1>2 DEF MoveTo, TreeShape
  <2>2. \A d \in Connections : IsOpen(d)' => tree[cursor'[d]] # "none"
    BY <1>2 DEF MoveTo, TreeShape, IsOpen
  <2> QED
    BY <1>2, <2>1, <2>2 DEF MoveTo, TreeShape, WatchShape, WalkShape, Walking
<1>3. ASSUME NEW n \in Paths, Listen(c, n)
      PROVE  TreeShape' /\ WatchShape' /\ WalkShape'
  <2>1. listens' \in [Connections -> SUBSET Paths]
    BY <1>3 DEF Listen, WatchShape
  <2> QED
    BY <1>3, <2>1 DEF Listen, TreeShape, WatchShape, WalkShape, IsOpen, Walking
<1>4. ASSUME NEW p \in Paths, NEW v \in Values, PutRam(c, p, v)
      PROVE  TreeShape' /\ WatchShape' /\ WalkShape'
  <2>1. Change(Talker, p, v) /\ serving' = c /\ UNCHANGED << tree, session >>
    BY <1>4 DEF PutRam
  <2>2. /\ value' \in [Paths -> Values]
        /\ stale' \in [Connections -> SUBSET (Paths \X Paths)]
        /\ walk' \in [Threads -> Walk \cup {None}]
        /\ walk'[Talker] # None
    BY <2>1, ChangeShape, TalkerIsThread
  <2>3. c # None
    BY TreeAssumption
  <2> QED
    BY <2>1, <2>2, <2>3 DEF TreeShape, WatchShape, WalkShape, session, IsOpen, Walking
<1>5. ASSUME NEW p \in Paths, NEW k \in {"branch", "ram"}, Grow(p, k)
      PROVE  TreeShape' /\ WatchShape' /\ WalkShape'
  <2>1. tree' \in [Paths -> Thing]
    BY <1>5 DEF Grow, TreeShape, Thing
  <2>2. \A q \in Paths : tree[q] # "none" => tree'[q] = tree[q]
    BY <1>5 DEF Grow, TreeShape
  <2>3. \A d \in Connections : cursor[d] # None => tree'[cursor[d]] # "none"
    BY <2>2 DEF TreeShape, IsOpen
  <2>4. tree'[Root] # "none"
    BY <2>2, RootIsPath DEF TreeShape
  <2> QED
    BY <1>5, <2>1, <2>3, <2>4 DEF Grow, TreeShape, WatchShape, WalkShape, session, IsOpen, Walking
<1> QED
  BY <1>1, <1>2, <1>3, <1>4, <1>5 DEF Effect

LEMMA AnsweredShape ==
    ASSUME Shape, NEW c \in Connections, NEW asked, NEW pieces, Answered(c, asked, pieces)
    PROVE  LineShape'
<1>1. << >> \in Seq([from : Connections, head : Split])
  OBVIOUS
<1>2. mid' \in [Connections -> Split \cup {None}]
  BY DEF Answered, Shape, TypeOK
<1>3. misled' \in BOOLEAN
  BY DEF Answered, Shape, TypeOK
<1> QED
  BY <1>1, <1>2, <1>3 DEF Answered, LineShape

LEMMA ConnectShape ==
    ASSUME Shape, NEW c \in Connections, Connect(c)
    PROVE  Shape'
<1>1. cursor' \in [Connections -> Paths \cup {None}]
  BY RootIsPath DEF Connect, Shape, TypeOK
<1>2. \A d \in Connections : IsOpen(d)' => tree[cursor'[d]] # "none"
  BY DEF Connect, Shape, TypeOK, IsOpen
<1> QED
  BY <1>1, <1>2, ShapeParts, ShapeAfter
  DEF Connect, line, LineShape, TreeShape, WatchShape, WalkShape, Walking

LEMMA DisconnectShape ==
    ASSUME Shape, NEW c \in Connections, Disconnect(c)
    PROVE  Shape'
<1>1. /\ cursor' = [cursor EXCEPT ![c] = None]
      /\ listens' = [listens EXCEPT ![c] = {}] /\ stale' = [stale EXCEPT ![c] = {}]
      /\ mid' = [mid EXCEPT ![c] = None]
      /\ UNCHANGED << tree, value, partial, misled, serving, walk >>
  BY DEF Disconnect, Destroyed
<1>2. TreeShape'
  <2>1. cursor' \in [Connections -> Paths \cup {None}]
    BY <1>1, ShapeParts DEF TreeShape
  <2>2. \A d \in Connections : IsOpen(d)' => tree[cursor'[d]] # "none"
    BY <1>1, ShapeParts DEF TreeShape, IsOpen
  <2> QED
    BY <1>1, <2>1, <2>2, ShapeParts DEF TreeShape
<1>3. WatchShape'
  BY <1>1, ShapeParts DEF WatchShape
<1>4. LineShape'
  BY <1>1, ShapeParts DEF LineShape
<1>5. WalkShape'
  BY <1>1, ShapeParts DEF WalkShape, Walking
<1> QED
  BY <1>2, <1>3, <1>4, <1>5, ShapeAfter

LEMMA BeginShape ==
    ASSUME Shape, NEW c \in Connections, NEW h \in Split, Begin(c, h)
    PROVE  Shape'
<1>1. Piece(c, h) \in [from : Connections, head : Split]
  BY DEF Piece
<1>2. partial' \in Seq([from : Connections, head : Split])
  BY <1>1 DEF Begin, Shape, TypeOK
<1>3. mid' \in [Connections -> Split \cup {None}]
  BY DEF Begin, Shape, TypeOK
<1> QED
  BY <1>2, <1>3, ShapeParts, ShapeAfter
  DEF Begin, LineShape, TreeShape, WatchShape, WalkShape, session, IsOpen, Walking

LEMMA LongLineShape ==
    ASSUME Shape, NEW c \in Connections, LongLine(c)
    PROVE  Shape'
<1>1. partial' \in Seq([from : Connections, head : Split])
  BY DEF LongLine
<1>2. mid' \in [Connections -> Split \cup {None}]
  BY DEF LongLine, Shape, TypeOK
<1> QED
  BY <1>1, <1>2, ShapeParts, ShapeAfter
  DEF LongLine, LineShape, TreeShape, WatchShape, WalkShape, session, IsOpen, Walking

(* What a client's step is, as far as the proofs go.                        *)
Ended(c) ==
    \/ /\ mid[c] # None /\ Answered(c, mid[c], partial)
    \/ /\ mid[c] = None
       /\ \E h \in Commands : Answered(c, h, Append(partial, Piece(c, h)))

LEMMA ClientParts ==
    ASSUME Shape, NEW c \in Connections, Client(c)
    PROVE  \/ Connect(c) \/ Disconnect(c) \/ LongLine(c)
           \/ \E h \in Split : Begin(c, h)
           \/ serving = None /\ crossed' = Crosses(c) /\ Effect(c) /\ Ended(c)
<1>1. ASSUME NEW a, Finish(c, a)
      PROVE  serving = None /\ crossed' = Crosses(c) /\ Effect(c) /\ Ended(c)
  BY <1>1, LineEffect DEF Finish, Ended
<1>2. ASSUME NEW h \in Commands, NEW a, WholeLine(c, h, a)
      PROVE  serving = None /\ crossed' = Crosses(c) /\ Effect(c) /\ Ended(c)
  BY <1>2, LineEffect DEF WholeLine, Ended
<1> QED
  BY <1>1, <1>2 DEF Client

LEMMA NextShape == Shape /\ [Next]_vars => Shape'
<1> SUFFICES ASSUME Shape, [Next]_vars
             PROVE  Shape'
  OBVIOUS
<1>1. ASSUME NEW c \in Connections, Client(c)
      PROVE  Shape'
  <2>1. CASE serving = None /\ crossed' = Crosses(c) /\ Effect(c) /\ Ended(c)
    <3>1. LineShape'
      BY <2>1, AnsweredShape DEF Ended
    <3> QED
      BY <2>1, <3>1, EffectShape, ShapeAfter
  <2> QED
    BY <1>1, <2>1, ClientParts, ConnectShape, DisconnectShape, BeginShape, LongLineShape
<1>2. CASE UNCHANGED vars
  <2>1. UNCHANGED << tree, value, cursor, listens, partial, mid, misled, serving, walk, stale >>
    BY <1>2 DEF vars, session, line
  <2> QED
    BY <2>1, ShapeParts, ShapeAfter
    DEF LineShape, TreeShape, WatchShape, WalkShape, IsOpen, Walking
<1> QED
  BY <1>1, <1>2, PublishShape, ThreadShape DEF Next

(* Every variable keeps its type: the talker carries a change exactly while *)
(* it owes a reply, and a browser is at a node that exists.                 *)
THEOREM TreeTypeInvariant == Spec => []TypeOK
<1>1. Shape => TypeOK
  BY DEF Shape
<1> QED
  BY <1>1, InitShape, NextShape, PTL DEF Spec

-----------------------------------------------------------------------------
(* Replies.                                                                 *)
Replies == Shape /\ OneBeginning /\ ~misled

LEMMA CrossesOnly ==
    ASSUME Replies, NEW c \in Connections, ~Crosses(c)
    PROVE  /\ ~crossed
           /\ \A d \in Connections \ {c} : mid[d] = None
           /\ mid[c] = None => partial = << >>
           /\ mid[c] # None => partial = << Piece(c, mid[c]) >>
<1>1. ~crossed /\ \A i \in DOMAIN partial : partial[i].from = c
  BY DEF Crosses
<1>2. ASSUME NEW d \in Connections, partial = << Piece(d, mid[d]) >>
      PROVE  d = c
  <2>1. 1 \in DOMAIN partial /\ partial[1].from = d
    BY <1>2 DEF Piece
  <2> QED
    BY <1>1, <2>1
<1> QED
  BY <1>1, <1>2 DEF Replies, OneBeginning

LEMMA NextReplies == Replies /\ [Next]_vars => Replies'
<1> SUFFICES ASSUME Replies, [Next]_vars
             PROVE  Replies'
  OBVIOUS
<1>1. Shape'
  BY NextShape DEF Replies
<1> SUFFICES OneBeginning' /\ ~misled'
  BY <1>1 DEF Replies
<1>2. mid \in [Connections -> Split \cup {None}]
  BY DEF Replies, Shape, TypeOK
<1>3. CASE UNCHANGED line
  BY <1>3 DEF line, Replies, OneBeginning
<1>4. ASSUME NEW c \in Connections, Disconnect(c)
      PROVE  OneBeginning' /\ ~misled'
  <2>1. /\ mid' = [mid EXCEPT ![c] = None] /\ crossed' = (crossed \/ mid[c] # None)
        /\ partial' = partial /\ misled' = misled
    BY <1>4 DEF Disconnect
  <2>2. ~crossed' => mid' = mid /\ ~crossed
    BY <1>2, <2>1
  <2> QED
    BY <2>1, <2>2 DEF Replies, OneBeginning
<1>5. ASSUME NEW c \in Connections, LongLine(c)
      PROVE  OneBeginning' /\ ~misled'
  <2>1. /\ mid' = [mid EXCEPT ![c] = None] /\ crossed' = Crosses(c)
        /\ partial' = << >> /\ misled' = misled
    BY <1>5 DEF LongLine
  <2>2. ~crossed' => \A d \in Connections : mid'[d] = None
    BY <1>2, <2>1, CrossesOnly
  <2> QED
    BY <2>1, <2>2 DEF Replies, OneBeginning
<1>6. ASSUME NEW c \in Connections, NEW h \in Split, Begin(c, h)
      PROVE  OneBeginning' /\ ~misled'
  <2>1. /\ mid' = [mid EXCEPT ![c] = h] /\ crossed' = Crosses(c) /\ mid[c] = None
        /\ partial' = Append(partial, Piece(c, h)) /\ misled' = misled
    BY <1>6 DEF Begin
  <2>2. h # None
    BY TreeAssumption
  <2>3. ASSUME ~crossed'
        PROVE  /\ partial' = << Piece(c, mid'[c]) >> /\ mid'[c] # None
               /\ \A d \in Connections \ {c} : mid'[d] = None
    <3>1. partial = << >> /\ \A d \in Connections \ {c} : mid[d] = None
      BY <2>1, <2>3, CrossesOnly
    <3> QED
      BY <1>2, <2>1, <2>2, <3>1
  <2> QED
    BY <2>1, <2>3 DEF Replies, OneBeginning
<1>7. ASSUME NEW c \in Connections, crossed' = Crosses(c), Ended(c)
      PROVE  OneBeginning' /\ ~misled'
  <2>1. partial' = << >> /\ mid' = [mid EXCEPT ![c] = None]
    BY <1>7 DEF Ended, Answered
  <2>2. ~crossed' => \A d \in Connections : mid'[d] = None
    BY <1>2, <1>7, <2>1, CrossesOnly
  <2>3. ~misled'
    <3>1. CASE crossed'
      BY <1>7, <3>1 DEF Ended, Answered, Replies
    <3>2. CASE ~crossed' /\ mid[c] # None
      <4>1. partial = << Piece(c, mid[c]) >>
        BY <1>7, <3>2, CrossesOnly
      <4>2. Len(partial) = 1 /\ partial[1].head = mid[c]
        BY <4>1 DEF Piece
      <4> QED
        BY <1>7, <3>2, <4>2 DEF Ended, Answered, Replies
    <3>3. CASE ~crossed' /\ mid[c] = None
      <4>1. partial = << >>
        BY <1>7, <3>3, CrossesOnly
      <4>2. PICK h \in Commands : Answered(c, h, Append(partial, Piece(c, h)))
        BY <1>7, <3>3 DEF Ended
      <4>3. Append(partial, Piece(c, h)) = << Piece(c, h) >>
        BY <4>1
      <4>4. Len(<< Piece(c, h) >>) = 1 /\ << Piece(c, h) >>[1].head = h
        BY DEF Piece
      <4> QED
        BY <4>2, <4>3, <4>4 DEF Answered, Replies
    <3> QED
      BY <3>1, <3>2, <3>3
  <2> QED
    BY <2>1, <2>2, <2>3 DEF OneBeginning
<1>8. ASSUME NEW c \in Connections, Client(c)
      PROVE  OneBeginning' /\ ~misled'
  BY <1>3, <1>4, <1>5, <1>6, <1>7, <1>8, ClientParts DEF Connect, Replies
<1> QED
  BY <1>3, <1>8 DEF Next, Publish, Thread, Enter, Take, Send, Up, Done, vars

(* While no line has met the beginning of another connection's, each reply  *)
(* is to the command its client sent, for any number of clients.            *)
THEOREM RepliesAreOwn == Spec => []OwnCommands
<1>1. Init => Replies
  BY InitShape DEF Init, Replies, OneBeginning
<1>2. Replies => OwnCommands
  BY DEF Replies, OwnCommands
<1> QED
  BY <1>1, <1>2, NextReplies, PTL DEF Spec

-----------------------------------------------------------------------------
(* Updates.                                                                 *)

(* Thread t is bringing the update x to c.                                  *)
Brings(t, c, x) ==
    /\ Walking(t) /\ walk[t].leaf = x[2] /\ IsPrefix(x[1], walk[t].node)
    /\ walk[t].inside /\ walk[t].node = x[1] => c \in walk[t].left \cup {walk[t].busy}

AllBrought ==
    OwedListen /\ \A c \in Connections : \A x \in stale[c] : \E t \in Threads : Brings(t, c, x)

Owed == Shape /\ AllBrought

LEMMA OwedType ==
    ASSUME Shape, NEW c \in Connections, NEW x \in stale[c]
    PROVE  x[1] \in Paths /\ x[2] \in Paths /\ x = << x[1], x[2] >>
<1>1. stale[c] \in SUBSET (Paths \X Paths)
  BY DEF Shape, TypeOK
<1> QED
  BY <1>1

(* A step that moves the walk of t only: enough that t still brings what it *)
(* brought and is still owed.                                               *)
LEMMA OneWalkOwed ==
    ASSUME Owed, NEW t \in Threads, NEW w, OnlyWalk(t, w), listens' = listens,
           \A c \in Connections : stale'[c] \subseteq stale[c],
           \A c \in Connections : \A x \in stale'[c] : Brings(t, c, x) => Brings(t, c, x)'
    PROVE  AllBrought'
<1>1. OwedListen'
  BY DEF Owed, AllBrought, OwedListen
<1>2. ASSUME NEW c \in Connections, NEW x \in stale'[c]
      PROVE  \E u \in Threads : Brings(u, c, x)'
  <2>1. PICK u \in Threads : Brings(u, c, x)
    BY <1>2 DEF Owed, AllBrought
  <2>2. CASE u = t
    BY <1>2, <2>1, <2>2
  <2>3. CASE u # t
    <3>1. walk'[u] = walk[u]
      BY <2>3 DEF OnlyWalk
    <3> QED
      BY <2>1, <3>1 DEF Brings, Walking
  <2> QED
    BY <2>2, <2>3
<1> QED
  BY <1>1, <1>2 DEF AllBrought

LEMMA EnterOwed ==
    ASSUME Owed, NEW t \in Threads, Enter(t)
    PROVE  AllBrought'
<1> DEFINE w == walk[t]
           g == Going(w.leaf, w.value, w.node, w.keys, TRUE,
                      {c \in Connections : w.node \in listens[c]}, w.busy)
<1>1. WalkOn(t, g)
  BY EnterWalk DEF Owed
<1>2. listens' = listens /\ stale' = stale
  BY DEF Enter, session
<1>3. ASSUME NEW c \in Connections, NEW x \in stale'[c], Brings(t, c, x)
      PROVE  Brings(t, c, x)'
  <2>1. walk'[t] = g /\ walk'[t] # None
    BY <1>1, WalkParts DEF WalkOn, OnlyWalk
  <2>2. x[1] \in listens[c]
    BY <1>2, <1>3 DEF Owed, AllBrought, OwedListen
  <2>3. /\ walk'[t].leaf = w.leaf /\ walk'[t].node = w.node
        /\ walk'[t].left = {d \in Connections : w.node \in listens[d]}
    BY <2>1 DEF Going
  <2>4. walk'[t].node = x[1] => c \in walk'[t].left
    BY <2>2, <2>3
  <2> QED
    BY <1>3, <2>1, <2>3, <2>4 DEF Brings, Walking
<1> HIDE DEF g
<1> QED
  BY <1>1, <1>2, <1>3, OneWalkOwed DEF WalkOn

LEMMA TakeOwed ==
    ASSUME Owed, NEW t \in Threads, NEW d \in Connections, Take(t, d)
    PROVE  AllBrought'
<1> DEFINE w == walk[t]
           g == Going(w.leaf, w.value, w.node, w.keys, w.inside, w.left \ {d},
                      IF w.node \in listens[d] THEN d ELSE None)
<1>1. WalkOn(t, g)
  BY TakeWalk DEF Owed
<1>2. listens' = listens /\ stale' = stale /\ w.busy = None
  BY DEF Take, session
<1>3. ASSUME NEW c \in Connections, NEW x \in stale'[c], Brings(t, c, x)
      PROVE  Brings(t, c, x)'
  <2>1. walk'[t] = g /\ walk'[t] # None
    BY <1>1, WalkParts DEF WalkOn, OnlyWalk
  <2>2. x[1] \in listens[c]
    BY <1>2, <1>3 DEF Owed, AllBrought, OwedListen
  <2>3. /\ walk'[t].leaf = w.leaf /\ walk'[t].node = w.node /\ walk'[t].inside = w.inside
        /\ walk'[t].left = w.left \ {d}
        /\ walk'[t].busy = IF w.node \in listens[d] THEN d ELSE None
    BY <2>1 DEF Going
  <2>4. c # None
    BY TreeAssumption
  <2>5. w.inside /\ w.node = x[1] => c \in w.left
    BY <1>2, <1>3, <2>4 DEF Brings
  <2>6. w.inside /\ w.node = x[1] => c \in walk'[t].left \cup {walk'[t].busy}
    BY <2>2, <2>3, <2>5
  <2> QED
    BY <1>3, <2>1, <2>3, <2>6 DEF Brings, Walking
<1> HIDE DEF g
<1> QED
  BY <1>1, <1>2, <1>3, OneWalkOwed DEF WalkOn

LEMMA SendOwed ==
    ASSUME Owed, NEW t \in Threads, Send(t)
    PROVE  AllBrought'
<1> DEFINE w == walk[t]
           g == Going(w.leaf, w.value, w.node, w.keys, w.inside, w.left, None)
<1>1. WalkOn(t, g)
  BY SendWalk DEF Owed
<1>2. listens' = listens /\ stale' = [stale EXCEPT ![w.busy] = @ \ {<< w.node, w.leaf >>}]
  BY DEF Send, session
<1>3. stale \in [Connections -> SUBSET (Paths \X Paths)]
  BY DEF Owed, Shape, TypeOK
<1>4. \A c \in Connections : stale'[c] \subseteq stale[c]
  BY <1>2, <1>3
<1>5. ASSUME NEW c \in Connections, NEW x \in stale'[c], Brings(t, c, x)
      PROVE  Brings(t, c, x)'
  <2>1. walk'[t] = g /\ walk'[t] # None
    BY <1>1, WalkParts DEF WalkOn, OnlyWalk
  <2>2. /\ walk'[t].leaf = w.leaf /\ walk'[t].node = w.node /\ walk'[t].inside = w.inside
        /\ walk'[t].left = w.left
    BY <2>1 DEF Going
  <2>3. w.node = x[1] => c # w.busy
    <3>1. SUFFICES ASSUME w.node = x[1], c = w.busy
                   PROVE  FALSE
      OBVIOUS
    <3>2. x # << w.node, w.leaf >>
      BY <1>2, <1>3, <1>5, <3>1
    <3>3. x = << x[1], x[2] >>
      BY <1>4, <1>5, OwedType DEF Owed
    <3>4. w.leaf = x[2]
      BY <1>5 DEF Brings
    <3> QED
      BY <3>1, <3>2, <3>3, <3>4
  <2>4. w.inside /\ w.node = x[1] => c \in w.left
    BY <1>5, <2>3 DEF Brings
  <2> QED
    BY <1>5, <2>1, <2>2, <2>4 DEF Brings, Walking
<1> HIDE DEF g
<1> QED
  BY <1>1, <1>2, <1>4, <1>5, OneWalkOwed DEF WalkOn

LEMMA UpOwed ==
    ASSUME Owed, NEW t \in Threads, Up(t)
    PROVE  AllBrought'
<1> DEFINE w == walk[t]
           g == Going(w.leaf, w.value, Front(w.node), Append(w.keys, Last(w.node)), FALSE, w.left, w.busy)
<1>1. WalkOn(t, g)
  BY UpWalk DEF Owed
<1>2. /\ listens' = listens /\ stale' = stale
      /\ w.inside /\ w.left = {} /\ w.busy = None /\ w.node # Root
  BY DEF Up, session
<1>3. ASSUME NEW c \in Connections, NEW x \in stale'[c], Brings(t, c, x)
      PROVE  Brings(t, c, x)'
  <2>1. walk'[t] = g /\ walk'[t] # None
    BY <1>1, WalkParts DEF WalkOn, OnlyWalk
  <2>2. walk'[t].leaf = w.leaf /\ walk'[t].node = Front(w.node) /\ walk'[t].inside = FALSE
    BY <2>1 DEF Going
  <2>3. c # None
    BY TreeAssumption
  <2>4. w.node # x[1]
    BY <1>2, <1>3, <2>3 DEF Brings
  <2>5. w.node \in Paths
    BY WalkType, WalkParts DEF Up, Owed
  <2>6. x[1] \in Paths
    BY <1>2, <1>3, OwedType DEF Owed
  <2>7. IsPrefix(x[1], Front(w.node))
    BY <1>2, <1>3, <2>4, <2>5, <2>6, PrefixOfPath DEF Brings
  <2> QED
    BY <1>3, <2>1, <2>2, <2>7 DEF Brings, Walking
<1> HIDE DEF g
<1> QED
  BY <1>1, <1>2, <1>3, OneWalkOwed DEF WalkOn

LEMMA DoneOwed ==
    ASSUME Owed, NEW t \in Threads, Done(t)
    PROVE  AllBrought'
<1>1. OnlyWalk(t, None)
  BY DoneWalk DEF Owed
<1>2. /\ listens' = listens /\ stale' = stale
      /\ walk[t].inside /\ walk[t].left = {} /\ walk[t].busy = None /\ walk[t].node = Root
  BY DEF Done, session
<1>3. ASSUME NEW c \in Connections, NEW x \in stale'[c]
      PROVE  ~Brings(t, c, x)
  <2>1. c # None
    BY TreeAssumption
  <2>2. x[1] \in Paths
    BY <1>2, <1>3, OwedType DEF Owed
  <2>3. IsPrefix(x[1], walk[t].node) => x[1] = Root
    BY <1>2, <2>2, RootIsPath, PrefixOfPath
  <2> QED
    BY <1>2, <2>1, <2>3 DEF Brings
<1> QED
  BY <1>1, <1>2, <1>3, OneWalkOwed

(* A change in a thread that was idle: who is owed it is brought it.        *)
LEMMA ChangeOwed ==
    ASSUME Owed, NEW t \in Threads, ~Walking(t), NEW p \in Paths, NEW v \in Values,
           Change(t, p, v), listens' = listens
    PROVE  AllBrought'
<1>1. WalkOn(t, Going(p, v, p, << >>, FALSE, {}, None))
  BY ChangeWalk DEF Owed
<1>2. walk'[t] # None /\ walk'[t].leaf = p /\ walk'[t].node = p /\ walk'[t].inside = FALSE
  <2>1. walk'[t] # None
    BY <1>1, WalkParts DEF WalkOn, OnlyWalk
  <2>2. walk'[t] = Going(p, v, p, << >>, FALSE, {}, None)
    BY <1>1 DEF WalkOn, OnlyWalk
  <2> QED
    BY <2>1, <2>2 DEF Going
<1>3. \A u \in Threads \ {t} : walk'[u] = walk[u]
  BY <1>1 DEF WalkOn, OnlyWalk
<1>4. ASSUME NEW c \in Connections, NEW x \in stale'[c]
      PROVE  x[1] \in listens[c] /\ \E u \in Threads : Brings(u, c, x)'
  <2>1. stale'[c] = stale[c] \cup {<< n, p >> : n \in {m \in Paths : m \in listens[c] /\ IsPrefix(m, p)}}
    BY DEF Change
  <2>2. CASE x \in stale[c]
    <3>1. PICK u \in Threads : Brings(u, c, x)
      BY <2>2 DEF Owed, AllBrought
    <3>2. u # t
      BY <3>1 DEF Brings
    <3>3. Brings(u, c, x)'
      BY <1>3, <3>1, <3>2 DEF Brings, Walking
    <3> QED
      BY <2>2, <3>3 DEF Owed, AllBrought, OwedListen
  <2>3. CASE x \notin stale[c]
    <3>1. PICK n \in Paths : n \in listens[c] /\ IsPrefix(n, p) /\ x = << n, p >>
      BY <1>4, <2>1, <2>3
    <3>2. Brings(t, c, x)'
      BY <1>2, <3>1 DEF Brings, Walking
    <3> QED
      BY <3>1, <3>2
  <2> QED
    BY <2>2, <2>3
<1> QED
  BY <1>4 DEF OwedListen, AllBrought

LEMMA NextOwed == Owed /\ [Next]_vars => Owed'
<1> SUFFICES ASSUME Owed, [Next]_vars
             PROVE  Owed'
  OBVIOUS
<1>1. Shape'
  BY NextShape DEF Owed
<1> SUFFICES AllBrought'
  BY <1>1 DEF Owed
<1>2. listens \in [Connections -> SUBSET Paths] /\ stale \in [Connections -> SUBSET (Paths \X Paths)]
  BY DEF Owed, Shape, TypeOK
<1>3. CASE UNCHANGED << listens, walk, stale >>
  BY <1>3 DEF Owed, AllBrought, OwedListen, Brings, Walking
<1>4. ASSUME NEW p \in Points, NEW v \in Values, Publish(p, v)
      PROVE  AllBrought'
  <2>1. p[1] \in Threads /\ p \in Paths
    BY TalkerIsThread, TreeAssumption
  <2> QED
    BY <1>4, <2>1, ChangeOwed DEF Publish, session
<1>5. ASSUME NEW t \in Threads, Thread(t)
      PROVE  AllBrought'
  BY <1>5, EnterOwed, TakeOwed, SendOwed, UpOwed, DoneOwed DEF Thread
<1>6. ASSUME NEW c \in Connections, serving = None, Effect(c)
      PROVE  AllBrought'
  <2>1. ASSUME NEW n \in Paths, Listen(c, n)
        PROVE  AllBrought'
    <3>1. /\ listens' = [listens EXCEPT ![c] = @ \cup {n}]
          /\ UNCHANGED << walk, stale >>
      BY <2>1 DEF Listen
    <3>2. \A d \in Connections : listens[d] \subseteq listens'[d]
      BY <1>2, <3>1
    <3> QED
      BY <3>1, <3>2 DEF Owed, AllBrought, OwedListen, Brings, Walking
  <2>2. ASSUME NEW p \in Paths, NEW v \in Values, PutRam(c, p, v)
        PROVE  AllBrought'
    <3>1. ~Walking(Talker)
      BY <1>6 DEF Owed, Shape, TypeOK
    <3> QED
      BY <2>2, <3>1, TalkerIsThread, ChangeOwed DEF PutRam, session
  <2>3. CASE UNCHANGED << listens, walk, stale >>
    BY <1>3, <2>3
  <2> QED
    BY <1>6, <2>1, <2>2, <2>3 DEF Effect, OnlyReply, MoveTo, Grow, session
<1>7. ASSUME NEW c \in Connections, Disconnect(c)
      PROVE  AllBrought'
  <2>1. /\ listens' = [listens EXCEPT ![c] = {}] /\ stale' = [stale EXCEPT ![c] = {}]
        /\ walk' = walk
    BY <1>7 DEF Disconnect, Destroyed
  <2>2. \A d \in Connections : stale'[d] = (IF d = c THEN {} ELSE stale[d])
                               /\ (d # c => listens'[d] = listens[d])
    BY <1>2, <2>1
  <2> QED
    BY <2>1, <2>2 DEF Owed, AllBrought, OwedListen, Brings, Walking
<1>8. ASSUME NEW c \in Connections, Client(c)
      PROVE  AllBrought'
  BY <1>3, <1>6, <1>7, <1>8, ClientParts DEF Owed, Connect, LongLine, Begin, session
<1> QED
  BY <1>3, <1>4, <1>5, <1>8 DEF Next, vars, session

(* An update a client is owed is being brought by a thread that has not     *)
(* passed the client's node, however many threads and subscriptions there   *)
(* are and whoever joins or leaves in the middle of the walk.               *)
THEOREM SubscribersAreTold == Spec => []SubscribersTold
<1>1. Init => Owed
  BY InitShape DEF Init, Owed, AllBrought, OwedListen
<1>2. Owed => SubscribersTold
  BY DEF Owed, AllBrought, SubscribersTold, Brings
<1> QED
  BY <1>1, <1>2, NextOwed, PTL DEF Spec

-----------------------------------------------------------------------------
(* What updates say.                                                        *)
Told == Shape /\ AllCurrent

(* One walk changes, and nothing it depends on.                             *)
LEMMA OneWalkCurrent ==
    ASSUME Told, NEW t \in Threads, NEW w, OnlyWalk(t, w),
           UNCHANGED << tree, value, listens >>, w # None => Current(t, w)
    PROVE  AllCurrent'
BY DEF Told, AllCurrent, Current, OnlyWalk, Walking

(* A walk that stays is still current when what it depends on stays.        *)
LEMMA CurrentStays ==
    ASSUME NEW t, Current(t, walk[t]), walk'[t] = walk[t],
           tree'[walk[t].leaf] = tree[walk[t].leaf], value'[walk[t].leaf] = value[walk[t].leaf],
           walk[t].busy # None => walk[t].node \in listens'[walk[t].busy]
    PROVE  Current(t, walk[t])'
<1>1. WayBack(walk[t])
  BY DEF Current
<1>2. WayBack(walk[t])'
  BY <1>1 DEF WayBack
<1>3. walk[t].busy # None => walk[t].node \in listens'[walk[t].busy]
  OBVIOUS
<1>4. IF t = Talker THEN tree'[walk[t].leaf] = "ram"
      ELSE walk[t].leaf \in Points /\ walk[t].leaf[1] = t
  BY DEF Current
<1>5. walk[t].value = value'[walk[t].leaf]
  BY DEF Current
<1> QED
  BY <1>2, <1>3, <1>4, <1>5 DEF Current

LEMMA UpLeadsBack ==
    ASSUME NEW w \in Walk, WayBack(w), w.node # Root
    PROVE  WayBack(Going(w.leaf, w.value, Front(w.node), Append(w.keys, Last(w.node)),
                         FALSE, w.left, w.busy))
<1> DEFINE n == w.node
           k == w.keys
           l == w.leaf
           g == Going(l, w.value, Front(n), Append(k, Last(n)), FALSE, w.left, w.busy)
<1>1. /\ g.leaf = l /\ g.node = Front(n) /\ g.keys = Append(k, Last(n))
      /\ n \in Paths /\ l \in Paths /\ k \in Seq(Ids)
  BY WalkParts DEF Going
<1>2. /\ Len(l) = Len(n) + Len(k)
      /\ \A i \in 1..Len(n) : l[i] = n[i]
      /\ \A i \in 1..Len(k) : l[Len(l) - i + 1] = k[i]
  BY DEF WayBack
<1>3. /\ Len(Front(n)) = Len(n) - 1 /\ Len(n) \in Nat \ {0}
      /\ \A i \in 1..Len(n) - 1 : Front(n)[i] = n[i]
      /\ Last(n) = n[Len(n)] /\ Last(n) \in Ids
  BY <1>1, FrontOfPath
<1> HIDE DEF n, l, k, g
<1>4. Len(k) \in Nat /\ Len(l) \in Nat
  BY <1>1, PathType
<1>5. /\ Len(Append(k, Last(n))) = Len(k) + 1
      /\ \A i \in 1..Len(k) : Append(k, Last(n))[i] = k[i]
      /\ Append(k, Last(n))[Len(k) + 1] = n[Len(n)]
  BY <1>1, <1>3, <1>4
<1>6. Len(g.leaf) = Len(g.node) + Len(g.keys)
  BY <1>1, <1>2, <1>3, <1>4, <1>5
<1>7. \A i \in 1..Len(g.node) : g.leaf[i] = g.node[i]
  BY <1>1, <1>2, <1>3
<1>8. ASSUME NEW i \in 1..Len(g.keys)
      PROVE  g.leaf[Len(g.leaf) - i + 1] = g.keys[i]
  <2>1. CASE i \in 1..Len(k)
    BY <1>1, <1>2, <1>5, <2>1
  <2>2. CASE i = Len(k) + 1
    <3>1. Len(l) - i + 1 = Len(n)
      BY <1>2, <1>3, <1>4, <2>2
    <3>2. Len(n) \in 1..Len(n)
      BY <1>3
    <3>3. l[Len(n)] = n[Len(n)]
      BY <1>2, <3>2
    <3> QED
      BY <1>1, <1>5, <2>2, <3>1, <3>3
  <2>3. i \in 1..Len(k) \/ i = Len(k) + 1
    BY <1>1, <1>4, <1>5, <1>8
  <2> QED
    BY <2>1, <2>2, <2>3
<1>9. WayBack(g)
  BY <1>6, <1>7, <1>8 DEF WayBack
<1> QED
  BY <1>9 DEF g, n, k, l

LEMMA ThreadCurrent ==
    ASSUME Told, NEW t \in Threads, Thread(t)
    PROVE  AllCurrent'
<1> DEFINE w == walk[t]
<1>1. w \in Walk /\ Current(t, w)
  BY WalkType DEF Told, AllCurrent, Thread, Enter, Take, Send, Up, Done, Walking
<1>2. UNCHANGED << tree, value, listens >>
  BY DEF Thread, Enter, Take, Send, Up, Done, session
<1>3. CASE Enter(t)
  <2> DEFINE g == Going(w.leaf, w.value, w.node, w.keys, TRUE,
                        {c \in Connections : w.node \in listens[c]}, w.busy)
  <2>1. OnlyWalk(t, g)
    BY <1>3, EnterWalk DEF Told, WalkOn
  <2>2. Current(t, g)
    BY <1>1 DEF Current, WayBack, Going
  <2> HIDE DEF g
  <2> QED
    BY <1>2, <2>1, <2>2, OneWalkCurrent
<1>4. ASSUME NEW c \in Connections, Take(t, c)
      PROVE  AllCurrent'
  <2> DEFINE b == IF w.node \in listens[c] THEN c ELSE None
             g == Going(w.leaf, w.value, w.node, w.keys, w.inside, w.left \ {c}, b)
  <2>1. OnlyWalk(t, g)
    BY <1>4, TakeWalk DEF Told, WalkOn
  <2>2. Current(t, g)
    BY <1>1 DEF Current, WayBack, Going
  <2> HIDE DEF g
  <2> QED
    BY <1>2, <2>1, <2>2, OneWalkCurrent
<1>5. CASE Send(t)
  <2> DEFINE g == Going(w.leaf, w.value, w.node, w.keys, w.inside, w.left, None)
  <2>1. OnlyWalk(t, g)
    BY <1>5, SendWalk DEF Told, WalkOn
  <2>2. Current(t, g)
    BY <1>1 DEF Current, WayBack, Going
  <2> HIDE DEF g
  <2> QED
    BY <1>2, <2>1, <2>2, OneWalkCurrent
<1>6. CASE Up(t)
  <2> DEFINE g == Going(w.leaf, w.value, Front(w.node), Append(w.keys, Last(w.node)),
                        FALSE, w.left, w.busy)
  <2>1. OnlyWalk(t, g)
    BY <1>6, UpWalk DEF Told, WalkOn
  <2>2. w.busy = None /\ w.node # Root
    BY <1>6 DEF Up
  <2>3. g.busy = w.busy /\ g.leaf = w.leaf /\ g.value = w.value
    BY DEF Going
  <2>4. WayBack(g)
    BY <1>1, <2>2, UpLeadsBack DEF Current
  <2> HIDE DEF g
  <2>5. Current(t, g)
    BY <1>1, <2>2, <2>3, <2>4 DEF Current
  <2> QED
    BY <1>2, <2>1, <2>5, OneWalkCurrent
<1>7. CASE Done(t)
  <2>1. OnlyWalk(t, None)
    BY <1>7, DoneWalk DEF Told
  <2> QED
    BY <1>2, <2>1, OneWalkCurrent
<1> QED
  BY <1>3, <1>4, <1>5, <1>6, <1>7 DEF Thread

(* A change of a leaf that no other thread carries.                         *)
LEMMA ChangeCurrent ==
    ASSUME Told, NEW t \in Threads, NEW p \in Paths, NEW v \in Values, Change(t, p, v),
           UNCHANGED << tree, listens >>,
           IF t = Talker THEN tree[p] = "ram" ELSE p \in Points /\ p[1] = t
    PROVE  AllCurrent'
<1>1. OnlyWalk(t, Going(p, v, p, << >>, FALSE, {}, None))
  BY ChangeWalk DEF Told, WalkOn
<1>2. value' = [value EXCEPT ![p] = v] /\ value \in [Paths -> Values]
  BY DEF Change, Told, Shape, TypeOK
<1>3. ASSUME NEW u \in Threads, Walking(u)'
      PROVE  Current(u, walk[u])'
  <2>1. CASE u = t
    <3> DEFINE g == Going(p, v, p, << >>, FALSE, {}, None)
    <3>1. walk'[u] = g
      BY <1>1, <2>1 DEF OnlyWalk
    <3>2. g.leaf = p /\ g.value = v /\ g.node = p /\ g.keys = << >> /\ g.busy = None
      BY DEF Going
    <3>6. Len(p) \in Nat
      BY PathType
    <3>7. Len(<< >>) = 0
      OBVIOUS
    <3>8. /\ Len(g.leaf) = Len(g.node) + Len(g.keys)
          /\ \A i \in 1..Len(g.node) : g.leaf[i] = g.node[i]
          /\ \A i \in 1..Len(g.keys) : g.leaf[Len(g.leaf) - i + 1] = g.keys[i]
      <4> HIDE DEF g
      <4>1. Len(g.keys) = 0 /\ 1..Len(g.keys) = {}
        BY <3>2, <3>7
      <4> QED
        BY <3>2, <3>6, <4>1
    <3>3. WayBack(g)
      BY <3>8 DEF WayBack
    <3> HIDE DEF g
    <3>4. value'[p] = v
      BY <1>2
    <3>5. WayBack(walk'[u])
      BY <3>1, <3>3
    <3> QED
      BY <2>1, <3>1, <3>2, <3>4, <3>5 DEF Current, WayBack
  <2>2. CASE u # t
    <3>1. walk'[u] = walk[u] /\ Walking(u) /\ Current(u, walk[u])
      BY <1>1, <1>3, <2>2 DEF OnlyWalk, Walking, Told, AllCurrent
    <3>2. \A q \in Points : tree[q] = "point"
      BY DEF Told, AllCurrent
    <3>3. walk[u].leaf # p
      BY <2>2, <3>1, <3>2 DEF Current
    <3>4. value'[walk[u].leaf] = value[walk[u].leaf]
      BY <1>2, <3>3
    <3> QED
      BY <3>1, <3>4 DEF Current, WayBack
  <2> QED
    BY <2>1, <2>2
<1> QED
  BY <1>3 DEF Told, AllCurrent

LEMMA NextTold == Told /\ [Next]_vars => Told'
<1> SUFFICES ASSUME Told, [Next]_vars
             PROVE  Told'
  OBVIOUS
<1>1. Shape'
  BY NextShape DEF Told
<1> SUFFICES AllCurrent'
  BY <1>1 DEF Told
<1>2. CASE UNCHANGED << tree, value, listens, walk >>
  <2>1. \A t \in Threads : Walking(t) => Current(t, walk[t])
    BY DEF Told, AllCurrent
  <2>2. ASSUME NEW t \in Threads, Walking(t)
        PROVE  Current(t, walk[t])'
    <3>1. Current(t, walk[t])
      BY <2>1, <2>2
    <3>2. walk[t].busy # None => walk[t].node \in listens'[walk[t].busy]
      BY <1>2, <3>1 DEF Current
    <3> QED
      BY <1>2, <3>1, <3>2, CurrentStays
  <2> QED
    BY <1>2, <2>2 DEF Told, AllCurrent, Walking
<1>3. ASSUME NEW p \in Points, NEW v \in Values, Publish(p, v)
      PROVE  AllCurrent'
  BY <1>3, TalkerIsThread, TreeAssumption, ChangeCurrent DEF Publish, session
<1>4. ASSUME NEW c \in Connections, Effect(c)
      PROVE  AllCurrent'
  <2>1. ASSUME NEW n \in Paths, Listen(c, n)
        PROVE  AllCurrent'
    <3>1. /\ listens' = [listens EXCEPT ![c] = @ \cup {n}]
          /\ UNCHANGED << tree, value, walk >>
      BY <2>1 DEF Listen
    <3>2. listens \in [Connections -> SUBSET Paths]
      BY DEF Told, Shape, TypeOK
    <3>3. \A d \in Connections : listens[d] \subseteq listens'[d]
      BY <3>1, <3>2
    <3>4. \A t \in Threads : Walking(t) => walk[t].busy \in Connections \cup {None}
      BY WalkType, WalkParts DEF Told
    <3>5. ASSUME NEW t \in Threads, Walking(t)
          PROVE  Current(t, walk[t])'
      <4>1. Current(t, walk[t])
        BY <3>5 DEF Told, AllCurrent
      <4>2. walk[t].busy # None => walk[t].node \in listens'[walk[t].busy]
        BY <3>3, <3>4, <3>5, <4>1 DEF Current
      <4> QED
        BY <3>1, <4>1, <4>2, CurrentStays
    <3> QED
      BY <3>1, <3>5 DEF Told, AllCurrent, Walking
  <2>2. ASSUME NEW p \in Paths, NEW v \in Values, PutRam(c, p, v)
        PROVE  AllCurrent'
    BY <2>2, TalkerIsThread, ChangeCurrent DEF PutRam, session
  <2>3. ASSUME NEW p \in Paths, NEW k \in {"branch", "ram"}, Grow(p, k)
        PROVE  AllCurrent'
    <3>1. tree' = [tree EXCEPT ![p] = k] /\ tree[p] = "none" /\ UNCHANGED << value, listens, walk >>
      BY <2>3 DEF Grow, session
    <3>2. \A q \in Paths : tree[q] # "none" => tree'[q] = tree[q]
      BY <3>1 DEF Told, Shape, TypeOK
    <3>3. \A q \in Points : tree'[q] = "point"
      BY <3>2, TreeAssumption DEF Told, AllCurrent
    <3>4. \A t \in Threads : Walking(t) => walk[t].leaf \in Paths
      BY WalkType, WalkParts DEF Told
    <3>5. ASSUME NEW t \in Threads, Walking(t)
          PROVE  Current(t, walk[t])'
      <4>1. Current(t, walk[t])
        BY <3>5 DEF Told, AllCurrent
      <4>2. tree[walk[t].leaf] # "none"
        BY <4>1 DEF Current, Told, AllCurrent
      <4>3. tree'[walk[t].leaf] = tree[walk[t].leaf]
        BY <3>2, <3>4, <3>5, <4>2
      <4>4. walk[t].busy # None => walk[t].node \in listens'[walk[t].busy]
        BY <3>1, <4>1 DEF Current
      <4> QED
        BY <3>1, <4>1, <4>3, <4>4, CurrentStays
    <3> QED
      BY <3>1, <3>3, <3>5 DEF AllCurrent, Walking
  <2>4. CASE UNCHANGED << tree, value, listens, walk >>
    BY <1>2, <2>4
  <2> QED
    BY <1>4, <2>1, <2>2, <2>3, <2>4 DEF Effect, OnlyReply, MoveTo, session
<1>5. ASSUME NEW c \in Connections, Disconnect(c)
      PROVE  AllCurrent'
  <2>1. /\ listens' = [listens EXCEPT ![c] = {}] /\ UNCHANGED << tree, value, walk >>
        /\ \A t \in Threads : Walking(t) => walk[t].busy # c
    BY <1>5 DEF Disconnect, Destroyed
  <2>2. \A d : d # c /\ d \in Connections => listens'[d] = listens[d]
    BY <2>1 DEF Told, Shape, TypeOK
  <2>3. \A t \in Threads : Walking(t) => walk[t].busy \in Connections \cup {None}
    BY WalkType, WalkParts DEF Told
  <2>4. ASSUME NEW t \in Threads, Walking(t)
        PROVE  Current(t, walk[t])'
    <3>1. Current(t, walk[t])
      BY <2>4 DEF Told, AllCurrent
    <3>2. walk[t].busy # None => walk[t].node \in listens'[walk[t].busy]
      BY <2>1, <2>2, <2>3, <2>4, <3>1 DEF Current
    <3> QED
      BY <2>1, <3>1, <3>2, CurrentStays
  <2> QED
    BY <2>1, <2>4 DEF Told, AllCurrent, Walking
<1>6. ASSUME NEW c \in Connections, Client(c)
      PROVE  AllCurrent'
  BY <1>2, <1>4, <1>5, <1>6, ClientParts DEF Told, Connect, LongLine, Begin, session
<1> QED
  BY <1>2, <1>3, <1>6, ThreadCurrent DEF Next, vars, session

(* The way back, put together as the code does it, leads to the leaf.       *)
LEMMA BranchLeadsBack ==
    ASSUME NEW w \in Walk, WayBack(w)
    PROVE  w.node \o Reverse(w.keys) = w.leaf
<1> DEFINE n == w.node
           k == w.keys
           l == w.leaf
<1>1. n \in Seq(Ids) /\ l \in Seq(Ids) /\ k \in Seq(Ids)
  BY WalkParts, PathType
<1>2. /\ Len(l) = Len(n) + Len(k)
      /\ \A i \in 1..Len(n) : l[i] = n[i]
      /\ \A i \in 1..Len(k) : l[Len(l) - i + 1] = k[i]
  BY DEF WayBack
<1> HIDE DEF n, k, l
<1>3. Len(n) \in Nat /\ Len(k) \in Nat
  BY <1>1
<1> DEFINE r == Reverse(k)
<1>4. r = [i \in 1..Len(k) |-> k[(Len(k) - i) + 1]]
  BY DEF Reverse
<1>5. \A i \in 1..Len(k) : (Len(k) - i) + 1 \in 1..Len(k)
  BY <1>3
<1>6. r \in [1..Len(k) -> Ids]
  BY <1>1, <1>4, <1>5
<1>7. r \in Seq(Ids) /\ Len(r) = Len(k)
  BY <1>3, <1>6
<1>8. \A i \in 1..Len(k) : r[i] = k[(Len(k) - i) + 1]
  BY <1>4
<1> HIDE DEF r
<1>9. /\ n \o r \in Seq(Ids) /\ Len(n \o r) = Len(n) + Len(k)
      /\ \A i \in 1..Len(n) + Len(k) : (n \o r)[i] = IF i <= Len(n) THEN n[i] ELSE r[i - Len(n)]
  BY <1>1, <1>3, <1>7
<1>10. ASSUME NEW i \in 1..Len(n) + Len(k)
       PROVE  (n \o r)[i] = l[i]
  <2>1. CASE i <= Len(n)
    BY <1>2, <1>9, <2>1
  <2>2. CASE ~(i <= Len(n))
    <3> DEFINE j == (Len(k) - (i - Len(n))) + 1
    <3>1. i - Len(n) \in 1..Len(k) /\ j \in 1..Len(k)
      BY <1>3, <2>2
    <3>2. (n \o r)[i] = k[j]
      BY <1>8, <1>9, <2>2, <3>1
    <3>3. Len(l) - j + 1 = i
      BY <1>2, <1>3
    <3> HIDE DEF j
    <3> QED
      BY <1>2, <3>1, <3>2, <3>3
  <2> QED
    BY <2>1, <2>2
<1>11. n \o r = l
  <2> DEFINE m == n \o r
  <2>1. m \in Seq(Ids) /\ Len(m) = Len(l) /\ \A i \in 1..Len(l) : m[i] = l[i]
    BY <1>2, <1>9, <1>10
  <2> HIDE DEF m
  <2>2. m = l
    BY <1>1, <2>1
  <2> QED
    BY <2>2 DEF m
<1> QED
  BY <1>11 DEF n, k, l, r

(* Every update is true when it is written, has the path from the node of   *)
(* the subscription to the leaf, and goes to a connection subscribed there. *)
THEOREM UpdatesAreCurrent == Spec => []UpdatesCurrent
<1>1. Init => Told
  <2> SUFFICES ASSUME Init
               PROVE  Told
    OBVIOUS
  <2>1. \A p \in Points : tree[p] = "point"
    BY TreeAssumption DEF Init, Attached
  <2> QED
    BY <2>1, InitShape DEF Init, Told, AllCurrent, Walking
<1>2. Told => UpdatesCurrent
  <2> SUFFICES ASSUME Told, NEW t \in Threads, Walking(t), walk[t].busy # None
               PROVE  /\ walk[t].node \in listens[walk[t].busy]
                      /\ Update(t).value = value[walk[t].leaf]
                      /\ walk[t].node \o Update(t).branch = walk[t].leaf
    BY DEF UpdatesCurrent
  <2>1. walk[t] \in Walk /\ Current(t, walk[t])
    BY WalkType DEF Told, AllCurrent
  <2>2. Update(t).value = walk[t].value /\ Update(t).branch = Reverse(walk[t].keys)
    BY DEF Update
  <2>3. walk[t].node \o Reverse(walk[t].keys) = walk[t].leaf
    BY <2>1, BranchLeadsBack DEF Current
  <2> QED
    BY <2>1, <2>2, <2>3 DEF Current
<1> QED
  BY <1>1, <1>2, NextTold, PTL DEF Spec
=============================================================================
