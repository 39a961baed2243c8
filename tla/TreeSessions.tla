---------------------------- MODULE TreeSessions ----------------------------
(***************************************************************************)
(* Clients on the tree of points: TcpTalker takes the bytes of all          *)
(* connections in one thread and cuts them into lines, the TreeBrowser of   *)
(* a connection executes a line, and VariableTree carries every change of   *)
(* a leaf from the thread that publishes it up to the root, telling the     *)
(* value listeners at each node under that node's mutex.                    *)
(*                                                                          *)
(* A node is its path from the root.  No command removes a node: DeleteChild *)
(* passes only leaves to remove_child, which refuses them.  The rule by     *)
(* which a leaf accepts a value is LeafControl's; here acceptance is a      *)
(* choice.  Listeners of added and removed nodes are left out: the only     *)
(* ones, TreeBrowser's BranchListeners, override none of the callbacks.     *)
(***************************************************************************)
EXTENDS Integers, Sequences, SequencesExt

CONSTANTS
    Connections,    (* handles of TCP connections                            *)
    Paths,          (* bound: paths a node may have, closed under prefixes   *)
    Points,         (* paths of the devices' points: channel, point          *)
    Values, NewIds, (* what NewId and Tag may be: integers and strings       *)
    Blank,          (* the key a default-constructed EitherKey is            *)
    Split,          (* bound: commands that may arrive in two pieces         *)
    MaxPieces,      (* bound: beginnings of commands in partialMessage       *)
    Commands,       (* bound: commands that clients send                     *)
    Talker,         (* the thread of TcpTalker                               *)
    None            (* no node, argument, connection, command or walk        *)

Root == << >>
Channels == {p[1] : p \in Points}
Threads == Channels \cup {Talker}
Ids == UNION {Range(p) : p \in Paths}
Args == Values \cup NewIds

(* A command but for its argument, which comes last on the line.            *)
Ops == {"MoveToTop", "MoveDown", "Show", "ListenBranch", "ListenValue", "Read", "GetPriority",
        "Write", "Set", "Unset", "CreateBranch", "CreateLeaf", "DeleteChild"}
Command == [op : Ops, path : Paths]

(* A change under way from its leaf to the root.                            *)
Walk == [leaf : Paths, value : Values, node : Paths, keys : Seq(Ids),
         inside : BOOLEAN, left : SUBSET Connections, busy : Connections \cup {None}]

ASSUME TreeAssumption ==
    /\ Root \in Paths
    /\ \A p \in Paths : p \in Seq(Range(p)) /\ (p # Root => Front(p) \in Paths)
    /\ Points \subseteq Paths
    /\ \A p \in Points : Len(p) = 2
    /\ MaxPieces \in Nat
    /\ Split \subseteq Commands /\ Commands \subseteq Command
    /\ Talker \notin Channels
    /\ None \notin Args \cup Connections \cup Paths \cup Command \cup Walk
    /\ Values \cap NewIds = {}

VARIABLES
    tree,       (* tree[p]: "none", "branch", "ram" or "point"               *)
    value,      (* value[p]: what the variable of leaf p holds               *)
    cursor,     (* cursor[c]: node of c's browser, None while c is closed    *)
    listens,    (* listens[c]: the nodes where c has a value listener        *)
    partial,    (* partialMessage: commands whose end has not come           *)
    mid,        (* mid[c]: the command c has sent the beginning of, or None  *)
    misled,     (* uncrossed, c was answered for a line it did not send      *)
    serving,    (* connection whose command the talker has not answered yet  *)
    walk,       (* walk[t]: the change thread t carries up the tree          *)
    stale,      (* stale[c]: <<n, l>> of which c is owed an update (history) *)
    crossed     (* a line met another connection's beginning, or one was     *)
                (* left behind by a connection that closed (history)         *)
(* misled is a history variable too.                                         *)

session == << cursor, listens >>
line == << partial, mid, misled, crossed >>
vars == << tree, value, session, line, serving, walk, stale >>

IsOpen(c) == cursor[c] # None
Walking(t) == walk[t] # None
(* Nobody holds the mutex of the listeners of node n.                       *)
Unlocked(n) == \A t \in Threads : Walking(t) /\ walk[t].node = n => ~walk[t].inside

-----------------------------------------------------------------------------
(* ChannelManager::attach_to_tree has hung the points into the tree.        *)
Attached == [p \in Paths |-> IF p \in Points THEN "point"
                             ELSE IF p = Root \/ p \in {Front(q) : q \in Points} THEN "branch"
                             ELSE "none"]

Init ==
    /\ tree = Attached
    /\ value \in [Paths -> Values] /\ \A p, q \in Paths : value[p] = value[q]
    /\ cursor = [c \in Connections |-> None]
    /\ listens = [c \in Connections |-> {}]
    /\ partial = << >>
    /\ mid = [c \in Connections |-> None]
    /\ misled = FALSE
    /\ serving = None
    /\ walk = [t \in Threads |-> None]
    /\ stale = [c \in Connections |-> {}]
    /\ crossed = FALSE

(* The variable of leaf p has changed to v in thread t and calls            *)
(* catch_value_change; whoever listens above p is owed an update.           *)
Change(t, p, v) ==
    /\ value' = [value EXCEPT ![p] = v]
    /\ walk' = [walk EXCEPT ![t] = [leaf |-> p, value |-> v, node |-> p, keys |-> << >>,
                                    inside |-> FALSE, left |-> {}, busy |-> None]]
    /\ stale' = [c \in Connections |->
                    stale[c] \cup {<< n, p >> : n \in {m \in Paths : m \in listens[c] /\ IsPrefix(m, p)}}]

(* A channel's thread publishes a new value of one of its points.           *)
Publish(p, v) ==
    /\ ~Walking(p[1])
    /\ v # value[p]
    /\ Change(p[1], p, v)
    /\ UNCHANGED << tree, session, line, serving >>

(* The thread locks the listeners of the node it has come to.               *)
Enter(t) ==
    /\ Walking(t) /\ ~walk[t].inside
    /\ Unlocked(walk[t].node)
    /\ walk' = [walk EXCEPT ![t].inside = TRUE,
                            ![t].left = {c \in Connections : walk[t].node \in listens[c]}]
    /\ UNCHANGED << tree, value, session, line, serving, stale >>

(* Mutant of Take: the loop ends at a listener that has expired.            *)
TakeUntilExpired(t, c) ==
    /\ Walking(t) /\ walk[t].inside /\ walk[t].busy = None
    /\ c \in walk[t].left
    /\ walk' = [walk EXCEPT ![t].left = IF walk[t].node \in listens[c] THEN @ \ {c} ELSE {},
                            ![t].busy = IF walk[t].node \in listens[c] THEN c ELSE None]
    /\ UNCHANGED << tree, value, session, line, serving, stale >>

(* The next listener: its weak pointer is locked, and the one to its        *)
(* browser; a listener whose browser is gone is dropped.                    *)
Take(t, c) ==
    /\ Walking(t) /\ walk[t].inside /\ walk[t].busy = None
    /\ c \in walk[t].left
    /\ walk' = [walk EXCEPT ![t].left = @ \ {c},
                            ![t].busy = IF walk[t].node \in listens[c] THEN c ELSE None]
    /\ UNCHANGED << tree, value, session, line, serving, stale >>

(* What the listener is called with: the value, and the path to the leaf    *)
(* from the node, put together from the end.                                *)
Update(t) == [value |-> walk[t].value, branch |-> Reverse(walk[t].keys)]

(* The update is written to the connection.                                 *)
Send(t) ==
    /\ Walking(t) /\ walk[t].busy # None
    /\ stale' = [stale EXCEPT ![walk[t].busy] = @ \ {<< walk[t].node, walk[t].leaf >>}]
    /\ walk' = [walk EXCEPT ![t].busy = None]
    /\ UNCHANGED << tree, value, session, line, serving >>

(* Mutant of Up: the node's own id is added before its parent's is.         *)
UpFromParent(t) ==
    /\ Walking(t) /\ walk[t].inside /\ walk[t].left = {} /\ walk[t].busy = None
    /\ walk[t].node # Root
    /\ walk' = [walk EXCEPT ![t].inside = FALSE, ![t].node = Front(@),
                            ![t].keys = << Last(walk[t].node) >> \o @]
    /\ UNCHANGED << tree, value, session, line, serving, stale >>

(* All listeners of the node have been told: the change goes to the parent, *)
(* with the id of this node added to the path.                              *)
Up(t) ==
    /\ Walking(t) /\ walk[t].inside /\ walk[t].left = {} /\ walk[t].busy = None
    /\ walk[t].node # Root
    /\ walk' = [walk EXCEPT ![t].inside = FALSE, ![t].node = Front(@),
                            ![t].keys = Append(@, Last(walk[t].node))]
    /\ UNCHANGED << tree, value, session, line, serving, stale >>

(* Mutant of Done: the talker forgets that the command is done.             *)
DoneUnanswered(t) ==
    /\ Walking(t) /\ walk[t].inside /\ walk[t].left = {} /\ walk[t].busy = None
    /\ walk[t].node = Root
    /\ walk' = [walk EXCEPT ![t] = None]
    /\ UNCHANGED << tree, value, session, line, serving, stale >>

(* The root has no parent: the walk ends, and with it, when the talker was  *)
(* executing a command, that command.                                       *)
Done(t) ==
    /\ Walking(t) /\ walk[t].inside /\ walk[t].left = {} /\ walk[t].busy = None
    /\ walk[t].node = Root
    /\ walk' = [walk EXCEPT ![t] = None]
    /\ serving' = IF t = Talker THEN None ELSE serving
    /\ UNCHANGED << tree, value, session, line, stale >>

-----------------------------------------------------------------------------
(* Commands, executed by the talker in the browser of connection c.  The    *)
(* argument a may be missing, or not of the kind the command needs.         *)

Target(c, h) == cursor[c] \o h.path
Found(c, h) == Target(c, h) \in Paths /\ tree[Target(c, h)] # "none"

(* Nothing changes but what is replied.                                     *)
OnlyReply == UNCHANGED << tree, value, session, serving, walk, stale >>

MoveTo(c, n) ==
    /\ cursor' = [cursor EXCEPT ![c] = n]
    /\ UNCHANGED << tree, value, listens, serving, walk, stale >>

MoveToTop(c, h) == h.op = "MoveToTop" /\ MoveTo(c, Root)

MoveDown(c, h) == h.op = "MoveDown" /\ Found(c, h) /\ MoveTo(c, Target(c, h))

(* Mutant of Listen: the listener of a node subscribed again is replaced,   *)
(* in the tree but not in the browser, and expires.                         *)
ListenAnew(c, n) ==
    /\ Unlocked(n)
    /\ listens' = [listens EXCEPT ![c] = IF n \in @ THEN @ \ {n} ELSE @ \cup {n}]
    /\ UNCHANGED << tree, value, cursor, serving, walk, stale >>

(* A listener is added to the node, under the node's mutex, or the one that *)
(* is there gets another tag.                                               *)
Listen(c, n) ==
    /\ n \notin listens[c] => Unlocked(n)
    /\ listens' = [listens EXCEPT ![c] = @ \cup {n}]
    /\ UNCHANGED << tree, value, cursor, serving, walk, stale >>

(* The argument is the Tag that updates will bear.                          *)
ListenValue(c, h, a) ==
    h.op = "ListenValue" /\ Found(c, h) /\ a \in NewIds /\ Listen(c, Target(c, h))

(* A leaf without a device: RamVariable takes the value at once, and the    *)
(* talker itself carries the change up before it replies.  A point's value  *)
(* changes only when its device has answered.                               *)
PutRam(c, p, v) ==
    /\ tree[p] = "ram"
    /\ v # value[p]
    /\ Change(Talker, p, v)
    /\ serving' = c
    /\ UNCHANGED << tree, session >>

(* The leaf takes the value or refuses it; the reply is Good either way.    *)
WriteValue(c, h, a) ==
    /\ h.op = "Write"
    /\ OnlyReply \/ (Found(c, h) /\ a \in Values /\ PutRam(c, Target(c, h), a))

SetValue(c, h, a) ==
    /\ h.op = "Set"
    /\ OnlyReply \/ (Found(c, h) /\ a \in Values /\ PutRam(c, Target(c, h), a))

(* An out-value of lower priority may come to the fore.                     *)
UnsetValue(c, h) ==
    /\ h.op = "Unset"
    /\ OnlyReply \/ (Found(c, h) /\ \E v \in Values : PutRam(c, Target(c, h), v))

(* create_branch, create_leaf: nothing is replaced, a leaf has no children. *)
NewNode(p, k) ==
    /\ IF tree[Front(p)] = "branch"
       THEN p \in Paths /\ tree' = IF tree[p] = "none" THEN [tree EXCEPT ![p] = k] ELSE tree
       ELSE UNCHANGED tree
    /\ UNCHANGED << value, session, serving, walk, stale >>

(* A NewId that is neither an integer nor a string leaves the key blank.    *)
Key(a) == IF a \in NewIds THEN a ELSE Blank

CreateBranch(c, h, a) ==
    h.op = "CreateBranch" /\ Found(c, h) /\ a # None /\ NewNode(Append(Target(c, h), Key(a)), "branch")

CreateLeaf(c, h, a) ==
    h.op = "CreateLeaf" /\ Found(c, h) /\ a # None /\ NewNode(Append(Target(c, h), Key(a)), "ram")

Show(c, h) == h.op = "Show" /\ OnlyReply
Read(c, h) == h.op = "Read" /\ OnlyReply
GetPriority(c, h) == h.op = "GetPriority" /\ OnlyReply

(* A listener is added that does nothing.                                   *)
ListenBranch(c, h) == h.op = "ListenBranch" /\ OnlyReply

(* Only a leaf is asked to remove a child, and it has none: the reply is    *)
(* Good, and no node is ever removed.                                       *)
DeleteChild(c, h) == h.op = "DeleteChild" /\ OnlyReply

(* A target that does not exist; no NewId; no Tag, or of the wrong kind.    *)
Refused(c, h, a) ==
    /\ \/ h.op # "MoveToTop" /\ ~Found(c, h)
       \/ h.op \in {"CreateBranch", "CreateLeaf"} /\ a = None
       \/ h.op = "ListenValue" /\ a \notin NewIds
    /\ OnlyReply

Execute(c, h, a) ==
    \/ MoveToTop(c, h) \/ MoveDown(c, h) \/ Show(c, h)
    \/ ListenBranch(c, h) \/ ListenValue(c, h, a)
    \/ Read(c, h) \/ GetPriority(c, h)
    \/ WriteValue(c, h, a) \/ SetValue(c, h, a) \/ UnsetValue(c, h)
    \/ CreateBranch(c, h, a) \/ CreateLeaf(c, h, a) \/ DeleteChild(c, h)
    \/ Refused(c, h, a)

-----------------------------------------------------------------------------
(* catch_connect_event: a browser at the root.                              *)
Connect(c) ==
    /\ serving = None
    /\ ~IsOpen(c)
    /\ cursor' = [cursor EXCEPT ![c] = Root]
    /\ UNCHANGED << tree, value, listens, line, serving, walk, stale >>

(* Mutant of Destroyed: the destructor does not wait.                       *)
DestroyedAtOnce(c) ==
    /\ cursor' = [cursor EXCEPT ![c] = None]
    /\ listens' = [listens EXCEPT ![c] = {}]
    /\ stale' = [stale EXCEPT ![c] = {}]

(* A browser is destroyed, and its listeners with it, when no thread is     *)
(* just writing to it.                                                      *)
Destroyed(c) ==
    /\ \A t \in Threads : Walking(t) => walk[t].busy # c
    /\ cursor' = [cursor EXCEPT ![c] = None]
    /\ listens' = [listens EXCEPT ![c] = {}]
    /\ stale' = [stale EXCEPT ![c] = {}]

(* What the connection has sent of a line stays in partialMessage.          *)
Disconnect(c) ==
    /\ serving = None
    /\ IsOpen(c)
    /\ Destroyed(c)
    /\ mid' = [mid EXCEPT ![c] = None]
    /\ crossed' = (crossed \/ mid[c] # None)
    /\ UNCHANGED << tree, value, partial, misled, serving, walk >>

(* Data of c meet the beginning of another connection's line.               *)
Crosses(c) == crossed \/ \E i \in DOMAIN partial : partial[i].from # c

Piece(c, h) == [from |-> c, head |-> h]

(* The beginning of a line comes, without its end.                          *)
Begin(c, h) ==
    /\ serving = None
    /\ IsOpen(c) /\ mid[c] = None
    /\ Len(partial) < MaxPieces
    /\ mid' = [mid EXCEPT ![c] = h]
    /\ partial' = Append(partial, Piece(c, h))
    /\ crossed' = Crosses(c)
    /\ UNCHANGED << tree, value, session, misled, serving, walk, stale >>

(* Mutant of Answered: partialMessage is not cleared.                       *)
AnsweredKeeping(c, asked, pieces) ==
    /\ partial' = pieces
    /\ mid' = [mid EXCEPT ![c] = None]
    /\ misled' = (misled \/ (~crossed' /\ (Len(pieces) # 1 \/ pieces[1].head # asked)))

(* The reply goes to the connection whose line it was: to the line of c     *)
(* that asked for something, the pieces it was put together from executed.  *)
Answered(c, asked, pieces) ==
    /\ partial' = << >>
    /\ mid' = [mid EXCEPT ![c] = None]
    /\ misled' = (misled \/ (~crossed' /\ (Len(pieces) # 1 \/ pieces[1].head # asked)))

(* The end of a line comes: what lies in partialMessage is the command,     *)
(* or cannot be parsed.                                                     *)
LineEnds(c, asked, pieces, a) ==
    /\ IF Len(pieces) = 1 THEN Execute(c, pieces[1].head, a) ELSE OnlyReply
    /\ Answered(c, asked, pieces)

Finish(c, a) ==
    /\ serving = None
    /\ mid[c] # None
    /\ crossed' = Crosses(c)
    /\ LineEnds(c, mid[c], partial, a)

WholeLine(c, h, a) ==
    /\ serving = None
    /\ IsOpen(c) /\ mid[c] = None
    /\ crossed' = Crosses(c)
    /\ LineEnds(c, h, Append(partial, Piece(c, h)), a)

(* A line of MAX_LENGTH bytes or more is thrown away, without a reply and   *)
(* with all that was before it in partialMessage.                           *)
LongLine(c) ==
    /\ serving = None
    /\ IsOpen(c)
    /\ partial' = << >>
    /\ mid' = [mid EXCEPT ![c] = None]
    /\ crossed' = Crosses(c)
    /\ UNCHANGED << tree, value, session, misled, serving, walk, stale >>

Thread(t) == Enter(t) \/ (\E c \in Connections : Take(t, c)) \/ Send(t) \/ Up(t) \/ Done(t)

Client(c) ==
    \/ Connect(c)
    \/ Disconnect(c)
    \/ \E h \in Split : Begin(c, h)
    \/ \E a \in Args \cup {None} : Finish(c, a)
    \/ \E h \in Commands, a \in Args \cup {None} : WholeLine(c, h, a)
    \/ LongLine(c)

Next ==
    \/ \E p \in Points, v \in Values : Publish(p, v)
    \/ \E t \in Threads : Thread(t)
    \/ \E c \in Connections : Client(c)

(* A thread goes on with its walk, and gets a mutex that is free again and  *)
(* again.  Nobody need send or publish anything.                            *)
Fairness ==
    \A t \in Threads :
        /\ SF_vars(Enter(t))
        /\ WF_vars((\E c \in Connections : Take(t, c)) \/ Send(t) \/ Up(t) \/ Done(t))

Spec == Init /\ [][Next]_vars /\ Fairness

-----------------------------------------------------------------------------
(* Every variable has its type.                                             *)
TypeOK ==
    /\ tree \in [Paths -> {"none", "branch", "ram", "point"}]
    /\ value \in [Paths -> Values]
    /\ cursor \in [Connections -> Paths \cup {None}]
    /\ listens \in [Connections -> SUBSET Paths]
    /\ \A c \in Connections : IsOpen(c) => tree[cursor[c]] # "none"
    /\ partial \in Seq([from : Connections, head : Split])
    /\ mid \in [Connections -> Split \cup {None}]
    /\ misled \in BOOLEAN
    /\ serving \in Connections \cup {None}
    /\ Walking(Talker) <=> serving # None
    /\ walk \in [Threads -> Walk \cup {None}]
    /\ stale \in [Connections -> SUBSET (Paths \X Paths)]

(* "Ncu would notify listener each time there is a value update" (NCU       *)
(* Communication.txt): an update a client is owed is one that a thread,     *)
(* still at the client's node or below it, is bringing.                     *)
SubscribersTold ==
    \A c \in Connections : \A x \in stale[c] :
        \E t \in Threads : /\ Walking(t)
                           /\ walk[t].leaf = x[2]
                           /\ IsPrefix(x[1], walk[t].node)
                           /\ walk[t].inside /\ walk[t].node = x[1] => c \in walk[t].left \cup {walk[t].busy}

(* An update that a thread is writing tells the value the leaf has now, has *)
(* a path that leads from the node of the subscription to the leaf, and     *)
(* goes to a connection that subscribed there, not to a later one with the  *)
(* same handle.                                                             *)
UpdatesCurrent ==
    \A t \in Threads : Walking(t) /\ walk[t].busy # None =>
        /\ walk[t].node \in listens[walk[t].busy]
        /\ Update(t).value = value[walk[t].leaf]
        /\ walk[t].node \o Update(t).branch = walk[t].leaf

(* While no line met another connection's beginning, every reply is to the  *)
(* command its client sent; all connections share partialMessage.           *)
OwnCommands ==
    ~misled

(* A client that stays connected gets the update it is owed.                *)
EventuallyTold ==
    \A c \in Connections : \A p \in Points :
        << Root, p >> \in stale[c] ~> << Root, p >> \notin stale[c]
=============================================================================
