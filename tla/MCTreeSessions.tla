--------------------------- MODULE MCTreeSessions ---------------------------
(* A point, room for two nodes made by clients, and their commands.         *)
EXTENDS TreeSessions

CONSTANTS ch, pt, nw

MCPaths == {<< >>, << ch >>, << ch, pt >>, << nw >>}
MCPoints == {<< ch, pt >>}
C(o, p) == [op |-> o, path |-> p]
MCSplit == {C("Write", << nw >>)}
MCCommands == MCSplit \cup
    {C("MoveDown", << nw >>), C("MoveToTop", << >>), C("CreateLeaf", << >>), C("CreateBranch", << >>),
     C("ListenValue", << >>), C("Unset", << nw >>), C("Set", << nw >>), C("Read", << >>), C("Show", << >>),
     C("GetPriority", << nw >>), C("ListenBranch", << >>), C("DeleteChild", << nw >>)}
=============================================================================
