------------------------------ MODULE MCGeLists ------------------------------
(* Instance of GeLists for TLC: every list of three commands with          *)
(* subroutines of two, over a small set of commands.  The list itself jumps *)
(* to no cell that it has yet to write.                                    *)
EXTENDS GeLists

Cmd(op, to) == [op |-> op, to |-> to]

MainCommands ==
  {Cmd("draw", 0), Cmd("offset", 0), Cmd("origin", 0), Cmd("bbox", 0), Cmd("bbox", 1),
   Cmd("finish", 0), Cmd("jump", 0), Cmd("call", 3)}
SubCommands ==
  {Cmd("draw", 0), Cmd("ret", 0), Cmd("jump", 4), Cmd("bjump", 3), Cmd("call", 3)}

Lists(main, sub) ==
  {p \in [Cells -> main \cup sub] :
     \A c \in Cells : p[c] \in IF c < MainCells THEN main ELSE sub}

MCPrograms == Lists(MainCommands, SubCommands)
=============================================================================
