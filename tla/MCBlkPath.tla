----------------------------- MODULE MCBlkPath ------------------------------
(* Requests over a medium of three windows of two sectors, through a data    *)
(* region of two: writes of the two sectors of one window, a write longer    *)
(* than the data region that ends inside a window, a read, and a flush.      *)
EXTENDS BlkPath

Out(sector, n) == [type |-> "OUT", sector |-> sector, n |-> n]

SomeShapes ==
    {Out(0, 1), Out(1, 1), Out(0, 5),
     [type |-> "IN", sector |-> 0, n |-> 2], [type |-> "FLUSH", sector |-> 0, n |-> 0]}
=============================================================================
