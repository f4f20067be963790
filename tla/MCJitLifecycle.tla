--------------------------- MODULE MCJitLifecycle ---------------------------
(* One builtin (0) and three functions; every assignment of the bodies     *)
(* below to the functions: leaves, calls of a builtin, cycles, callees     *)
(* shared and called twice, functions reached only through the table, and  *)
(* a body that does not compile.  The plane holds ten chunks, two to a     *)
(* page; bodies that need more than the plane run out of room.             *)
EXTENDS JitLifecycle, TLC

MCTypeOf == 0 :> "s" @@ 1 :> "t" @@ 2 :> "t" @@ 3 :> "s"
MCTable  == 0 :> 3 @@ 1 :> 0 @@ 2 :> 7 @@ 3 :> 2
MCPage   == [a \in 0 .. PlaneMax - 1 |-> a \div 2]
MCBodies ==
  { [callees |-> <<>>,        sites |-> {},         size |-> 1, bad |-> FALSE],
    [callees |-> <<0, 2>>,    sites |-> {"s"},      size |-> 3, bad |-> FALSE],
    [callees |-> <<3, 1>>,    sites |-> {},         size |-> 2, bad |-> FALSE],
    [callees |-> <<2, 3, 2>>, sites |-> {},         size |-> 1, bad |-> FALSE],
    [callees |-> <<>>,        sites |-> {"t"},      size |-> 4, bad |-> FALSE],
    [callees |-> <<1>>,       sites |-> {},         size |-> 1, bad |-> TRUE] }
=============================================================================
