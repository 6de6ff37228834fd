----------------------------- MODULE MCContainers -----------------------------
(***************************************************************************)
(* The instances of HMap and Buffer that TLC checks.  Neither knows of the  *)
(* other, so that a behaviour is one of calls on a table or one of calls on *)
(* a buffer.  The keys of the table share a bucket while there are 2 or 5   *)
(* buckets, and part when there are more.                                   *)
(***************************************************************************)
EXTENDS HMap, Buffer, TLC

CONSTANTS k1, k2, k3, k4

VARIABLE called         \* what is called: "table" or "buffer"

Hashes == (k1 :> 0) @@ (k2 :> 10) @@ (k3 :> 5) @@ (k4 :> 3)
Abc    == {<<>>, <<"a">>, <<"b", "c">>}
Bytes  == {"a", "b", "c", "NUL", "?"}

ContainersInit == called \in {"table", "buffer"} /\ Init /\ BufferInit

Calls ==
    \/ called = "table"  /\ Next /\ UNCHANGED buffer_vars
    \/ called = "buffer" /\ BufferNext /\ UNCHANGED vars

ContainersSpec == ContainersInit /\ [][Calls /\ UNCHANGED called]_<<vars, buffer_vars, called>>

ContainersTypeOK == TypeOK /\ BufferTypeOK
===============================================================================
