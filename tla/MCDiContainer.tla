--------------------------- MODULE MCDiContainer ---------------------------
(* Instances of DiContainer: two services of which bar's constructor calls *)
(* get("foo").  The constructor of foo there is at first may return nil,   *)
(* as may the one bar is updated to.                                       *)
EXTENDS DiContainer, TLC

CONSTANTS foo, bar

ChainDep == foo :> {} @@ bar :> {foo}

SomeNil == {<<foo, 1>>, <<bar, 2>>}

=============================================================================
