-------------------------------- MODULE MCFs --------------------------------
(* Instances of Fs for TLC.                                                *)
EXTENDS Fs, TLC

CONSTANTS p1, p2

\* Which process makes which calls.
TwoRoles == p1 :> {"create", "close", "link", "unlink", "chdir"}
         @@ p2 :> {"open", "close", "mkdir", "unlink"}
Makers == [p \in Proc |-> {"create", "unlink", "close"}]

TopPath == {<<"/", "a">>}
DownPaths == TopPath \cup {<<"/", "a", "b">>}
=============================================================================
