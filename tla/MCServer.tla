------------------------------ MODULE MCServer ------------------------------
(***************************************************************************)
(* Instances of the server's processes for TLC.                            *)
(***************************************************************************)
EXTENDS Server, TLC

CONSTANTS old, new, momentum, news, r1, r2

\* A binary with one more migration than the one it replaces.
OneMoreMigration == old :> 1 @@ new :> 2

\* A deploy, two requests, and jobs beside a request.
ServerLoads == {{old, new, r1}, {old, r1, r2}, {new, r1, momentum, news}}
=============================================================================
