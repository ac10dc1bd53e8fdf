----------------------- MODULE MCPersistentConnection -----------------------
(***************************************************************************)
(* The instance of PersistentConnection for TLC is all in its .cfg.        *)
(***************************************************************************)
EXTENDS PersistentConnection
=============================================================================
