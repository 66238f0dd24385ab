----------------------------- MODULE MCStartup ------------------------------
(* The instance of Startup for TLC; its bounds are in the .cfg.            *)
EXTENDS Startup

(* A profile of somebody else's, none, and BillBot's own. *)
MCFirstEntries == {{"foreign"}, {}, {"marker", "memory"}}
=============================================================================
