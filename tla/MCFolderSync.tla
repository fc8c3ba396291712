---------------------------- MODULE MCFolderSync ----------------------------
(***************************************************************************)
(* Values of the constants of FolderSync for TLC.                          *)
(***************************************************************************)
EXTENDS FolderSync

CONSTANT inbox

AllInInbox == [m \in Messages |-> inbox]
=============================================================================
