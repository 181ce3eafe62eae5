----------------------------- MODULE MCDirectory ----------------------------
(***************************************************************************)
(* Two names, room for two actors, five spawn requests.                    *)
(***************************************************************************)
EXTENDS Directory
=============================================================================
