-------------------------- MODULE MC_OverrideWindow --------------------------
(* Two people and a reaper around the windows of one posted item. *)
EXTENDS OverrideWindow
=============================================================================
