-------------------------- MODULE MCUserbotEvents ---------------------------
(* The modules and commands of the runs of UserbotEvents.                  *)
EXTENDS UserbotEvents

SomeCommands == {"mute", "kick", "warns"}
SomeHandlers == SomeCommands \cup {"warn", "link_filter", "auto_delete"}
=============================================================================
