--------------------------- MODULE MCShellSession ---------------------------
(* Two commands, one of which spans lines, on a short stack. *)
EXTENDS ShellSession

TwoCmds   == {"ls", "for"}
OneSpan   == {"for"}
AllShells == {"zsh", "bash", "old bash"}
=============================================================================
