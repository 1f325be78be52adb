---------------------------- MODULE MCRunControl ----------------------------
(* Small instances of RunControl: who asks what. *)
EXTENDS RunControl, TLC

CONSTANTS d1, d2, d3, c1, c2, c3

RetryNoteStop == c1 :> "retry" @@ c2 :> "note" @@ c3 :> "stop"
RetryStop == c1 :> "retry" @@ c2 :> "stop"
StopPauseKeep == c1 :> "stop" @@ c2 :> "pause" @@ c3 :> "pause_keep"
NoteStop == c1 :> "note" @@ c2 :> "stop"
JustPause == c1 :> "pause"
=============================================================================
