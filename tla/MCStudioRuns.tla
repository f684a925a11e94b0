----------------------------- MODULE MCStudioRuns -----------------------------
(* Two sockets that follow each other or overlap, and two starts.          *)
EXTENDS StudioRuns
=============================================================================
