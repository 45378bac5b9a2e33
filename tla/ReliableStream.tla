--------------------------- MODULE ReliableStream ---------------------------
(***************************************************************************)
(* What a recovery session promises its peer (docs/RECOVERY.md, "Delivery  *)
(* guarantees"), with no connections, buffers or resumes: the server       *)
(* appends reliable frames to a log, and the peer handles the log in       *)
(* order, each frame once, until the session is closed.                    *)
(***************************************************************************)
EXTENDS Integers, Sequences

CONSTANT Data

VARIABLES
  log,    \* the reliable frames accepted for the session
  seen,   \* the reliable frames the peer handled
  open    \* the session has not been closed

svars == <<log, seen, open>>

SInit == log = << >> /\ seen = << >> /\ open = TRUE

Emit ==
  /\ open
  /\ \E d \in Data : log' = Append(log, d)
  /\ UNCHANGED <<seen, open>>

Handle ==
  /\ Len(seen) < Len(log)
  /\ seen' = Append(seen, log[Len(seen) + 1])
  /\ UNCHANGED <<log, open>>

Close == open /\ open' = FALSE /\ UNCHANGED <<log, seen>>

SNext == Emit \/ Handle \/ Close

SSpec == SInit /\ [][SNext]_svars
=============================================================================
