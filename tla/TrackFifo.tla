----------------------------- MODULE TrackFifo -----------------------------
(***************************************************************************)
(* What the buffer of a streaming AudioTrack promises, with no ring, no    *)
(* wrapping counter and no control block: a queue of frames numbered from  *)
(* 0, of which [read, written) is in the buffer.                           *)
(*                                                                         *)
(* This is an abstract specification; StreamingTrack implements it.        *)
(***************************************************************************)
EXTENDS Naturals

CONSTANT Capacity       \* frames the buffer holds

VARIABLES
    written,    \* frames the client has released
    read,       \* frames the server is done with, played or discarded
    playing,    \* frames the server has been handed and is not done with
    flushes     \* the write positions at which the client flushed

fifoVars == <<written, read, playing, flushes>>

FifoInit == written = 0 /\ read = 0 /\ playing = 0 /\ flushes = {0}

\* The client adds frames; it never overruns the buffer.
Write ==
    /\ written' \in written + 1 .. read + Capacity
    /\ UNCHANGED <<read, playing, flushes>>

\* The client asks that all it has written so far be discarded.
Flush ==
    /\ flushes' = flushes \cup {written}
    /\ UNCHANGED <<written, read, playing>>

\* The server is handed frames that are in the buffer, or gives them back.
Obtain ==
    /\ playing' \in 0 .. written - read
    /\ UNCHANGED <<written, read, flushes>>

\* The server plays frames it was handed, in order and each once.
Play ==
    /\ read' \in read + 1 .. read + playing
    /\ playing' \in {0, playing - (read' - read)}
    /\ UNCHANGED <<written, flushes>>

\* The server discards up to a flush: all before it and nothing after it.
Discard ==
    /\ playing = 0
    /\ read' \in {f \in flushes : f > read}
    /\ UNCHANGED <<written, playing, flushes>>

FifoNext == Write \/ Flush \/ Obtain \/ Play \/ Discard
FifoSpec == FifoInit /\ [][FifoNext]_fifoVars
=============================================================================
