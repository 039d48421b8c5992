----------------------------- MODULE MCSPSCQueue -----------------------------
(* A ring of four slots: three usable, so a burst of two can be cut short    *)
(* and the indices wrap.  Two events are enough to see a swap, a loss or a   *)
(* repetition, since the ring never looks at what it carries.                *)
EXTENDS SPSCQueue
=============================================================================
