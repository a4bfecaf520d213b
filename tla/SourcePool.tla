----------------------------- MODULE SourcePool -----------------------------
(***************************************************************************)
(* What the orchestra expects of the pool of sound sources of the          *)
(* SoundScape Renderer (SSR): a segment holds at most one source, a source *)
(* is held by at most one segment, and only the holder gives it back.      *)
(* SegmentPlayback shows how ssr/ssr_control.py and orchestra.py implement *)
(* this with one "allocated" flag per source and a sound_source_id per     *)
(* segment.                                                                *)
(***************************************************************************)
CONSTANTS Users, Sources

VARIABLE held      \* the pairs <<user, source>> such that the user holds the source

Holds(u) == {src \in Sources : <<u, src>> \in held}
Holders(src) == {u \in Users : <<u, src>> \in held}

Init == held = {}

\* SsrControl.allocate_source on behalf of a segment.
Acquire(u, src) ==
  /\ Holds(u) = {}
  /\ Holders(src) = {}
  /\ held' = held \cup {<<u, src>>}

\* SsrControl.free_source, when the segment has stopped playing.
Release(u, src) ==
  /\ <<u, src>> \in held
  /\ held' = held \ {<<u, src>>}

Next == \E u \in Users, src \in Sources : Acquire(u, src) \/ Release(u, src)

Spec == Init /\ [][Next]_held
=============================================================================
