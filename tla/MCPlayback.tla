----------------------------- MODULE MCPlayback -----------------------------
(***************************************************************************)
(* The playback plugin with two URIs, a source with one audio stream and   *)
(* one that also has a video stream, and two addresses for the allocator   *)
(* to hand out again.                                                      *)
(***************************************************************************)
EXTENDS Playback

CONSTANTS song, film, p1, p2

MCUris == {song, film}
MCAddrs == {p1, p2}
MCStreams == (song :> <<"audio">>) @@ (film :> <<"audio", "video">>)

(* A hash without collisions ... *)
Distinct ==
  [x \in Uris \X Addrs \X (0..MaxClock) |->
     (IF x[1] = song THEN 0 ELSE 1) + 2 * (IF x[2] = p1 THEN 0 ELSE 1) + 4 * x[3]]

(* ... and one that tells only the URIs apart. *)
Colliding ==
  [x \in Uris \X Addrs \X (0..MaxClock) |-> IF x[1] = song THEN 0 ELSE 1]

(* Every id, one that atoll() makes of a larger number, one of junk. *)
MCParams == (0..7) \cup {9, -1}
ShortParams == {0, 1, 3, -2}
=============================================================================
