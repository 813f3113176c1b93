----------------------------- MODULE MusicPlayer -----------------------------
(***************************************************************************)
(* What the game is promised about its background music: one track at a    *)
(* time, replaced only in silence, started from its first frame, heard     *)
(* frame by frame in order and looped at its own length.  AudioMixer       *)
(* implements it with two threads, a lock and a heap.                      *)
(***************************************************************************)
EXTENDS Integers

CONSTANTS Track, NoTrack, MaxLength, Volume

VARIABLES
    track,     \* the track the player holds
    length,    \* its frames
    playing,   \* whether it is heard
    position,  \* frames heard since the last start or loop; 0 in silence
    volume

vars == <<track, length, playing, position, volume>>

Init ==
    /\ track = NoTrack /\ length = 0
    /\ playing = FALSE /\ position = 0
    /\ volume \in Volume

SetVolume ==
    /\ volume' \in Volume
    /\ UNCHANGED <<track, length, playing, position>>

Stop ==
    /\ playing' = FALSE /\ position' = 0
    /\ UNCHANGED <<track, length, volume>>

Replace(t, n) ==
    /\ ~playing
    /\ track' = t /\ length' = n
    /\ UNCHANGED <<playing, position, volume>>

Start ==
    /\ track # NoTrack
    /\ playing' = TRUE /\ position' = 0
    /\ UNCHANGED <<track, length, volume>>

Hear ==
    /\ playing
    /\ position' = (position % length) + 1
    /\ UNCHANGED <<track, length, playing, volume>>

Close ==
    /\ track' = NoTrack /\ length' = 0
    /\ playing' = FALSE /\ position' = 0
    /\ UNCHANGED volume

Next ==
    \/ SetVolume \/ Stop \/ Start \/ Hear \/ Close
    \/ \E t \in Track, n \in 1 .. MaxLength : Replace(t, n)
    \/ Replace(NoTrack, 0)

Spec == Init /\ [][Next]_vars
=============================================================================
