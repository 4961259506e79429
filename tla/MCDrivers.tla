----------------------------- MODULE MCDrivers ------------------------------
(***************************************************************************)
(* The three stand-alone driver models checked in one run:                *)
(* calculate_ip_checksum (IpChecksum), the audio driver (Audio) and the  *)
(* graphics driver's line drawing (Graphics).  The drivers share no       *)
(* state, so each behaviour exercises one of them, chosen by drv, while   *)
(* the others keep one initial state: the state space is the sum of the  *)
(* three, not their product, and every invariant of a part is checked on *)
(* every state that part can reach.                                       *)
(***************************************************************************)
EXTENDS Integers, Sequences

CONSTANTS Bytes, MaxLen,
          BUFFER_SIZE, NoteCalls, Chans, MaxMixes,
          SCREEN_WIDTH, SCREEN_HEIGHT, Coords, Sizes

VARIABLES data, ptr, length, sum, pc, result,
          aud, mixes,
          ginit, call, ln, path, written,
          drv

C == INSTANCE IpChecksum
A == INSTANCE Audio
G == INSTANCE Graphics

cvars == <<data, ptr, length, sum, pc, result>>
avars == <<aud, mixes>>
gvars == <<ginit, call, ln, path, written>>
allvars == <<cvars, avars, gvars, drv>>

Parts == {"checksum", "audio", "graphics"}

\* Calls of play_note <<channel, frequency, waveform, volume>> (waveform
\* 0 sine, 1 square, 2 sawtooth): a note the mixer advances (1000 Hz), one
\* off the speaker's channel, one below the uint16 divisor's range
\* (10 Hz) and one on a channel out of range.
MCNoteCalls == {<<0, 1000, 1, 100>>, <<1, 440, 0, 255>>,
                <<0, 10, 2, 200>>, <<3, 440, 0, 255>>}
MCChans == {-1, 0, 1, 3}
MCCoords == -1..3

Init ==
    /\ drv \in Parts
    /\ C!Init /\ (drv # "checksum" => data = <<>>)
    /\ A!Init /\ (drv # "audio" => aud.gate = 0)
    /\ G!Init

Next ==
    \/ drv = "checksum" /\ C!Next /\ UNCHANGED <<avars, gvars, drv>>
    \/ drv = "audio" /\ A!Next /\ UNCHANGED <<cvars, gvars, drv>>
    \/ drv = "graphics" /\ G!Next /\ UNCHANGED <<cvars, avars, drv>>

Spec == Init /\ [][Next]_allvars

-----------------------------------------------------------------------------
\* calculate_ip_checksum returns the RFC 1071 checksum of its input.
ChecksumMatchesReference == C!ChecksumMatchesReference

\* The audio driver's state stays in its ranges; buffer_position wraps
\* inside the buffer.
AudioTypeOK == A!AudioTypeOK

\* No channel sounds while the audio driver is not initialized
\* (shutdown_audio_driver stops the channels before clearing the flag).
QuietWhenUninitialized == A!QuietWhenUninitialized

\* draw_line's loop traces the digital segment between its end points.
LineTracesSegment == G!LineTracesSegment

\* draw_pixel stores only to on-screen framebuffer bytes, only when
\* the driver is initialized.
PixelsClippedToScreen == G!PixelsClippedToScreen

=============================================================================
