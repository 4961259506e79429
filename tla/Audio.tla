------------------------------- MODULE Audio -------------------------------
(***************************************************************************)
(* The audio driver of src/x86_64/drivers/audio/hell_audio.c: three       *)
(* channels, the mixer that fills audio_buffer, and the PC speaker (port  *)
(* 0x61's two gate bits and the PIT channel-2 divisor).  Every public     *)
(* routine is one action: the kernel calls them from one thread          *)
(* (init_drivers, play_startup_sound, the main loop's                     *)
(* update_audio_system), and the busy waits inside play_audio_sequence,  *)
(* create_demonic_growl and create_fire_crackling only delay.  The one    *)
(* interrupt-side caller, timer_interrupt_handler, plays a note only on a *)
(* tick count that is a multiple of 1000; no IRQ handler sends an EOI     *)
(* (see Interrupts), so the timer is delivered once at most and never     *)
(* reaches that call.                                                      *)
(*                                                                         *)
(* phase is the low 16 bits of the code's uint32 phase.  mixes counts    *)
(* update_audio_system calls.                                             *)
(* Port writes that only program modes (0xB6 to the PIT command port)    *)
(* are left out.                                                          *)
(***************************************************************************)
EXTENDS Integers, Sequences

CONSTANTS
    BUFFER_SIZE,   \* BUFFER_SIZE (1024, scaled): samples per update
    NoteCalls,     \* <<channel, frequency, waveform, volume>> given to play_note
    Chans,         \* channel numbers callers pass (in and out of range)
    MaxMixes       \* bound on update_audio_system calls

SAMPLE_RATE == 44100
MAX_CHANNELS == 3
PIT_HZ == 1193180
WAVE_SINE == 0
WAVE_SQUARE == 1
WAVE_SAW == 2
Channels == 0..(MAX_CHANNELS - 1)

\* The chords of kernel.c as <<frequency, waveform>> (NOTE_* of kernel.h);
\* the {0, 0, 0} terminator ends each array.
StartupChord  == <<<<65, WAVE_SINE>>, <<78, WAVE_SQUARE>>, <<98, WAVE_SAW>>, <<0, 0>>>>
ErrorSound    == <<<<33, WAVE_SAW>>, <<39, WAVE_SQUARE>>, <<49, WAVE_SINE>>, <<0, 0>>>>
ShutdownSound == <<<<98, WAVE_SINE>>, <<78, WAVE_SQUARE>>, <<65, WAVE_SAW>>, <<0, 0>>>>

VARIABLES aud, mixes

avars == <<aud, mixes>>

\* generate_waveform_tables: entry i of each table.
SineTable(i) ==
    IF i < 64 THEN i * 512
    ELSE IF i < 128 THEN 32767 - (i - 64) * 512
    ELSE IF i < 192 THEN -(i - 128) * 512
    ELSE -32767 + (i - 192) * 512
SquareTable(i) == IF i < 128 THEN 32767 ELSE -32767
SawTable(i) == i * 256 - 32768

\* The phase modulo 2^16.  The uint32 phase is only read through
\* (phase >> 8) & 0xFF, which depends on its low 16 bits alone, and 2^16
\* divides 2^32, so this keeps everything the code observes.
PhaseMod(x) == x % 65536

\* C's / on int: the quotient truncated towards zero.
CDiv(a, b) == IF a >= 0 THEN a \div b ELSE -((-a) \div b)

\* (ch->frequency * 256) / SAMPLE_RATE
PhaseIncrement(f) == (f * 256) \div SAMPLE_RATE

\* generate_sample for an active channel at phase p: the table entry of
\* bits 8..15 of the phase, scaled by volume / 255.
SampleAt(c, p) ==
    LET i == (p \div 256) % 256
        s == CASE c.waveform = WAVE_SINE   -> SineTable(i)
               [] c.waveform = WAVE_SQUARE -> SquareTable(i)
               [] c.waveform = WAVE_SAW    -> SawTable(i)
               [] OTHER                    -> 0
    IN CDiv(s * c.volume, 255)

\* Static zero: frequency 0, WAVE_SINE (0), volume 0, phase 0, inactive.
Quiet == [frequency |-> 0, waveform |-> WAVE_SINE, volume |-> 0,
          phase |-> 0, active |-> FALSE]

\* The driver's statics before init_hell_audio_driver.  gate is bits 0-1
\* of port 0x61 as the firmware left them; divisor is the PIT channel-2
\* count last written by the driver (-1: none yet).
AudioBoot(g) ==
    [init |-> FALSE, ch |-> [c \in Channels |-> Quiet],
     buf |-> [i \in 0..(BUFFER_SIZE - 1) |-> 0], pos |-> 0,
     gate |-> g, divisor |-> -1]

\* silence_pc_speaker: speaker_control &= 0xFC.
SilenceSpeaker(st) == [st EXCEPT !.gate = 0]

\* set_pc_speaker_frequency: the uint16_t divisor 1193180 / frequency.
SetSpeakerFrequency(st, f) ==
    IF f = 0 THEN SilenceSpeaker(st)
    ELSE [st EXCEPT !.divisor = (PIT_HZ \div f) % 65536]

InRange(c) == c >= 0 /\ c < MAX_CHANNELS

\* play_note: a new note from phase 0; channel 0 also drives the speaker.
PlayNoteOp(st, c, f, w, v) ==
    IF ~InRange(c) \/ ~st.init THEN st
    ELSE LET st1 == [st EXCEPT !.ch[c] = [frequency |-> f, waveform |-> w,
                                          volume |-> v, phase |-> 0,
                                          active |-> TRUE]]
         IN IF c = 0 /\ f > 0 THEN SetSpeakerFrequency(st1, f) ELSE st1

\* stop_note: inactive, volume 0; channel 0 also silences the speaker.
StopNoteOp(st, c) ==
    IF ~InRange(c) \/ ~st.init THEN st
    ELSE LET st1 == [st EXCEPT !.ch[c].active = FALSE, !.ch[c].volume = 0]
         IN IF c = 0 THEN SilenceSpeaker(st1) ELSE st1

\* play_audio_sequence's loop from note i on channel ch: play, wait, stop,
\* next channel, until the terminator or channel >= max_channels.
RECURSIVE SequenceFrom(_, _, _, _, _)
SequenceFrom(st, seq, i, ch, m) ==
    IF seq[i][1] = 0 \/ ch >= m THEN st
    ELSE SequenceFrom(StopNoteOp(PlayNoteOp(st, ch, seq[i][1], seq[i][2], 128), ch),
                      seq, i + 1, (ch + 1) % m, m)

PlaySequenceOp(st, seq, maxc) ==
    IF ~st.init THEN st
    ELSE SequenceFrom(st, seq, 1, 0, IF maxc > MAX_CHANNELS THEN MAX_CHANNELS ELSE maxc)

\* create_fire_crackling's burst frequencies: 1000 + (i * 17) % 500.
Burst(i) == 1000 + ((i * 17) % 500)

\* create_fire_crackling: 50 passes of play_note then stop_note on the
\* channel.  Each pass overwrites the whole channel, the divisor and the
\* gate, and nothing reads them between passes (the loops in between only
\* delay), so the call leaves what its last pass (i = 49) leaves.
CracklingOp(st, c) ==
    IF ~st.init THEN st
    ELSE StopNoteOp(PlayNoteOp(st, c, Burst(49), WAVE_SQUARE, 100), c)

\* create_demonic_growl: a sawtooth at 60 Hz, then 100 writes of
\* 60 + (i % 20) to the channel's frequency, the last of them 79.
GrowlOp(st, c) ==
    IF ~st.init THEN st
    ELSE [PlayNoteOp(st, c, 60, WAVE_SAW, 200) EXCEPT !.ch[c].frequency = 60 + (99 % 20)]

\* The mixer's clamp to the int16 range.
Clamp16(x) == IF x > 32767 THEN 32767 ELSE IF x < -32768 THEN -32768 ELSE x

\* buffer_position advanced without the wrap (faulty variant).
NextPosNoWrap(p) == p + 1

\* buffer_position = (buffer_position + 1) % BUFFER_SIZE
NextPos(p) == (p + 1) % BUFFER_SIZE

\* update_audio_system: sample k of the buffer takes each active channel
\* at its phase plus k increments; each active channel's phase then
\* stands BUFFER_SIZE increments further on; buffer_position advances.
UpdateOp(st) ==
    LET Inc(c) == PhaseIncrement(st.ch[c].frequency)
        Sample(c, k) == IF st.ch[c].active
                        THEN SampleAt(st.ch[c], PhaseMod(st.ch[c].phase + k * Inc(c)))
                        ELSE 0
    IN [st EXCEPT
          !.buf = [k \in 0..(BUFFER_SIZE - 1) |->
                     Clamp16(Sample(0, k) + Sample(1, k) + Sample(2, k))],
          !.ch  = [c \in Channels |->
                     IF st.ch[c].active
                     THEN [st.ch[c] EXCEPT !.phase = PhaseMod(@ + BUFFER_SIZE * Inc(c))]
                     ELSE st.ch[c]],
          !.pos = NextPos(@)]

\* shutdown_audio_driver with the flag cleared before the channels are
\* stopped (faulty variant).
ShutdownFlagFirst(st) ==
    IF ~st.init THEN st
    ELSE LET st0 == [st EXCEPT !.init = FALSE]
         IN SilenceSpeaker(StopNoteOp(StopNoteOp(StopNoteOp(st0, 0), 1), 2))

\* shutdown_audio_driver: stop every channel, silence, clear the flag.
ShutdownOp(st) ==
    IF ~st.init THEN st
    ELSE [SilenceSpeaker(StopNoteOp(StopNoteOp(StopNoteOp(st, 0), 1), 2))
            EXCEPT !.init = FALSE]

Init ==
    /\ \E g \in 0..3 : aud = AudioBoot(g)
    /\ mixes = 0

\* init_hell_audio_driver: channels reset, tables built, init_pc_speaker
\* sets both gate bits, the buffer is cleared, initialized = true.
AudioDriverInit ==
    /\ aud' = [aud EXCEPT !.init = TRUE, !.ch = [c \in Channels |-> Quiet],
                          !.buf = [i \in 0..(BUFFER_SIZE - 1) |-> 0],
                          !.gate = 3]
    /\ UNCHANGED mixes

PlayNote(c, f, w, v) == aud' = PlayNoteOp(aud, c, f, w, v) /\ UNCHANGED mixes
StopNote(c) == aud' = StopNoteOp(aud, c) /\ UNCHANGED mixes
PlayAudioSequence(seq) == aud' = PlaySequenceOp(aud, seq, 3) /\ UNCHANGED mixes
DemonicGrowl(c) == aud' = GrowlOp(aud, c) /\ UNCHANGED mixes
FireCrackling(c) == aud' = CracklingOp(aud, c) /\ UNCHANGED mixes
ShutdownAudio == aud' = ShutdownOp(aud) /\ UNCHANGED mixes

\* update_audio_system, called once per pass of kernel_main_loop.
UpdateAudio ==
    /\ mixes < MaxMixes
    /\ aud' = IF aud.init THEN UpdateOp(aud) ELSE aud
    /\ mixes' = mixes + 1

Next ==
    \/ AudioDriverInit
    \/ \E n \in NoteCalls : PlayNote(n[1], n[2], n[3], n[4])
    \/ \E c \in Chans : StopNote(c)
    \/ \E s \in {StartupChord, ErrorSound, ShutdownSound} : PlayAudioSequence(s)
    \/ \E c \in Channels : DemonicGrowl(c)
    \/ \E c \in Channels : FireCrackling(c)
    \/ UpdateAudio
    \/ ShutdownAudio

Spec == Init /\ [][Next]_avars

-----------------------------------------------------------------------------
AudioTypeOK ==
    /\ aud.init \in BOOLEAN
    /\ \A c \in Channels :
         /\ aud.ch[c].phase \in 0..65535
         /\ aud.ch[c].volume \in 0..255
         /\ aud.ch[c].active \in BOOLEAN
    /\ \A k \in 0..(BUFFER_SIZE - 1) : aud.buf[k] \in -32768..32767
    /\ aud.pos \in 0..(BUFFER_SIZE - 1)
    /\ aud.gate \in 0..3
    /\ mixes \in 0..MaxMixes

(***************************************************************************)
(* While the driver is not initialized no channel sounds: every channel  *)
(* is inactive with volume 0, before init_hell_audio_driver and after     *)
(* shutdown_audio_driver.  stop_note refuses to act on an uninitialized   *)
(* driver, so shutdown must stop the channels before it clears the flag: *)
(* once the flag is clear nothing but a new init can stop a note.        *)
(***************************************************************************)
QuietWhenUninitialized ==
    ~aud.init => \A c \in Channels : ~aud.ch[c].active /\ aud.ch[c].volume = 0

=============================================================================
