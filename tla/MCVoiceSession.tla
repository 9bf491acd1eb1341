--------------------------- MODULE MCVoiceSession ---------------------------
(* Instances of VoiceSession for TLC. *)
EXTENDS VoiceSession

\* The timers are interchangeable.
Timers == {[g \in Graces |-> IF g = a THEN b ELSE IF g = b THEN a ELSE g] : a, b \in Graces}

\* Messages of the safety run: every one that cancels, starts or reorders turns.
Talking == Kinds \ {"mic_off", "overlong", "audio_fails"}

\* Messages of the liveness run: every one that opens or closes the microphone.
Switching == {"mic_on", "mic_off", "overlong", "audio_fails"}

\* A session without typed input.
Spoken == Kinds \ {"text"}
=============================================================================
