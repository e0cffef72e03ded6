--------------------------- MODULE MCSpeechAudio ---------------------------
\* The instance of SpeechAudio that TLC checks: one key is like another.
EXTENDS SpeechAudio, TLC

KeysAlike == Permutations(Key)
============================================================================
