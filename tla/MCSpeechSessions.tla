-------------------------- MODULE MCSpeechSessions --------------------------
EXTENDS SpeechSessions
=============================================================================
