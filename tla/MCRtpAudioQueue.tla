--------------------------- MODULE MCRtpAudioQueue ----------------------------
EXTENDS RtpAudioQueue
===============================================================================
