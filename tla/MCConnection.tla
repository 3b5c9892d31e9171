------------------------------ MODULE MCConnection -----------------------------
EXTENDS Connection

MCSetups == {{"rfi"}, {"directVideo", "directAudio"}}
===============================================================================
