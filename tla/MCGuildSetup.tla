---------------------------- MODULE MCGuildSetup ----------------------------
\* A small guild for TLC: two ready-made channels and one setup run.
EXTENDS GuildSetup
=============================================================================
