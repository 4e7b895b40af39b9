---------------------------- MODULE MCJourneyRun ----------------------------
EXTENDS JourneyRun

\* Two actors, one hand-over.
Relay == <<0, 1>>
=============================================================================
