-------------------------- MODULE MC_EventPipeline --------------------------
\* A small instance of EventPipeline: one high-priority event, one standard
\* event and one standard event that does not parse, two worker processes.
EXTENDS EventPipeline
CONSTANTS h1, s1, bad
MCEvents == {h1, s1, bad}
MCHigh   == {h1}
MCPoison == {bad}
=============================================================================
