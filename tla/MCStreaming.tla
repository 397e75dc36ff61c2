---------------------------- MODULE MCStreaming ----------------------------
EXTENDS Streaming

CONSTANTS r1, r2

Chunk(usage, finish) == [usage |-> usage, finish |-> finish]

\* A running total, the last one with the finish reason.
Running == <<Chunk(1, FALSE), Chunk(2, TRUE)>>
\* One report, after the finish reason.
AtTheEnd == <<Chunk(None, TRUE), Chunk(3, FALSE)>>
\* No report at all, and no chunk at all.
Silent == <<Chunk(None, TRUE)>>

AllScripts == {Running, AtTheEnd, Silent, <<>>}
=============================================================================
