--------------------------- MODULE MC_SegmentWriter ---------------------------
EXTENDS SegmentWriter
=============================================================================
