-------------------------- MODULE MCChannelTimeline --------------------------
EXTENDS ChannelTimeline
=============================================================================
