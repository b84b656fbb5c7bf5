---------------------------- MODULE MCVirtqueue ----------------------------
EXTENDS Virtqueue
=============================================================================
