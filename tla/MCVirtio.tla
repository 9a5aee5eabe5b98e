------------------------------ MODULE MCVirtio ------------------------------
EXTENDS Virtio, TLC

CONSTANTS p1, p2, p3
=============================================================================
