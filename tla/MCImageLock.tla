---------------------------- MODULE MCImageLock ----------------------------
(* One qualification of one image at a time, and the owner at work.        *)
EXTENDS ImageLock

CONSTANTS im1, r1, r2
=============================================================================
