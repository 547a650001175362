------------------------------ MODULE MCUsbRx ------------------------------
EXTENDS UsbRx, TLC

MCSymmetry == Permutations(Bufs)
=============================================================================
