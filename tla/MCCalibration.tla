--------------------------- MODULE MCCalibration ---------------------------
EXTENDS Calibration
MCSmall == {0, 1}
=============================================================================
