--------------------------- MODULE MCCameraConfigs ---------------------------
\* Clients are interchangeable.
EXTENDS CameraConfigs, TLC
ClientSymmetry == Permutations(Client)
=============================================================================
