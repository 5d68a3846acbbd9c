----------------------------- MODULE MCDriveChain -----------------------------
(* DriveChain with a speed ahead and one back, both above MinSpeed.          *)
EXTENDS DriveChain

MCSpeeds == {-9, 0, 12}

=============================================================================
