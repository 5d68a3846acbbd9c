------------------------------ MODULE MCServoBus ------------------------------
(* ServoBus with one setting of each mode, one of them with an angle out of *)
(* the servo's range, and with a mode the controller does not know.         *)
EXTENDS ServoBus

MCConfigs == {[mode |-> "IDLE",    min |-> 0, max |-> 1],
              [mode |-> "FB_ONLY", min |-> 0, max |-> 1],
              [mode |-> "POINT",   min |-> 3, max |-> 1],
              [mode |-> "SERVO",   min |-> 0, max |-> 1],
              [mode |-> "unknown", min |-> 0, max |-> 1]}

=============================================================================
