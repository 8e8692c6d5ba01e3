---------------------------- MODULE MCXrayReload ----------------------------
(* XrayReload with three reload-loop tasks and the handler thread.         *)
EXTENDS XrayReload
CONSTANTS l1, l2, l3
MCLoops == {l1, l2, l3}
=============================================================================
