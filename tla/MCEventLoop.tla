---------------------------- MODULE MCEventLoop ----------------------------
(***************************************************************************)
(* Instances of EventLoop for TLC.                                         *)
(***************************************************************************)
EXTENDS EventLoop

CONSTANTS t1, t2, home, p1, o1, w1, stop, h1, h2, none

MCThread == {t1, t2}
MCPersistent == {p1}
MCPlain == {o1}
MCWork == {w1}
MCHandler == {h1}
MCHandlers == {h1, h2}
=============================================================================
