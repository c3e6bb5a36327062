------------------------------ MODULE MCIngest ------------------------------
EXTENDS Ingest

Press(k) == <<"key", k, 0>>
Scan == <<"scan", "of", 0>>
Move(axis) == <<"rel", axis, 1>>
\* A combined keyboard and mouse, and a touchpad with keys, which no mouse hook
\* covers; and a pen, which is neither keyboard nor mouse.
Sources == {{"keyboard", "mouse", "hook", "block", "hires"}, {"keyboard", "mouse", "block"}, {"block"}}
\* A key with its scan code, motion, a click within motion, a wheel notch, a
\* chord over both lanes, a raw button, and a contact with absolute
\* motion and pressure.
Sent1 == {<<Scan, Press("a"), Syn>>, <<Move("x"), Syn>>, <<Move("x"), Press("left"), Move("y"), Syn>>,
          <<<<"rel", "wheel_hi", 120>>, <<"rel", "wheel", 1>>, Syn>>,
          <<Press("a"), Press("left"), Syn>>, <<Scan, Press("stylus"), Syn>>,
          <<<<"abs", "x", 1>>, <<"abs", "other", 1>>, Press("touch"), Syn>>}
=============================================================================
