----------------------------- MODULE MCDevices -----------------------------
EXTENDS Devices

\* "combo", a keyboard that is also a mouse, needs the sink and a clone; "mouse"
\* needs a clone; "plain" only the sink.
Plugged == [s \in Sources |-> CASE s = "combo" -> {"keys", "buttons", "axes"}
                                [] s = "mouse" -> {"buttons", "axes"}
                                [] OTHER -> {"keys"}]
\* Hooks need outputs to pass input on, blocking both classes needs none.
HookOrBlock == {NoDemand, [hooks |-> {"keyboard"}, blocks |-> {}], [hooks |-> {}, blocks |-> Classes]}
=============================================================================
