---------------------------- MODULE MCInputStream -----------------------------
EXTENDS InputStream

E(d, k) == [dev |-> d, key |-> k]
Scenario(a, p, q) == [c \in {"app", "p", "q"} |-> CASE c = "app" -> a [] c = "p" -> p [] c = "q" -> q]
Three(S) == [1 .. 3 -> S]

(* Two threads that move the mouse and press buttons.  With a largest      *)
(* delta of 1 a sum of 2 takes two packets.                                *)
Mouse == {Scenario(<<>>, p, q) :
            p \in {<<E("move", 1), E("button", 0), E("move", 1)>>, <<E("point", 0), E("move", -1), E("button", 0)>>,
                   <<E("move", 1), E("move", 1), E("button", 0)>>, <<E("point", 0), E("button", 0), E("point", 0)>>},
            q \in {<<E("move", 1)>>, <<E("move", -1), E("button", 0)>>}}

(* Gamepads, a pen with one button that comes down, and a sensor. *)
Pad   == {Scenario(<<>>, p, <<E("pad1", 1)>>) : p \in Three({E("pad1", 0), E("pad1", 1)})}
         \cup {Scenario(<<>>, p, <<>>) : p \in Three({E("pad1", 0), E("pad2", 0), E("pad2", 1)})}
Pen   == {Scenario(<<>>, p, <<>>) : p \in Three({E("pen", 0), E("pen", 2), E("pen", 3)})}
Sense == {Scenario(<<>>, p, <<E("sense", 0)>>) : p \in Three({E("sense", 0), E("sense", 1)})}

(* Keys, text, scrolls, and a gamepad that arrives. *)
Rest == {Scenario(a, p, <<>>) : a \in {<<>>, <<E("haptics", 0)>>},
           p \in {<<E("key", 0), E("text", 2), E("key", 0)>>, <<E("arrival", 0), E("pad1", 1)>>,
                  <<E("scroll", 5), E("scroll", -3)>>, <<E("scroll", 1), E("scroll", 1)>>}}

MCScenarios == Mouse \cup Pad \cup Pen \cup Sense \cup Rest
===============================================================================
