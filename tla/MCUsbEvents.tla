----------------------------- MODULE MCUsbEvents -----------------------------
EXTENDS UsbEvents

CONSTANTS t1, t2

MCThread == {t1, t2}
MCTimeout == t1 :> 1 @@ t2 :> 2
Own == t1 :> t1 @@ t2 :> t2
Other == t1 :> t1 @@ t2 :> t1
Two == t1 :> 1 @@ t2 :> 1
Solo == t1 :> 3 @@ t2 :> 0

Setup(n, t, r, c, m) ==
  [num_urbs |-> n, using_timer |-> t, reap_after_disconnect |-> r, closer |-> c, mishaps |-> m]

MCSetups ==
  {Setup(Two, TRUE, FALSE, Own, {<<"unplugged", t2>>, <<"failure", t1>>})}
  \cup {Setup(Two, t, TRUE, Other, {}) : t \in BOOLEAN}
  \cup {Setup(Solo, t, r, Own, Mishaps \X {t1}) : t \in BOOLEAN, r \in BOOLEAN}
=============================================================================
