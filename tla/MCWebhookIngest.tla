--------------------------- MODULE MCWebhookIngest ---------------------------
(* Small instances: three events, two of them delivered in two versions: one  *)
(* written in another precision, one related to the session only.  A third    *)
(* event is related to an order and a session.                                *)
EXTENDS EventTimeline, TLC

CONSTANTS e1, e2, e3, order, session, authorized, captured

Related(o, s) == [r \in Relation |-> IF r = 1 THEN o ELSE IF r = 2 THEN s ELSE None]
Utc(minute, digits) == [minute |-> minute, digits |-> digits, zone |-> "Z", offset |-> 0]
Ahead(minute, digits, offset) ==
  [minute |-> minute, digits |-> digits, zone |-> "+", offset |-> offset]
Body(id, type, o, s, created) ==
  [id |-> id, type |-> type, related |-> Related(o, s), created |-> created]

Versions ==
  {Body(e1, authorized, order, None, Utc(1, <<0>>)),
   Body(e1, authorized, order, None, Utc(1, <<0, 5>>)),
   Body(e2, captured, order, session, Utc(1, <<0>>)),
   Body(e3, captured, order, None, Utc(0, <<59>>)),
   Body(e3, captured, None, session, Utc(1, <<0>>))}

Offsets ==
  {Body(e1, authorized, order, None, Utc(60, <<0>>)),
   Body(e2, captured, order, session, Ahead(120, <<0>>, 120))}

Symmetry == Permutations(Deliveries)
=============================================================================
