------------------------------ MODULE MCDelivery ------------------------------
EXTENDS Delivery

CONSTANTS a, b, m

(* a, a/b, a/+, a/#, +/b and a//b *)
MCFilters == {<<a>>, <<a, b>>, <<a, Plus>>, <<a, Hash>>, <<Plus, b>>, <<a, Empty, b>>}

Message(topic, message, retain) == [topic |-> topic, message |-> message, retain |-> retain]

(* Messages on a, a/b and a//b, and a retained one on b that is cleared *)
MCMessages ==
  {Message(<<a>>, <<m>>, FALSE), Message(<<a, b>>, <<m>>, FALSE),
   Message(<<a, Empty, b>>, <<m>>, FALSE), Message(<<b>>, <<>>, TRUE)}

MCWills == {Message(<<>>, <<>>, FALSE), Message(<<a>>, <<m>>, TRUE)}

MCClientId == <<>>

MCCharacters == {a, b, m, Empty}

=============================================================================
