--------------------------- MODULE MCKakaoChannel ---------------------------
\* One customer and messages without a user; what they may send.
EXTENDS KakaoChannel
CONSTANT c1

By(c, text, named, link, callback) ==
  [customer |-> c, text |-> text, named |-> named, link |-> link, callback |-> callback]

MCInput == {By(c1, "", NoChoice, 2, FALSE),
            By(c1, "name", 2, NoChoice, TRUE),
            By(c1, "change", NoChoice, NoChoice, FALSE),
            By(c1, "question", NoChoice, NoChoice, TRUE),
            By(Nobody, "question", NoChoice, NoChoice, FALSE)}
\* The name of store 1 begins the name of store 2.
OnePrefix == {<<1, 2>>}
=============================================================================
